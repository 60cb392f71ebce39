-------------------------------- MODULE Http2 -------------------------------
(***************************************************************************)
(* A client connection and a server session of this library on the two     *)
(* ends of one transport, each on its own event-loop thread, and what they *)
(* owe each other and their callers.                                       *)
(***************************************************************************)
EXTENDS Http2Session, Http2Client

vars == <<serverVars, client, wireVars>>

Init == WireInit /\ ServerInit /\ ClientInit

\* The end: the requests are done and both sockets are closed.
Terminated == /\ \A s \in Streams : Pc(s) = "done"
              /\ ~clientOpen /\ loop = "closed"
              /\ UNCHANGED vars

\* A client caught in the loop of AwaitWindow() runs it for ever.
Spins == client.hung /\ UNCHANGED vars

Server == (ServerStep \/ GracefulShutdown) /\ UNCHANGED client

Client == /\ \/ \E s \in Streams : \/ RequestStarts(s)
                                   \/ RequestStep(s)
                                   \/ CancelRequest(s)
             \/ DeadlinePasses
             \/ ClientCloses
          /\ UNCHANGED serverVars

Next == Server \/ Client \/ Spins \/ Terminated

Spec == Init /\ [][Next]_vars

(***************************************************************************)
(* Fairness: a thread that has something of its own to run runs.  Reads,   *)
(* writes, the handlers' awaits and the receivers return, and the owner of *)
(* the connection drops it when its requests are done; nothing obliges a   *)
(* caller to make a request or to cancel one, a deadline to pass or the    *)
(* server to stop.  These are the weak fairness conditions of ServerStep   *)
(* and of the client's steps with ENABLED spelled out, which TLC would     *)
(* evaluate by way of the whole action: every step of the server changes   *)
(* serverVars and no step of the client does.                              *)
(***************************************************************************)
ServerIsReady ==
  \/ loop = "reading" /\ Woken = {}
       /\ (toServer # <<>> \/ ~serverOpen \/ ~clientOpen)
  \/ loop \in {"fed", "serving"} /\ Woken = {}
  \/ loop = "draining" /\ \A s \in Streams : ~IsServing(task[s])
  \/ \E s \in Streams :
       MayRun(s, {"woken", "busy", "answering", "ending", "flushing"})

ClientIsReady ==
  \/ ~client.hung /\ \E s \in Streams :
       \/ Pc(s) \notin {"idle", "done", "waitSend", "waitLoop", "readSend", "readLoop"}
       \/ Pc(s) \in {"readSend", "readLoop"}
            /\ (toClient # <<>> \/ ~clientOpen \/ ~serverOpen)
       \/ Pc(s) = "readLoop" /\ client.request[s].cancelled
  \/ clientOpen /\ \A s \in Streams : Pc(s) = "done"

FairSpec == /\ Spec
            /\ []<>~ServerIsReady \/ []<><<TRUE>>_serverVars
            /\ []<>~ClientIsReady \/ []<><<UNCHANGED serverVars>>_vars

----------------------------------------------------------------------------
(* Properties.                                                             *)

StreamRecords ==
  [state : {"idle", "Open", "HalfClosedRemote", "HalfClosedLocal", "Closed"},
   termination : {"none", "Completed", "ResetByLocal", "ResetByPeer"},
   sendWindow : 0 .. kHttp2MaximumWindowSize,
   receiveWindow : 0 .. kHttp2MaximumWindowSize,
   credit : 0 .. initialWindowSize, pending : Nat, ending : BOOLEAN]

\* The two ends stay inside their types: no window is ever overdrawn or grows
\* past its limit, the credit held back stays within a window, and no more
\* terminated records are kept than announced.
TypeOK ==
  /\ conn.state \in {"Open", "Closing", "Failed"}
  /\ conn.stream \in [Streams -> StreamRecords]
  /\ conn.sendWindow \in 0 .. kHttp2MaximumWindowSize
  /\ conn.receiveWindow \in 0 .. kHttp2MaximumWindowSize
  /\ conn.credit \in 0 .. kHttp2InitialWindowSize
  /\ Len(conn.terminated) <= kTerminatedStreamMemoryCount
  /\ client.sendWindow \in 0 .. kHttp2MaximumWindowSize
  /\ loop \in {"reading", "fed", "serving", "draining", "closed"}

\* Windows are conserved while both ends are in business.
InBusiness == /\ IsHealthy(client) /\ clientOpen /\ serverOpen
              /\ conn.state # "Failed"
              /\ loop \in {"reading", "fed", "serving"}

SumOver(f(_)) == FoldLeft(LAMBDA sum, s : sum + f(s), 0, [s \in Streams |-> s])

OfStream(frames, s) == SelectSeq(frames, LAMBDA f : f.stream = s)


\* The same downloading: a unit is with the server, on its way, waiting for
\* or with the caller's receiver, or in a WINDOW_UPDATE.  The one place where
\* the client loses any is a record erased before its receiver had it all.
DownloadWindowsKept ==
  InBusiness =>
    /\ conn.sendWindow + BytesIn(conn.out) + BytesIn(toClient)
         + SumOver(LAMBDA s : client.request[s].undelivered + client.request[s].batch)
         + CreditIn(toServer, 0)
       = kHttp2InitialWindowSize
    /\ \A s \in Streams :
         client.request[s].booked /\ ~client.request[s].isReset /\ IsActive(conn, s) =>
           conn.stream[s].sendWindow + BytesOn(conn.out, s) + BytesOn(toClient, s)
             + client.request[s].undelivered + client.request[s].batch
             + CreditIn(toServer, s)
           = peerInitialWindowSize

\* Two ends of this library never find each other in breach of the protocol,
\* whatever the order in which resets, refusals, late frames and GOAWAY cross.
NobodyAccuses == conn.state # "Failed" /\ ~client.accused

\* isGuaranteedUnprocessed: a request reported as never processed, which the
\* caller may therefore send again even if it is not idempotent, has not been
\* and will not be given to a handler.
SafeToRetry ==
  \A s \in Streams : Pc(s) = "done" /\ client.request[s].unprocessed
                       => ~task[s].handled


\* A receiver that took all it was given was given the answer to its end.
ReceiverGetsWholeAnswer ==
  \A s \in Receiver : Pc(s) = "done" /\ client.request[s].ok /\ s \notin Impatient
                        => client.request[s].undelivered = 0

\* The client's event loop is never caught in a loop that waits for itself.
EventLoopNeverSpins == ~client.hung

\* Every request ends.
RequestEnds == \A s \in Streams : Pc(s) # "idle" ~> Pc(s) = "done"

=============================================================================
