------------------------------ MODULE Channel ------------------------------
(***************************************************************************)
(* One RPC over an IrohChannel (src/channel.rs), from connect to the end   *)
(* of the response body.  The client side is the code: call, pump_body and *)
(* IrohResponseBody.  External are h2 (flow control windows, send and      *)
(* receive buffers, resets) and the remote handler.  A unit of data is one *)
(* byte of a flow control window; a frame of the request body is a number  *)
(* of units, which send_data hands over at once.                           *)
(*                                                                         *)
(* Simplifications: one call per channel, so that the connection's window  *)
(* and the stream's are one; a unit leaves the sender's h2 and reaches the *)
(* receiver's in one step.                                                 *)
(***************************************************************************)
EXTENDS Connect, Sequences, FiniteSets

CONSTANTS
  Window, ReplyWindow,   \* h2 flow control windows, request and response
  ServerBuffer,          \* bound on the handler: units an echo may owe
  Bodies,                \* request bodies: [frames, end, interactive]
  Styles,                \* what the handler does: "collect", "echo", "early"
  Replies                \* units a collecting handler answers with

ASSUME WindowsAssumption ==
  Window \in Nat \ {0} /\ ReplyWindow \in Nat \ {0} /\ ServerBuffer \in Nat \ {0}

ASSUME BodiesAssumption ==
  Bodies \subseteq [frames : Seq(Nat \ {0}), end : {"none", "trailers", "error"},
                    interactive : BOOLEAN]

ASSUME HandlerAssumption ==
  Styles \subseteq {"collect", "echo", "early"} /\ Replies \subseteq Nat

VARIABLES
  handle,    \* does the user own the IrohChannel?
  body,      \* the request body
  call,      \* the future of Service::call: where it is and its next frame
  req,       \* the request half of the h2 stream
  server,    \* the remote handler
  rbuf,      \* the response half: received and not yet polled
  rwindow,   \* its window
  resp       \* IrohResponseBody

chanVars == <<handle, body, call, req, server, rbuf, rwindow, resp>>
vars == <<connectVars, handle, body, call, req, server, rbuf, rwindow, resp>>

\* The units of the first n frames of the body, for every n.
Units ==
  LET sum[n \in 0 .. Len(body.frames)] == IF n = 0 THEN 0 ELSE sum[n - 1] + body.frames[n]
  IN  sum

Total == Units[Len(body.frames)]

Init ==
  /\ ConnectInit
  /\ handle = TRUE /\ body \in Bodies
  /\ call = [pc |-> "idle", next |-> 1]
  /\ req = [window |-> Window, buffered |-> 0, end |-> "open", peerReset |-> FALSE]
  /\ \E s \in Styles, r \in Replies :
       server = [pc |-> "serving", style |-> s, replies |-> r, got |-> 0, read |-> 0,
                 saw |-> "open", headers |-> FALSE, owed |-> 0, sent |-> 0]
  /\ rbuf = <<>> /\ rwindow = ReplyWindow
  /\ resp = [state |-> "none", delivered |-> 0, result |-> "none"]

-----------------------------------------------------------------------------
(* Service::call.                                                          *)

OnlyCall == UNCHANGED <<connectVars, handle, body, server, rbuf, rwindow, resp>>

\* h2 still sends on the stream: nobody has reset it and the connection is there.
Streaming == req.end = "open" /\ ~req.peerReset /\ link = "up"

BodyIsEmpty == body.frames = <<>> /\ body.end = "none"

InCall == call.pc \in {"pumping", "capacity", "response"}

\* The headers are sent, with END_STREAM if there is no body.  On a connection that
\* is lost send_request fails.
StartCall ==
  /\ At("channel") /\ handle /\ call.pc = "idle"
  /\ IF link # "up" THEN call' = [call EXCEPT !.pc = "err"] /\ UNCHANGED req
     ELSE IF BodyIsEmpty
          THEN call' = [call EXCEPT !.pc = "response"] /\ req' = [req EXCEPT !.end = "end"]
          ELSE call' = [call EXCEPT !.pc = "pumping"] /\ UNCHANGED req
  /\ OnlyCall

\* A frame of the body is there.  The next message of an interactive body depends on
\* the answer to those before it, which the caller has when call has returned.
FrameReady == ~body.interactive \/ call.pc = "ok"

\* Mutant of PumpFrame: send_data without waiting for capacity.
PumpFrameUnbounded ==
  /\ call.pc = "pumping" /\ call.next <= Len(body.frames) /\ FrameReady
  /\ req' = [req EXCEPT !.buffered = @ + body.frames[call.next]]
  /\ call' = [call EXCEPT !.next = @ + 1]
  /\ OnlyCall

\* poll_frame returned data: reserve_capacity for it.
PumpFrame ==
  /\ call.pc = "pumping" /\ call.next <= Len(body.frames) /\ FrameReady
  /\ call' = [call EXCEPT !.pc = "capacity"]
  /\ UNCHANGED req /\ OnlyCall

\* Mutant of PumpSend: it waits for room for the whole frame.
PumpSendAll ==
  /\ call.pc = "capacity" /\ Streaming
  /\ req.window >= req.buffered + body.frames[call.next]
  /\ req' = [req EXCEPT !.buffered = @ + body.frames[call.next]]
  /\ call' = [pc |-> "pumping", next |-> call.next + 1]
  /\ OnlyCall

\* poll_capacity is ready as soon as one unit more than what is buffered may be
\* sent; then send_data takes the whole frame.
PumpSend ==
  /\ call.pc = "capacity" /\ Streaming /\ req.window > req.buffered
  /\ req' = [req EXCEPT !.buffered = @ + body.frames[call.next]]
  /\ call' = [pc |-> "pumping", next |-> call.next + 1]
  /\ OnlyCall

BodyOver == call.pc = "pumping" /\ call.next > Len(body.frames) /\ FrameReady

\* The body is exhausted, or its trailers end it.
PumpEnd ==
  /\ BodyOver /\ body.end # "error" /\ Streaming
  /\ req' = [req EXCEPT !.end = "end"]
  /\ call' = [call EXCEPT !.pc = "response"]
  /\ OnlyCall

\* Mutants of PumpFails: the stream is left as it is; it is ended as if all were well.
PumpFailsSilently ==
  /\ \/ BodyOver /\ body.end = "error"
     \/ call.pc = "capacity" /\ ~Streaming
     \/ BodyOver /\ body.end # "error" /\ ~Streaming
  /\ call' = [call EXCEPT !.pc = "err"] /\ UNCHANGED req
  /\ OnlyCall

PumpFailsEnding ==
  /\ \/ BodyOver /\ body.end = "error"
     \/ call.pc = "capacity" /\ ~Streaming
     \/ BodyOver /\ body.end # "error" /\ ~Streaming
  /\ req' = [req EXCEPT !.end = "end"]
  /\ call' = [call EXCEPT !.pc = "err"]
  /\ OnlyCall

\* The body failed, or the stream was closed under poll_capacity, send_data or
\* send_trailers: send_reset, which discards what is buffered, and Err.
PumpFails ==
  /\ \/ BodyOver /\ body.end = "error"
     \/ call.pc = "capacity" /\ ~Streaming
     \/ BodyOver /\ body.end # "error" /\ ~Streaming
  /\ req' = [req EXCEPT !.end = "reset", !.buffered = 0]
  /\ call' = [call EXCEPT !.pc = "err"]
  /\ OnlyCall

AwaitResponse ==
  /\ call.pc = "response" /\ rbuf # <<>>
  /\ IF Head(rbuf) = "headers"
     THEN /\ call' = [call EXCEPT !.pc = "ok"] /\ rbuf' = Tail(rbuf)
          /\ resp' = [resp EXCEPT !.state = "Data"]
     ELSE call' = [call EXCEPT !.pc = "err"] /\ UNCHANGED <<rbuf, resp>>
  /\ UNCHANGED <<connectVars, handle, body, req, server, rwindow>>

\* The caller drops the future: h2 resets a stream nobody owns any more.
CancelCall ==
  /\ InCall
  /\ call' = [call EXCEPT !.pc = "cancelled"]
  /\ req' = [req EXCEPT !.end = "reset", !.buffered = 0]
  /\ OnlyCall

CallStep ==
  StartCall \/ PumpFrame \/ PumpSend \/ PumpEnd \/ PumpFails \/ AwaitResponse

-----------------------------------------------------------------------------
(* IrohResponseBody::poll_frame, called by tonic's decoder.                *)

OnlyResp == UNCHANGED <<connectVars, handle, body, call, req, server>>

\* A reset that arrives after END_STREAM and before the body has seen the end turns
\* the end into an error; one that arrives after trailers does not.
Ending == IF rbuf = <<>> THEN "pending"
          ELSE IF Head(rbuf) = "end" /\ Len(rbuf) > 1 THEN "error" ELSE Head(rbuf)

\* Mutant of PollData: the capacity is not released.
PollDataKeepsCapacity ==
  /\ resp.state = "Data" /\ Ending = "data"
  /\ rbuf' = Tail(rbuf) /\ UNCHANGED rwindow
  /\ resp' = [resp EXCEPT !.delivered = @ + 1]
  /\ OnlyResp

\* Some(Ok(data)), its capacity released (which cannot fail: it was received).
PollData ==
  /\ resp.state = "Data" /\ Ending = "data"
  /\ rbuf' = Tail(rbuf) /\ rwindow' = rwindow + 1
  /\ resp' = [resp EXCEPT !.delivered = @ + 1]
  /\ OnlyResp

\* None: on to the trailers.
PollDataNone ==
  /\ resp.state = "Data" /\ Ending \in {"trailers", "end"}
  /\ resp' = [resp EXCEPT !.state = "Trailers"]
  /\ UNCHANGED <<rbuf, rwindow>> /\ OnlyResp

\* Mutant of PollError: an error is taken for the end.
PollErrorAsEnd ==
  /\ resp.state \in {"Data", "Trailers"} /\ Ending = "error"
  /\ resp' = [resp EXCEPT !.state = "Done", !.result = "complete"]
  /\ UNCHANGED <<rbuf, rwindow>> /\ OnlyResp

\* Mutant of PollError: the body stays where it is.
PollErrorSticks ==
  /\ resp.state \in {"Data", "Trailers"} /\ Ending = "error"
  /\ resp' = [resp EXCEPT !.result = "error"]
  /\ UNCHANGED <<rbuf, rwindow>> /\ OnlyResp

\* Some(Err(..)) from poll_data or poll_trailers.
PollError ==
  /\ resp.state \in {"Data", "Trailers"} /\ Ending = "error"
  /\ resp' = [resp EXCEPT !.state = "Done", !.result = "error"]
  /\ UNCHANGED <<rbuf, rwindow>> /\ OnlyResp

PollTrailers ==
  /\ resp.state = "Trailers" /\ Ending \in {"trailers", "end"}
  /\ resp' = [resp EXCEPT !.state = "Done", !.result = "complete"]
  /\ rbuf' = Tail(rbuf) /\ UNCHANGED rwindow /\ OnlyResp

RespStep == PollData \/ PollDataNone \/ PollError \/ PollTrailers

\* The decoder drops the body before its end.
DropBody ==
  /\ resp.state \in {"Data", "Trailers"}
  /\ resp' = [resp EXCEPT !.state = "Done", !.result = "dropped"]
  /\ req' = [req EXCEPT !.end = "reset", !.buffered = 0]
  /\ UNCHANGED <<connectVars, handle, body, call, server, rbuf, rwindow>>

-----------------------------------------------------------------------------
(* h2's driver task, the remote handler and the network (external).        *)

OnlyServer == UNCHANGED <<connectVars, handle, body, call, resp>>

Serving == link = "up" /\ server.pc = "serving"

\* Buffered data goes out within the window; the end follows the data, a reset
\* overtakes it.
Transmit ==
  /\ link = "up" /\ ~req.peerReset
  /\ \/ /\ req.buffered > 0 /\ req.window > 0
        /\ req' = [req EXCEPT !.buffered = @ - 1, !.window = @ - 1]
        /\ server' = [server EXCEPT !.got = @ + 1]
     \/ /\ req.buffered = 0 /\ req.end # "open" /\ server.saw = "open"
        /\ server' = [server EXCEPT !.saw = req.end]
        /\ UNCHANGED req
  /\ OnlyServer /\ UNCHANGED <<rbuf, rwindow>>

\* The handler reads one unit, which gives it back to the window.
Read ==
  /\ Serving /\ server.got > 0 /\ server.style # "early" /\ server.saw # "reset"
  /\ server.style = "echo" => server.owed < ServerBuffer
  /\ server' = [server EXCEPT !.got = @ - 1, !.read = @ + 1,
                              !.owed = IF server.style = "echo" THEN @ + 1 ELSE @]
  /\ req' = [req EXCEPT !.window = @ + 1]
  /\ OnlyServer /\ UNCHANGED <<rbuf, rwindow>>

\* The whole request has been read.
AllRead == server.saw = "end" /\ server.got = 0

SendHeaders ==
  /\ Serving /\ ~server.headers /\ server.saw # "reset" /\ call.pc # "idle"
  /\ server.style = "collect" => AllRead
  /\ server' = [server EXCEPT !.headers = TRUE,
                              !.owed = IF server.style = "collect" THEN server.replies ELSE @]
  /\ rbuf' = Append(rbuf, "headers")
  /\ OnlyServer /\ UNCHANGED <<req, rwindow>>

Reply ==
  /\ Serving /\ server.headers /\ server.owed > 0 /\ rwindow > 0 /\ server.saw # "reset"
  /\ server' = [server EXCEPT !.owed = @ - 1, !.sent = @ + 1]
  /\ rbuf' = Append(rbuf, "data") /\ rwindow' = rwindow - 1
  /\ OnlyServer /\ UNCHANGED req

\* The response ends, with trailers or (a trailers-only answer) with the headers.
FinishReply ==
  /\ Serving /\ server.headers /\ server.owed = 0 /\ server.saw # "reset"
  /\ server.style = "early" \/ AllRead
  /\ server' = [server EXCEPT !.pc = "done"]
  /\ \E last \in {"trailers"} \cup (IF server.sent = 0 THEN {"end"} ELSE {}) :
       rbuf' = Append(rbuf, last)
  /\ OnlyServer /\ UNCHANGED <<req, rwindow>>

ResetByServer ==
  /\ link = "up" /\ ~req.peerReset /\ call.pc # "idle" /\ server.saw # "reset"
  /\ req' = [req EXCEPT !.peerReset = TRUE, !.buffered = 0]
  /\ rbuf' = Append(rbuf, "error")
  /\ OnlyServer /\ UNCHANGED rwindow

\* A handler that has answered and will not read the rest resets the stream.
EarlyReset ==
  server.pc = "done" /\ server.saw = "open" /\ UNCHANGED server /\ ResetByServer

\* A handler may fail at any time.
ServerFails ==
  server.pc = "serving" /\ server' = [server EXCEPT !.pc = "reset"] /\ ResetByServer

\* The connection is lost: h2 fails what is open on both sides.
Lose ==
  /\ link = "up"
  /\ link' = "lost" /\ rbuf' = Append(rbuf, "error")
  /\ server' = IF server.pc = "serving" THEN [server EXCEPT !.pc = "lost"] ELSE server
  /\ UNCHANGED <<builder, connect, owners, handle, body, call, req, rwindow, resp>>

ServerStep == Read \/ SendHeaders \/ Reply \/ FinishReply \/ EarlyReset

\* The user drops its IrohChannel.
DropHandle ==
  /\ At("channel") /\ handle /\ handle' = FALSE
  /\ UNCHANGED <<connectVars, body, call, req, server, rbuf, rwindow, resp>>

InUse == handle \/ InCall \/ resp.state \in {"Data", "Trailers"}

\* The driver task ends with the connection, or when no handle and no stream is left
\* and its last frames are out; it drops the QUIC stream, whose handle of the
\* connection is the last one.
DriverEnds ==
  /\ "driver" \in owners /\ Drop({"driver"})
  /\ \/ link = "lost"
     \/ ~InUse /\ (req.end # "open" => server.saw # "open" \/ req.peerReset)
  /\ server' = IF server.pc = "serving" THEN [server EXCEPT !.pc = "lost"] ELSE server
  /\ UNCHANGED <<builder, connect, handle, body, call, req, rbuf, rwindow, resp>>

Next ==
  \/ (ConnectStep \/ ConnectTimeout \/ CancelConnect) /\ UNCHANGED <<builder, chanVars>>
  \/ CallStep \/ CancelCall
  \/ RespStep \/ DropBody
  \/ Transmit \/ ServerStep \/ ServerFails \/ Lose
  \/ DropHandle \/ DriverEnds

Spec == Init /\ [][Next]_vars

-----------------------------------------------------------------------------
(* Properties.                                                             *)

\* Back-pressure (the comment of pump_body): what h2 buffers beyond the window is
\* less than one frame, however slowly the handler reads, although poll_capacity
\* may grant one unit for a frame of many.
BackPressure ==
  LET last == IF call.next > 1 THEN body.frames[call.next - 1] ELSE 1
  IN  req.buffered < req.window + last

\* The handler sees the request end only if it has been given all of it: a body that
\* fails, a call that is dropped or a stream closed under pump_body never looks like
\* a shorter request.
NoTruncatedRequest ==
  server.saw = "end" => body.end # "error" /\ server.got + server.read = Total

\* The response body ends without an error only after the handler's own end, with
\* every unit delivered: a reset or a lost connection is never taken for the end.
NoTruncatedResponse ==
  resp.result = "complete" => server.pc = "done" /\ resp.delivered = server.sent

-----------------------------------------------------------------------------
(* Liveness.  h2's driver and the tasks are polled when they are ready;    *)
(* the handler reads and answers as its style says and the decoder polls   *)
(* the response body.  Nothing is assumed of the connect, of losses and of *)
(* failing handlers.                                                       *)

Fairness ==
  /\ WF_vars(CallStep) /\ WF_vars(RespStep) /\ WF_vars(Transmit) /\ WF_vars(ServerStep)
  /\ WF_vars(DriverEnds)

FairSpec == Spec /\ Fairness

\* An echoing handler reads until the response window and its own buffer are full,
\* because nobody polls the response before call has returned.  pump_body gets
\* through if then the first unit of the last frame still fits the request window.
EchoFits ==
  LET n == Len(body.frames)
      last == IF n = 0 THEN 0 ELSE body.frames[n] - 1
  IN  Total - last <= Window + ReplyWindow + ServerBuffer

CallCannotBlock == ~body.interactive /\ (server.style = "echo" => EchoFits)

\* call returns whenever the request body does not wait for the response and an echo
\* of it fits the windows, whatever the sizes of the frames.
CallReturns == (InCall /\ CallCannotBlock) ~> ~InCall

\* Once call has returned Ok, the response body reaches its end or an error: releasing
\* capacity keeps the handler going through a response longer than the window.
ResponseEnds == call.pc = "ok" ~> resp.state = "Done"

\* A call that fails or is dropped does not leave the handler waiting for the rest of
\* the request ("so the peer sees a failure instead of a silent hang").
PeerSeesFailure ==
  call.pc \in {"err", "cancelled"} ~> (server.saw # "open" \/ server.pc # "serving")

\* Once the user has dropped the channel its connection is closed: the driver task,
\* the only one to own a handle of it, outlives the calls and response bodies in
\* progress and no more.
DroppedIsClosed == (~handle /\ CallCannotBlock) ~> (link # "up" /\ owners = {})

\* The channel is a drop-in transport for tonic-generated clients (lines 3-5), one of
\* whose kinds of call is the bidirectional stream: every call returns.
EveryCallReturns == InCall ~> ~InCall
=============================================================================
