------------------------------ MODULE Connect ------------------------------
(***************************************************************************)
(* Connecting to a service without a pool: ConnectBuilder, connect_impl    *)
(* and connect_inner of src/client.rs.  The endpoint, the QUIC connection  *)
(* and the HTTP/2 handshake are external: each of their futures may        *)
(* resolve, fail, or never resolve.  iroh closes a connection when the     *)
(* last handle of it is dropped; who owns one is the code's doing.         *)
(***************************************************************************)
EXTENDS Naturals

CONSTANTS Timeouts, Configs     \* which settings of the builder occur

ASSUME BuilderAssumption == Timeouts \subseteq BOOLEAN /\ Configs \subseteq BOOLEAN

VARIABLES
  builder,    \* ConnectBuilder: is a connect_timeout, a transport_config set?
  connect,    \* where connect_impl is, and the error it returned
  link,       \* the QUIC connection
  owners      \* who owns a handle of it: the local "connection" of connect_inner,
              \* the "stream", whose IrohContext has a clone, h2's "driver" task

connectVars == <<builder, connect, link, owners>>

ConnectionError == {"VersionMismatch", "TransportError", "ConnectionClosed",
                    "ApplicationClosed", "Reset", "TimedOut", "LocallyClosed",
                    "CidsExhausted"}

\* connection_error_to_io
IoKind(e) ==
  CASE e = "VersionMismatch" -> "Unsupported"
    [] e = "TransportError" -> "InvalidData"
    [] e = "ConnectionClosed" -> "ConnectionAborted"
    [] e \in {"ApplicationClosed", "Reset"} -> "ConnectionReset"
    [] e = "TimedOut" -> "TimedOut"
    [] e = "LocallyClosed" -> "NotConnected"
    [] OTHER -> "Other"

\* connecting_error_to_io; ConnectionError is the variant that wraps one.
ConnectingKind(e) == IF e = "HandshakeFailure" THEN "PermissionDenied" ELSE IoKind(e)

Kinds == {"ConnectionRefused", "PermissionDenied", "Connection", "H2",
          "Unsupported", "InvalidData", "ConnectionAborted", "ConnectionReset",
          "TimedOut", "NotConnected", "Other"}

Connecting == connect.pc \in {"connecting", "finishing", "opening", "handshaking"}

ConnectInit ==
  /\ builder \in [timeout : Timeouts, config : Configs]
  /\ connect = [pc |-> "connecting", error |-> "none"]
  /\ link = "none" /\ owners = {}

At(pc) == connect.pc = pc

Goto(pc) == connect' = [connect EXCEPT !.pc = pc]

\* Handles of the connection are dropped; the last one closes it (external).
Drop(who) ==
  /\ owners' = owners \ who
  /\ link' = IF link = "up" /\ owners \subseteq who THEN "closed" ELSE link

\* What the future of connect_inner owns and drops when it is dropped or returns: its
\* locals.  The stream is moved into IrohChannel::handshake, which it awaits.
Locals == {"connection", "stream"}

ReturnError(kind) == connect' = [pc |-> "error", error |-> kind] /\ Drop(Locals)

\* The connection is there, in a local variable.
Connected == Goto("opening") /\ link' = "up" /\ owners' = {"connection"}

\* endpoint.connect, or connect_with_opts with a transport_config, which leaves the
\* handshake to a second await.
EndpointConnect ==
  /\ At("connecting")
  /\ IF builder.config THEN Goto("finishing") /\ UNCHANGED <<link, owners>> ELSE Connected

EndpointConnectFails == At("connecting") /\ ReturnError("ConnectionRefused")

FinishConnecting == At("finishing") /\ Connected

FinishConnectingFails ==
  /\ At("finishing")
  /\ \E e \in ConnectionError \cup {"HandshakeFailure"} : ReturnError(ConnectingKind(e))

\* Mutant of OpenBi: the driver task is spawned at once, before the handshake is done.
OpenBiSpawns ==
  /\ At("opening") /\ link = "up" /\ Goto("handshaking")
  /\ owners' = owners \cup {"driver"} /\ UNCHANGED link

\* open_bi, and the stream with a clone of the connection.
OpenBi ==
  /\ At("opening") /\ link = "up" /\ Goto("handshaking")
  /\ owners' = owners \cup {"stream"} /\ UNCHANGED link

OpenBiFails ==
  /\ At("opening") /\ link = "lost"
  /\ \E e \in ConnectionError : ReturnError(IoKind(e))

\* IrohChannel::handshake succeeds and spawns the driver task, which owns the stream
\* from now on; connect_inner returns and drops its own handle.
Handshake ==
  /\ At("handshaking") /\ link = "up" /\ Goto("channel")
  /\ owners' = (owners \ Locals) \cup {"driver"} /\ UNCHANGED link

HandshakeFails == At("handshaking") /\ link = "lost" /\ ReturnError("H2")

\* n0_future::time::timeout around connect_inner.
ConnectTimeout == builder.timeout /\ Connecting /\ ReturnError("Connection")

\* The caller drops the future of the builder, at whatever await it is.
CancelConnect == Connecting /\ Goto("cancelled") /\ Drop(Locals)

ConnectStep ==
  \/ EndpointConnect \/ EndpointConnectFails \/ FinishConnecting \/ FinishConnectingFails
  \/ OpenBi \/ OpenBiFails \/ Handshake \/ HandshakeFails

\* A connect that fails, times out or is dropped, at whatever await, leaves no
\* connection behind, although the stream has a handle of its own from open_bi on and a
\* task is spawned for it; and one that succeeds leaves it to that task alone, so that
\* the connection lives no longer than the channel's driver.
FailedConnectCleans ==
  /\ connect.pc \in {"error", "cancelled"} => link # "up"
  /\ At("channel") => owners \subseteq {"driver"}

=============================================================================
