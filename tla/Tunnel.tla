------------------------------- MODULE Tunnel -------------------------------
(***************************************************************************)
(* What an accepted upgrade of the Connector carries: the SSH bytes between *)
(* the Worker's TailnetConnectorWebSocketDuplex (ssh/tailnet-connector-     *)
(* transport.ts) and the target, through relay() of the Connector           *)
(* (server.ts).  Bytes are numbered chunks; a WebSocket carries them and a  *)
(* close frame in order, until the link breaks.                             *)
(*                                                                          *)
(* The steps of TailnetConnector are used as they are; each end of a relay  *)
(* is a RelayEnds.  Frames that are not binary or too large are left out:   *)
(* neither side sends one.                                                  *)
(***************************************************************************)
EXTENDS TailnetConnector, Sequences

CONSTANTS Followed,   \* bound: the sets of relays whose bytes are followed
          Chunks,     \* bound: chunks in either direction
          MaxOut,     \* MAX_BUFFERED_BYTES of the Worker, in chunks
          MaxUnread,  \* MAX_INBOUND_BUFFER_BYTES
          HighWater   \* of the target's socket in the Connector

ASSUME TunnelAssumption ==
  /\ {Chunks, MaxOut, MaxUnread, HighWater} \subseteq Nat \ {0}
  /\ Followed \subseteq SUBSET Requests

VARIABLE tunnel  \* of each relay that is followed

tunnelVars == <<vars, tunnel>>

\* link, up and down are the WebSocket; sent to read the Worker's side, ws to
\* taken the Connector's, arrived the target's.
Unopened ==
  [link |-> "none", up |-> <<>>, down |-> <<>>,
   sent |-> 0, writing |-> FALSE, closing |-> "none", socketClosed |-> FALSE,
   destroyed |-> FALSE, readableFinished |-> FALSE, unread |-> 0, read |-> <<>>,
   targetClosed |-> FALSE,
   ws |-> "open", paused |-> FALSE, buffered |-> <<>>, sending |-> FALSE, taken |-> 0,
   arrived |-> <<>>]

Data(n) == [kind |-> "data", n |-> n, clean |-> TRUE, target |-> FALSE]
\* clean: code 1000 or 1001; target: "Tailnet target closed".
CloseFrame(clean, target) == [kind |-> "close", n |-> 0, clean |-> clean, target |-> target]

Follows(r) == r \in DOMAIN tunnel /\ tunnel[r].link # "none"
Becomes(r, t) == tunnel' = [tunnel EXCEPT ![r] = t]
Put(t, wire, frame) == IF t.link = "up" THEN Append(wire, frame) ELSE wire

-----------------------------------------------------------------------------
(* The Worker's duplex.                                                    *)

WS_OPEN(t) == t.closing = "none" /\ ~t.socketClosed

\* close()
Closed(t) ==
  IF t.socketClosed THEN [t EXCEPT !.readableFinished = TRUE]
  ELSE IF t.closing # "none" THEN t
  ELSE [t EXCEPT !.closing = "pending", !.up = Put(t, @, CloseFrame(TRUE, FALSE))]

\* destroy(error), which closes.
Destroyed(t) == Closed([t EXCEPT !.destroyed = TRUE])

\* The socket is known to be closed; whoever waits in close() goes on.
SocketClosed(t) ==
  [t EXCEPT !.socketClosed = TRUE, !.readableFinished = TRUE,
            !.closing = IF @ = "pending" THEN "done" ELSE @]

\* The SSH client writes a chunk; a Duplex passes them on one at a time.
Write(r) ==
  /\ Follows(r) /\ ~tunnel[r].writing /\ ~tunnel[r].destroyed /\ tunnel[r].sent < Chunks
  /\ Becomes(r, [tunnel[r] EXCEPT !.writing = TRUE])
  /\ UNCHANGED vars

\* send: there is room in the buffer.
Send(r) ==
  LET t == tunnel[r]
  IN  /\ Follows(r) /\ t.writing /\ WS_OPEN(t) /\ Len(t.up) < MaxOut
      /\ Becomes(r, [t EXCEPT !.writing = FALSE, !.sent = @ + 1,
                              !.up = Put(t, @, Data(t.sent + 1))])
      /\ UNCHANGED vars

\* The socket is closed, or there is no room until the deadline.
WriteFails(r) ==
  LET t == tunnel[r]
  IN  /\ Follows(r) /\ t.writing
      /\ ~WS_OPEN(t) \/ Len(t.up) >= MaxOut \/ t.link = "broken"
      /\ Becomes(r, Destroyed([t EXCEPT !.writing = FALSE]))
      /\ UNCHANGED vars

\* The engine closes the transport, or the SSH client ends its stream.
CloseTransport(r) ==
  /\ Follows(r) /\ tunnel[r].closing = "none"
  /\ Becomes(r, Closed(tunnel[r]))
  /\ UNCHANGED vars

\* ioTimeoutMs after close().
CloseTimesOut(r) ==
  /\ Follows(r) /\ tunnel[r].closing = "pending"
  /\ Becomes(r, SocketClosed(tunnel[r]))
  /\ UNCHANGED vars

\* Faulty variant of Pushed: a frame too many is dropped.
PushedOrDropped(t, n) ==
  IF t.socketClosed \/ t.destroyed \/ t.unread >= MaxUnread THEN t
  ELSE [t EXCEPT !.read = Append(@, n), !.unread = @ + 1]

\* onMessage
Pushed(t, n) ==
  IF t.socketClosed \/ t.destroyed THEN t
  ELSE IF t.unread >= MaxUnread THEN Destroyed(t)
  ELSE [t EXCEPT !.read = Append(@, n), !.unread = @ + 1]

\* onClose
ClosedByPeer(t, frame) ==
  [SocketClosed(t) EXCEPT !.destroyed = @ \/ ~frame.clean, !.targetClosed = frame.target]

Receive(r) ==
  LET t    == [tunnel[r] EXCEPT !.down = Tail(@)]
      head == Head(tunnel[r].down)
  IN  /\ Follows(r) /\ tunnel[r].down # <<>>
      /\ Becomes(r, IF head.kind = "data" THEN Pushed(t, head.n) ELSE ClosedByPeer(t, head))
      /\ UNCHANGED vars

\* The SSH client takes what was pushed.
Read(r) ==
  /\ Follows(r) /\ tunnel[r].unread > 0
  /\ Becomes(r, [tunnel[r] EXCEPT !.unread = 0])
  /\ UNCHANGED vars

\* The link breaks, and the Worker hears of it: onError, onClose with 1006.
Break(r) ==
  /\ Follows(r) /\ tunnel[r].link = "up"
  /\ Becomes(r, [tunnel[r] EXCEPT !.link = "broken", !.up = <<>>, !.down = <<>>])
  /\ UNCHANGED vars

HearBreak(r) ==
  /\ Follows(r) /\ tunnel[r].link = "broken" /\ ~tunnel[r].socketClosed
  /\ Becomes(r, [SocketClosed(tunnel[r]) EXCEPT !.destroyed = TRUE])
  /\ UNCHANGED vars

-----------------------------------------------------------------------------
(* The Connector's relay.                                                  *)

\* Faulty variant of Finished: the WebSocket is left to the Worker.
FinishedQuietly(t, clean, target) == [t EXCEPT !.buffered = <<>>]

\* finish: the reservation is given back, the socket to the target destroyed.
Finished(t, clean, target) ==
  [t EXCEPT !.ws = IF @ = "open" THEN "closing" ELSE @,
            !.down = IF t.ws = "open" THEN Put(t, @, CloseFrame(clean, target)) ELSE @,
            !.buffered = <<>>]

Finish(r, t, clean, target) == RelayEnds(r) /\ Becomes(r, Finished(t, clean, target))

Start(r) ==
  /\ Relay(r)
  /\ Becomes(r, [Unopened EXCEPT !.link = "up"])

Hears(r, kind) ==
  /\ Follows(r) /\ tunnel[r].ws # "closed" /\ ~tunnel[r].paused
  /\ tunnel[r].up # <<>> /\ Head(tunnel[r].up).kind = kind

\* A frame goes to the target.  The WebSocket is paused when the socket is full,
\* or destroyed: its write returns false.
Message(r) ==
  LET t == tunnel[r]
  IN  /\ Hears(r, "data")
      /\ Becomes(r,
           IF stage[r] = "relaying"
             THEN [t EXCEPT !.up = Tail(@), !.buffered = Append(@, Head(t.up).n),
                            !.paused = Len(t.buffered) + 1 >= HighWater]
             ELSE [t EXCEPT !.up = Tail(@), !.paused = TRUE])
      /\ UNCHANGED vars

TargetReads(r) ==
  LET t == tunnel[r]
  IN  /\ Follows(r) /\ t.buffered # <<>>
      /\ Becomes(r, [t EXCEPT !.buffered = Tail(@), !.arrived = Append(@, Head(t.buffered))])
      /\ UNCHANGED vars

\* drain
Drain(r) ==
  /\ Follows(r) /\ stage[r] = "relaying"
  /\ tunnel[r].paused /\ tunnel[r].buffered = <<>>
  /\ Becomes(r, [tunnel[r] EXCEPT !.paused = FALSE])
  /\ UNCHANGED vars

\* The target sends; its socket is paused until the frame is flushed, so that
\* the check of bufferedAmount never fails.  Once the WebSocket is closing,
\* chunks are dropped.
TargetSends(r) ==
  LET t == tunnel[r]
  IN  /\ Follows(r) /\ stage[r] = "relaying" /\ ~t.sending /\ t.taken < Chunks
      /\ Becomes(r,
           IF t.ws = "open"
             THEN [t EXCEPT !.taken = @ + 1, !.sending = TRUE,
                            !.down = Put(t, @, Data(t.taken + 1))]
             ELSE [t EXCEPT !.taken = @ + 1])
      /\ UNCHANGED vars

Flushed(r) ==
  /\ Follows(r) /\ tunnel[r].sending
  /\ Becomes(r, [tunnel[r] EXCEPT !.sending = FALSE])
  /\ UNCHANGED vars

\* The target ends its stream: after its last chunk has been read.
TargetEnds(r) ==
  /\ Follows(r) /\ ~tunnel[r].sending
  /\ Finish(r, tunnel[r], TRUE, TRUE)

\* Either socket fails, or a frame cannot be sent.
RelayFails(r) ==
  /\ Follows(r)
  /\ Finish(r, [tunnel[r] EXCEPT !.sending = FALSE], FALSE, FALSE)

\* The idle or the maximum timer fires.
RelayTimesOut(r) ==
  /\ Follows(r)
  /\ Finish(r, tunnel[r], TRUE, FALSE)

\* The WebSocket closes: the Worker's close frame, answered by the library, ...
HearClose(r) ==
  LET t == [tunnel[r] EXCEPT !.up = Tail(@), !.ws = "closed",
              !.down = IF tunnel[r].ws = "open" THEN Put(tunnel[r], @, CloseFrame(TRUE, FALSE))
                                                ELSE @]
  IN  /\ Hears(r, "close")
      /\ IF stage[r] = "relaying" THEN Finish(r, t, TRUE, FALSE)
                                  ELSE Becomes(r, t) /\ UNCHANGED vars

\* ... a broken link, or the library's deadline for an answer to its own.
WsCloses(r) ==
  LET t == [tunnel[r] EXCEPT !.ws = "closed", !.link = "broken", !.up = <<>>, !.down = <<>>]
  IN  /\ Follows(r) /\ tunnel[r].ws # "closed"
      /\ tunnel[r].ws = "closing" \/ tunnel[r].link = "broken"
      /\ IF stage[r] = "relaying" THEN Finish(r, t, TRUE, FALSE)
                                  ELSE Becomes(r, t) /\ UNCHANGED vars

\* close() of the Connector closes the WebSockets of its active relays with 1001.
ShutdownAll ==
  /\ Shutdown
  /\ tunnel' = [r \in DOMAIN tunnel |->
       IF stage[r] = "relaying" /\ tunnel[r].ws = "open"
         THEN [tunnel[r] EXCEPT !.ws = "closing",
                                !.down = Put(tunnel[r], @, CloseFrame(TRUE, FALSE))]
         ELSE tunnel[r]]

-----------------------------------------------------------------------------
TunnelInit == Init /\ \E f \in Followed : tunnel = [r \in f |-> Unopened]

WorkerStep(r) ==
  \/ Write(r) \/ Send(r) \/ WriteFails(r) \/ CloseTransport(r) \/ CloseTimesOut(r)
  \/ Receive(r) \/ Read(r) \/ Break(r) \/ HearBreak(r)

RelayStep(r) ==
  \/ Start(r) \/ Message(r) \/ TargetReads(r) \/ Drain(r) \/ TargetSends(r) \/ Flushed(r)
  \/ TargetEnds(r) \/ RelayFails(r) \/ RelayTimesOut(r) \/ HearClose(r) \/ WsCloses(r)

UpgradeStep(r) ==
  \/ Arrive(r) \/ Unauthorized(r) \/ Replayed(r) \/ Upgrade(r)
  \/ ClientLeaves(r) \/ ClientGone(r) \/ Resolves(r) \/ Deadline(r)
  \/ TcpOpens(r) \/ TcpFails(r) \/ Abandon(r)
  \/ r \notin DOMAIN tunnel /\ (Relay(r) \/ RelayEnds(r))

TunnelNext ==
  \/ \E r \in Requests : UpgradeStep(r) /\ UNCHANGED tunnel
  \/ \E r \in DOMAIN tunnel : WorkerStep(r) \/ RelayStep(r)
  \/ (\E n \in Nonces : Sign(n)) /\ UNCHANGED tunnel
  \/ ShutdownAll
  \/ Tick /\ UNCHANGED tunnel

TunnelSpec == TunnelInit /\ [][TunnelNext]_tunnelVars

(***************************************************************************)
(* Fairness: the deadline's timer and the relay's maximum timer fire, the  *)
(* handler goes on after a dial, and a dial settles (its socket has a      *)
(* timeout); a write and close() of the Worker's side have deadlines, and  *)
(* a WebSocket that is up delivers.  Nothing is assumed of the lookup, the *)
(* target, the client, or who hears of a broken link.                      *)
(***************************************************************************)
TunnelFairness ==
  \A r \in Requests :
    /\ WF_tunnelVars(Deadline(r) /\ UNCHANGED tunnel)
    /\ WF_tunnelVars(r \notin DOMAIN tunnel /\ RelayEnds(r) /\ UNCHANGED tunnel)
    /\ WF_tunnelVars(r \in DOMAIN tunnel /\ RelayTimesOut(r))
    /\ WF_tunnelVars(\/ Abandon(r) /\ UNCHANGED tunnel
                     \/ r \in DOMAIN tunnel /\ Start(r)
                     \/ r \notin DOMAIN tunnel /\ Relay(r) /\ UNCHANGED tunnel)
    /\ WF_tunnelVars((TcpOpens(r) \/ TcpFails(r)) /\ UNCHANGED tunnel)
    /\ WF_tunnelVars(r \in DOMAIN tunnel /\ (Send(r) \/ WriteFails(r)))
    /\ WF_tunnelVars(r \in DOMAIN tunnel /\ CloseTimesOut(r))
    /\ WF_tunnelVars(r \in DOMAIN tunnel /\ Receive(r))

-----------------------------------------------------------------------------
InOrder(s) == \A i \in DOMAIN s : s[i] = i

(***************************************************************************)
(* Neither direction loses a chunk in the middle, repeats or swaps one;    *)
(* what waits for the target stays bounded; and when the Connector says    *)
(* that the target has closed, a Worker that has not closed by itself has  *)
(* everything the target sent: an end of the stream is not a truncation.   *)
(***************************************************************************)
TunnelIsExact ==
  \A r \in DOMAIN tunnel :
    LET t == tunnel[r]
    IN  /\ InOrder(t.arrived) /\ Len(t.arrived) <= t.sent
        /\ InOrder(t.read) /\ Len(t.read) <= t.taken
        /\ Len(t.buffered) <= HighWater
        /\ t.targetClosed /\ ~t.destroyed /\ t.closing = "none" => Len(t.read) = t.taken

\* A write and a close() of the transport settle; a relay that is over ends the
\* Worker's stream unless the link is lost.
TunnelEnds ==
  \A r \in UNION Followed :
    /\ (r \in DOMAIN tunnel /\ tunnel[r].writing) ~> ~(r \in DOMAIN tunnel /\ tunnel[r].writing)
    /\ (r \in DOMAIN tunnel /\ tunnel[r].closing = "pending") ~>
         ~(r \in DOMAIN tunnel /\ tunnel[r].closing = "pending")
    /\ (Follows(r) /\ stage[r] = "over") ~>
         (r \in DOMAIN tunnel /\ (tunnel[r].readableFinished \/ tunnel[r].link = "broken"))

\* Upgrades and tunnels end, and the Connector stops when it is told to.
ConnectionsSettle == ConnectorSettles /\ TunnelEnds
=============================================================================
