---------------------------- MODULE FileTransfer ----------------------------
(***************************************************************************)
(* Reading and writing remote files: the panes of the browser              *)
(* (apps/web/src/components/FileWorkspace.tsx), which share the transfer   *)
(* gate, the session objects (apps/worker/src/durable/ssh-session.ts) and  *)
(* their engines' uploads (apps/worker/src/ssh/ssh2-engine.ts).            *)
(*                                                                         *)
(* Each session has a WebSocket, that is a queue of messages in either     *)
(* direction.  A session object handles one message at a time, so Serve is *)
(* one step: what happens meanwhile only lets the browser see the answers  *)
(* sooner.  Files have Chunks chunks; the messages that change nothing     *)
(* here (file-result of a read, progress of a transfer under way,          *)
(* directory listings) are left out, and so is a second connection of a    *)
(* session.                                                                *)
(***************************************************************************)
EXTENDS TransferGate

CONSTANT Chunks         \* chunks of a file

ASSUME ChunkAssumption == Chunks \in Nat \ {0}

VARIABLES
  gate,         \* the workbench's TransferGate
  want,         \* what the user asked for, until acquireTransfer has settled
  pane,         \* FileWorkspace of each session: its refs
  loop,         \* a write's sending loop: its next chunk and its lease
  channel,      \* the pane has a channel
  up,           \* the session object has the session
  toServer,     \* messages on the way to the session object
  toBrowser,    \* messages on the way to the pane
  uploads,      \* live.uploads: the next offset of an upload, or Unknown
  stream,       \* the engine's upload: its offset, or Unknown
  file,         \* the chunks an upload has written
  saved,        \* history: writes the session object has reported as done
  cut           \* history: downloads that ended before their announced size

browserVars == <<gate, want, pane, loop, channel>>
serverVars == <<up, uploads, stream, file, saved, cut>>
wires == <<toServer, toBrowser>>
vars == <<gate, want, pane, loop, channel, up, toServer, toBrowser,
          uploads, stream, file, saved, cut>>

NotSending == [next |-> Chunks, lease |-> None]
Unknown == Chunks + 1

EmptyPane == [lease |-> None, reading |-> None, writing |-> None,
              download |-> None, received |-> 0]

Message(type, t, n) == [type |-> type, id |-> t, n |-> n]

-----------------------------------------------------------------------------
(* The pane.                                                               *)

\* A promise of the gate has settled: its continuation runs before any event.
Continues(t) ==
  want[t] \in {"read", "write", "empty"} /\ t \in gate.resolved \cup gate.aborted
Settling == \E t \in Transfers : Continues(t)

\* releaseTransfer, after some refs of the pane have been cleared.
GiveBack(s, cleared) ==
  /\ gate' = IF pane[s].lease = None THEN gate ELSE Release(gate, pane[s].lease)
  /\ pane' = [pane EXCEPT ![s] = [cleared EXCEPT !.lease = None]]

\* open() a file, or save() one, of one chunk at least or empty: the pane asks
\* for a lease, also when an earlier request of it is still queued.
Ask(t) ==
  /\ ~Settling
  /\ want[t] = "none"
  /\ \A u \in OfSession(Owner(t)) : u[2] < t[2] => want[u] # "none"
  /\ channel[Owner(t)]
  /\ pane[Owner(t)].lease = None
  /\ \E kind \in {"read", "write", "empty"} : want' = [want EXCEPT ![t] = kind]
  /\ gate' = Acquire(gate, t)
  /\ UNCHANGED <<pane, loop, channel, wires, serverVars>>

\* acquireTransfer returns: the request is sent.
Begin(t) ==
  LET s == Owner(t) IN
  /\ Continues(t)
  /\ t \in gate.resolved \ gate.aborted
  /\ channel[s]
  /\ want' = [want EXCEPT ![t] = "settled"]
  /\ toServer' = [toServer EXCEPT ![s] = Append(@, Message(want[t], t, 0))]
  /\ pane' = [pane EXCEPT ![s].lease = t,
                          ![s].reading = IF want[t] = "read" THEN t ELSE @,
                          ![s].writing = IF want[t] = "read" THEN @ ELSE t]
  /\ UNCHANGED <<gate, loop, channel, toBrowser, serverVars>>

\* It throws, or send() finds the socket closed: the lease is released if there
\* is one, and so is what the pane has.
Fail(t) ==
  LET s == Owner(t)
      own == IF t \in gate.resolved THEN Release(gate, t) ELSE gate
  IN
  /\ Continues(t)
  /\ t \in gate.aborted \/ ~channel[s] \/ ~up[s]
  /\ want' = [want EXCEPT ![t] = "settled"]
  /\ gate' = IF pane[s].lease = None THEN own ELSE Release(own, pane[s].lease)
  /\ pane' = [pane EXCEPT ![s].lease = None]
  /\ UNCHANGED <<loop, channel, wires, serverVars>>

-----------------------------------------------------------------------------
(* The pane's messages.                                                    *)

Arrives(s, type) ==
  /\ ~Settling
  /\ channel[s]
  /\ toBrowser[s] # <<>>
  /\ Head(toBrowser[s]).type = type
  /\ toBrowser' = [toBrowser EXCEPT ![s] = Tail(@)]
  /\ UNCHANGED <<want, channel, toServer, serverVars>>

\* Faulty variant of OnError: an error that names no request ends none.
OnErrorNamed(s) ==
  LET id == Head(toBrowser[s]).id
      mine == id # None /\ id \in {pane[s].reading, pane[s].writing}
  IN
  /\ Arrives(s, "error")
  /\ \/ mine /\ GiveBack(s, EmptyPane)
     \/ ~mine /\ UNCHANGED <<gate, pane>>
  /\ UNCHANGED loop

\* An error ends the transfer it names, or, when it names none, whichever the
\* pane has: an unset ref equals a missing request id.
OnError(s) ==
  LET id == Head(toBrowser[s]).id IN
  /\ Arrives(s, "error")
  /\ \/ /\ id \in {pane[s].reading, pane[s].writing}
        /\ GiveBack(s, EmptyPane)
     \/ /\ id \notin {pane[s].reading, pane[s].writing}
        /\ UNCHANGED <<gate, pane>>
  /\ UNCHANGED loop

\* transfer-progress "completed" of an upload, whichever upload it is.
OnUploaded(s) ==
  /\ Arrives(s, "uploaded")
  /\ GiveBack(s, [pane[s] EXCEPT !.writing = None])
  /\ UNCHANGED loop

\* file-result of a write.
OnWritten(s) ==
  /\ Arrives(s, "written")
  /\ \/ /\ pane[s].writing = Head(toBrowser[s]).id
        /\ GiveBack(s, [pane[s] EXCEPT !.writing = None])
     \/ /\ pane[s].writing # Head(toBrowser[s]).id
        /\ UNCHANGED <<gate, pane>>
  /\ UNCHANGED loop

\* transfer-ready of a download; an empty file is complete at once.
OnReadyToRead(s) ==
  LET m == Head(toBrowser[s]) IN
  /\ Arrives(s, "sending")
  /\ \/ /\ pane[s].reading = m.id /\ m.n > 0
        /\ pane' = [pane EXCEPT ![s].download = m.id, ![s].received = 0]
        /\ UNCHANGED gate
     \/ /\ pane[s].reading = m.id /\ m.n = 0
        /\ GiveBack(s, [pane[s] EXCEPT !.reading = None, !.download = None, !.received = 0])
     \/ /\ pane[s].reading # m.id
        /\ UNCHANGED <<gate, pane>>
  /\ UNCHANGED loop

\* A chunk of the download the pane expects; the last one completes it.
OnChunk(s) ==
  LET m == Head(toBrowser[s])
      expected == pane[s].download = m.id /\ pane[s].received = m.n
  IN
  /\ Arrives(s, "chunk")
  /\ \/ /\ expected /\ m.n + 1 < Chunks
        /\ pane' = [pane EXCEPT ![s].received = @ + 1]
        /\ UNCHANGED gate
     \/ /\ expected /\ m.n + 1 = Chunks
        /\ GiveBack(s, [pane[s] EXCEPT !.reading = None, !.download = None, !.received = 0])
     \/ ~expected /\ UNCHANGED <<gate, pane>>
  /\ UNCHANGED loop

\* transfer-ready of an upload: the sending loop starts, if there are chunks and
\* the pane's lease is good.
OnReadyToWrite(s) ==
  LET m == Head(toBrowser[s]) IN
  /\ Arrives(s, "receiving")
  /\ \/ /\ pane[s].writing = m.id /\ pane[s].lease \notin gate.aborted \cup {None}
        /\ loop' = IF m.n = 0 THEN loop
                   ELSE [loop EXCEPT ![m.id] = [next |-> 0, lease |-> pane[s].lease]]
        /\ UNCHANGED <<gate, pane>>
     \/ /\ pane[s].writing = m.id /\ pane[s].lease \in gate.aborted \cup {None}
        /\ GiveBack(s, [pane[s] EXCEPT !.writing = None])
        /\ UNCHANGED loop
     \/ /\ pane[s].writing # m.id
        /\ UNCHANGED <<gate, pane, loop>>

OnMessage(s) ==
  \/ OnError(s) \/ OnUploaded(s) \/ OnWritten(s)
  \/ OnReadyToRead(s) \/ OnChunk(s) \/ OnReadyToWrite(s)

Sending(t) == loop[t] # NotSending

\* The sending loop: it looks at its lease's signal only, and the pane may have
\* given the transfer up meanwhile.
SendChunk(t) ==
  LET n == loop[t].next IN
  /\ ~Settling
  /\ Sending(t)
  /\ loop[t].lease \notin gate.aborted /\ channel[Owner(t)]
  /\ toServer' = [toServer EXCEPT ![Owner(t)] = Append(@, Message("chunk", t, n))]
  /\ loop' = [loop EXCEPT ![t] = IF n + 1 = Chunks THEN NotSending
                                 ELSE [@ EXCEPT !.next = n + 1]]
  /\ UNCHANGED <<gate, want, pane, channel, toBrowser, serverVars>>

\* The loop finds its lease aborted or the socket closed: catch.
SendFails(t) ==
  /\ ~Settling
  /\ Sending(t)
  /\ loop[t].lease \in gate.aborted \/ ~channel[Owner(t)] \/ ~up[Owner(t)]
  /\ loop' = [loop EXCEPT ![t] = NotSending]
  /\ GiveBack(Owner(t), [pane[Owner(t)] EXCEPT !.writing = None])
  /\ UNCHANGED <<want, channel, wires, serverVars>>

-----------------------------------------------------------------------------
(* The session object.                                                     *)

Answer(s, messages) ==
  /\ toServer' = [toServer EXCEPT ![s] = Tail(@)]
  /\ toBrowser' = [toBrowser EXCEPT ![s] = IF channel[s] THEN @ \o messages ELSE @]

Handles(s, type) ==
  /\ up[s]
  /\ toServer[s] # <<>>
  /\ Head(toServer[s]).type = type
  /\ UNCHANGED <<up, browserVars>>

DownloadChunks(t, k) == [i \in 1..k |-> Message("chunk", t, i - 1)]

\* sftp-read: stat, then startDownload.  It fails before or during the download,
\* the file is empty or has grown too large, or it ends before its size.
ServeRead(s) ==
  LET t == Head(toServer[s]).id IN
  /\ Handles(s, "read")
  /\ \/ Answer(s, <<Message("error", t, 0)>>) /\ UNCHANGED cut
     \/ Answer(s, <<Message("sending", t, 0)>>) /\ UNCHANGED cut
     \/ \E k \in 0..Chunks :
          \/ /\ Answer(s, <<Message("sending", t, Chunks)>> \o DownloadChunks(t, k)
                            \o <<Message("error", t, 0)>>)
             /\ UNCHANGED cut
          \/ /\ Answer(s, <<Message("sending", t, Chunks)>> \o DownloadChunks(t, k))
             /\ cut' = IF k < Chunks THEN cut \cup {t} ELSE cut
  /\ UNCHANGED <<uploads, stream, file, saved>>

\* sftp-write: the version is checked, then startUpload.
ServeWrite(s) ==
  LET t == Head(toServer[s]).id IN
  /\ Handles(s, "write")
  /\ \/ Answer(s, <<Message("error", t, 0)>>) /\ UNCHANGED uploads
     \/ /\ uploads' = [uploads EXCEPT ![t] = 0]
        /\ Answer(s, <<Message("receiving", t, Chunks)>>)
  /\ UNCHANGED <<stream, file, saved, cut>>

Done(t) == <<Message("written", t, 0), Message("uploaded", t, 0)>>

\* A write of no bytes is done, or fails, in startUpload.
ServeEmptyWrite(s) ==
  LET t == Head(toServer[s]).id IN
  /\ Handles(s, "empty")
  /\ \/ /\ Answer(s, <<Message("error", t, 0)>>)
        /\ UNCHANGED uploads
     \/ /\ Answer(s, <<Message("receiving", t, 0)>> \o Done(t))
        /\ UNCHANGED uploads
     \/ /\ Answer(s, <<Message("receiving", t, 0), Message("error", t, 0)>>)
        /\ uploads' = [uploads EXCEPT ![t] = 0]
  /\ UNCHANGED <<stream, file, saved, cut>>

\* The frame names an upload of the session, at its offset.
Accepts(t, n) == uploads[t] # Unknown /\ uploads[t] = n

\* Faulty variant of Writes: a missing stream is opened again, at any offset.
WritesReopening(t, n, done) ==
  /\ file' = [file EXCEPT ![t] = IF stream[t] = Unknown THEN <<n>> ELSE Append(@, n)]
  /\ stream' = [stream EXCEPT ![t] = IF done THEN Unknown ELSE uploads[t] + 1]

\* SSH2Engine.upload: offset 0 opens the file, any other offset must be the
\* stream's own.
Writes(t, n, done) ==
  LET at == uploads[t] IN
  /\ at = 0 \/ stream[t] = at
  /\ file' = [file EXCEPT ![t] = IF at = 0 THEN <<n>> ELSE Append(@, n)]
  /\ stream' = [stream EXCEPT ![t] = IF done THEN Unknown ELSE at + 1]

\* A chunk is written, refused, or fails in the engine.  Its errors have no
\* request id, and the session keeps the entry of an upload that failed.
ServeChunk(s) ==
  LET t == Head(toServer[s]).id
      n == Head(toServer[s]).n
      done == uploads[t] + 1 = Chunks
  IN
  /\ Handles(s, "chunk")
  /\ \/ /\ Accepts(t, n)
        /\ Writes(t, n, done)
        /\ uploads' = [uploads EXCEPT ![t] = IF done THEN Unknown ELSE @ + 1]
        /\ saved' = IF done THEN saved \cup {t} ELSE saved
        /\ Answer(s, IF done THEN Done(t) ELSE <<>>)
     \/ /\ Accepts(t, n)
        /\ stream' = [stream EXCEPT ![t] = Unknown]
        /\ Answer(s, <<Message("error", None, 0)>>)
        /\ UNCHANGED <<uploads, file, saved>>
     \/ /\ ~Accepts(t, n)
        /\ Answer(s, <<Message("error", None, 0)>>)
        /\ UNCHANGED <<uploads, stream, file, saved>>
  /\ UNCHANGED cut

Serve(s) == ServeRead(s) \/ ServeWrite(s) \/ ServeEmptyWrite(s) \/ ServeChunk(s)

\* The SFTP stream of an upload fails between two chunks.
StreamFails(t) ==
  /\ up[Owner(t)]
  /\ stream[t] # Unknown
  /\ stream' = [stream EXCEPT ![t] = Unknown]
  /\ UNCHANGED <<browserVars, wires, up, uploads, file, saved, cut>>

-----------------------------------------------------------------------------
(* Sessions end.                                                           *)

\* The session object ends the session: cleanup() and SSH2Engine.close().
SessionEnds(s) ==
  LET forgotten(offsets) ==
        [t \in Transfers |-> IF Owner(t) = s THEN Unknown ELSE offsets[t]]
  IN
  /\ up[s]
  /\ up' = [up EXCEPT ![s] = FALSE]
  /\ uploads' = forgotten(uploads)
  /\ stream' = forgotten(stream)
  /\ toServer' = [toServer EXCEPT ![s] = <<>>]
  /\ UNCHANGED <<browserVars, toBrowser, file, saved, cut>>

\* The pane loses its channel.
ChannelLost(s) ==
  /\ ~Settling
  /\ channel[s] /\ ~up[s]
  /\ channel' = [channel EXCEPT ![s] = FALSE]
  /\ pane' = [pane EXCEPT ![s] = EmptyPane]
  /\ gate' = Cancel(gate, OfSession(s))
  /\ toBrowser' = [toBrowser EXCEPT ![s] = <<>>]
  /\ UNCHANGED <<want, loop, toServer, serverVars>>

\* The user closes a session, or all: the gate hears of it first, the pane when
\* the session object has answered the disconnect (SessionEnds).
CloseSessions ==
  /\ ~Settling
  /\ \E ts \in {OfSession(s) : s \in Sessions} \cup {Transfers} :
       gate' = Cancel(gate, ts)
  /\ UNCHANGED <<want, pane, loop, channel, wires, serverVars>>

Init ==
  /\ gate = EmptyGate
  /\ want = [t \in Transfers |-> "none"]
  /\ pane = [s \in Sessions |-> EmptyPane]
  /\ loop = [t \in Transfers |-> NotSending]
  /\ channel = [s \in Sessions |-> TRUE]
  /\ up = [s \in Sessions |-> TRUE]
  /\ toServer = [s \in Sessions |-> <<>>]
  /\ toBrowser = [s \in Sessions |-> <<>>]
  /\ uploads = [t \in Transfers |-> Unknown]
  /\ stream = [t \in Transfers |-> Unknown]
  /\ file = [t \in Transfers |-> <<>>]
  /\ saved = {} /\ cut = {}

Next ==
  \/ \E t \in Transfers :
       Ask(t) \/ Begin(t) \/ Fail(t) \/ SendChunk(t) \/ SendFails(t) \/ StreamFails(t)
  \/ \E s \in Sessions : OnMessage(s) \/ Serve(s) \/ SessionEnds(s) \/ ChannelLost(s)
  \/ CloseSessions

Spec == Init /\ [][Next]_vars

(***************************************************************************)
(* Fairness: promises continue, messages are delivered and handled, a      *)
(* closed socket is noticed.  Users need not ask for or close anything.    *)
(***************************************************************************)
Fairness ==
  /\ \A t \in Transfers :
       WF_vars(Begin(t) \/ Fail(t)) /\ WF_vars(SendChunk(t) \/ SendFails(t))
  /\ \A s \in Sessions :
       WF_vars(OnMessage(s)) /\ WF_vars(Serve(s)) /\ WF_vars(ChannelLost(s))

FairSpec == Spec /\ Fairness
-----------------------------------------------------------------------------
(* Properties.                                                             *)

\* The state has its shape: whoever holds the gate was given a lease, a lease
\* is released only after it was given, an upload's offset is one of its file.
TypeOK ==
  /\ gate.active \in gate.resolved \cup {None}
  /\ gate.released \subseteq gate.resolved
  /\ gate.resolved \cup gate.aborted \cup Queued(gate) \subseteq Transfers
  /\ want \in [Transfers -> {"none", "read", "write", "empty", "settled"}]
  /\ \A s \in Sessions :
       {pane[s].lease, pane[s].reading, pane[s].writing, pane[s].download}
         \subseteq OfSession(s) \cup {None}
  /\ \A t \in Transfers : Sending(t) => loop[t].next < Chunks
  /\ uploads \in [Transfers -> 0..Unknown]
  /\ stream \in [Transfers -> 0..Unknown]
  /\ saved \cup cut \subseteq Transfers

\* Nobody who waits for the gate is forgotten: a transfer whose promise has not
\* settled stands in the queue once, and it stands there only because another
\* one has the gate (transfer-gate.ts, acquire, cancelSession and drain).
NobodyIsForgotten ==
  /\ \A t \in Transfers :
       want[t] \in {"read", "write", "empty"} /\ t \notin gate.resolved \cup gate.aborted
         => \E i \in DOMAIN gate.queue :
              gate.queue[i] = t /\ \A j \in DOMAIN gate.queue : gate.queue[j] = t => i = j
  /\ gate.queue # <<>> => gate.active # None

\* A transfer loses the gate only by its own lease's release or by the end of
\* its session, never by the late release of an aborted one (transfer-gate.ts,
\* release).
ReleaseIsOwn ==
  [][\A t \in Transfers :
       gate.active = t /\ gate'.active # t
         => t \in (gate'.released \ gate.released) \cup gate'.aborted]_vars

\* A write that the session object reports as done has every chunk of the file
\* once and in order, whatever failed or was given up before (ssh-session.ts,
\* handleBinaryFrame; ssh2-engine.ts, upload).
WriteIsWhole ==
  \A t \in saved : file[t] = [i \in 1..Chunks |-> i - 1]

\* Whoever holds the gate gives it back, so the other sessions' transfers get
\* their turn, as long as no download of the session stops short of the size it
\* announced: the pane would wait for the rest until the session ends.
LeaseReturned ==
  \A t \in Transfers :
    gate.active = t ~> gate.active # t \/ cut \cap OfSession(Owner(t)) # {}

\* README.md: transfers are globally serialized.  A transfer moves data while
\* its sending loop runs or while its pane receives a download, and one whose
\* session was closed does not count.
Moving(t) == t \notin gate.aborted /\ (Sending(t) \/ pane[Owner(t)].download = t)
OneTransferAtATime ==
  \A t, u \in Transfers : Moving(t) /\ Moving(u) => t = u
=============================================================================
