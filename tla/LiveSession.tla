----------------------------- MODULE LiveSession -----------------------------
(***************************************************************************)
(* A session that is connected, at work: the messages of the browser,      *)
(* which the session object handles one at a time (ssh-session.ts:183),    *)
(* the file pane (FileWorkspace.tsx) with its listings page by page and    *)
(* its changes, the shell history of the history panel, the collection of  *)
(* metrics, and the capture of commands from what is typed and shown.      *)
(*                                                                         *)
(* Messages of one WebSocket keep their order, each way.  A directory has  *)
(* entries, as numbers in the order of the listing; the one that is a      *)
(* directory itself is named by its number in Paths.                       *)
(***************************************************************************)
EXTENDS CommandCapture, FiniteSets, FiniteSetsExt

CONSTANTS Ids,          \* request ids (random UUIDs; one that nobody holds may be used again)
          NoId,
          Home,         \* the path a pane starts with, "."
          Paths,        \* the other directories, numbers: entries of Home
          Files,        \* numbers of the other entries
          PageLimit,    \* entries of a page (500, or 48 KiB)
          Chunks, Texts, \* bounds: what the user may type, and a program print, at once
          Uses,         \* bound: which of its parts a session uses, a set of sets
          MaxClicks,    \* bound: clicks in the pane, the panel and the workbench
          MaxTyped, MaxPrinted \* bounds of the terminal

ASSUME LiveSessionAssumption ==
  /\ Paths \cup Files \cup {PageLimit, MaxClicks, MaxTyped, MaxPrinted} \subseteq Nat
  /\ PageLimit > 0 /\ Home \notin Paths /\ NoId \notin Ids
  /\ IsFiniteSet(Paths \cup Files)
  /\ \A text \in Chunks \cup Texts : text \in Seq(ToSet(text))
  /\ IsFiniteSet(Ids) => Cardinality(Ids) > 1 + MaxClicks + MaxTyped  \* never used up

VARIABLES live,       \* the socket's entry in sessions, its engine ready
          inbox,      \* messages to the session object, not handled yet
          serving,    \* the message that waits for the SSH server
          outbox,     \* answers on their way to the browser
          sftp,       \* the SFTP channel is open
          dirs,       \* the directories of the server
          pane,       \* the file pane
          bash,       \* the request whose shell history the panel waits for
          metrics,    \* timer, inFlight, on (LiveSession); execs: commands that run
          capture,    \* TerminalCommandCapture
          tty,        \* the terminal of the server
          screen,     \* all it has shown
          recorded,   \* what was given to audit.command, with where it was found
          uses, clicks, typed, printed \* the bounds

wire  == <<inbox, serving, outbox>>
files == <<sftp, dirs, pane>>
terminal == <<capture, tty, screen, recorded, typed, printed>>
workVars == <<live, wire, files, bash, metrics, terminal, uses, clicks>>

\* What has been asked and not heard, the oldest first.
Line == outbox \o serving \o inbox

Quiet == inbox = <<>> /\ outbox = <<>> /\ serving = <<>>

UsedIds == {m.id : m \in ToSet(Line)} \cup DOMAIN pane.requests \cup {bash}
FreshId == CHOOSE id \in Ids \ UsedIds : TRUE

Send(m) == inbox' = Append(inbox, m)
Reply(m) == outbox' = Append(outbox, m)

ListMessage(id, path, cursor) == [type |-> "list", id |-> id, path |-> path, cursor |-> cursor]

-----------------------------------------------------------------------------
(* The browser.  A click and the effects of the render it causes are a step. *)

Click(use) == live /\ pane.open /\ use \in uses /\ clicks < MaxClicks /\ clicks' = clicks + 1

NewPane == [open |-> TRUE, path |-> Home, shown |-> <<>>, requests |-> <<>>, failed |-> FALSE]
ClosedPane == [NewPane EXCEPT !.open = FALSE]

\* The requests with one more, and with one less.
With(requests, id, append) ==
  [r \in DOMAIN requests \cup {id} |-> IF r = id THEN append ELSE requests[r]]
Except(requests, id) == [r \in DOMAIN requests \ {id} |-> requests[r]]

\* requestDirectory: cursor 0 is the first page; later ones are appended.
\* Faulty variant: every page replaces what is shown.
RequestPageToReplace(p, cursor) ==
  /\ Send(ListMessage(FreshId, p.path, cursor))
  /\ pane' = [p EXCEPT !.requests = With(@, FreshId, FALSE)]

RequestPage(p, cursor) ==
  /\ Send(ListMessage(FreshId, p.path, cursor))
  /\ pane' = [p EXCEPT !.requests = With(@, FreshId, cursor > 0)]

\* refresh; failed tells whether the status line has shown a failure since.
Refresh(path) == RequestPage([pane EXCEPT !.path = path, !.requests = <<>>, !.failed = FALSE], 0)

ClickRefresh ==
  /\ Click("files") /\ Refresh(pane.path)
  /\ UNCHANGED <<live, serving, outbox, sftp, dirs, bash, metrics, terminal, uses>>

\* A directory that is shown, or the one above.
ClickDirectory ==
  /\ Click("files")
  /\ \E path \in (Paths \cap ToSet(pane.shown)) \cup {Home} :
       path # pane.path /\ Refresh(path)
  /\ UNCHANGED <<live, serving, outbox, sftp, dirs, bash, metrics, terminal, uses>>

\* createFolder, deleteEntry
ClickChange ==
  /\ Click("files")
  /\ \E type \in {"mkdir", "delete"}, name \in Files :
       /\ type = "delete" => name \in ToSet(pane.shown)
       /\ Send([type |-> type, id |-> FreshId, path |-> pane.path, name |-> name])
  /\ UNCHANGED <<live, serving, outbox, files, bash, metrics, terminal, uses>>

LoadBash ==
  /\ Click("bash") /\ bash = NoId
  /\ Send([type |-> "shell-history", id |-> FreshId]) /\ bash' = FreshId
  /\ UNCHANGED <<live, serving, outbox, files, metrics, terminal, uses>>

SendActivity ==
  /\ Click("metrics")
  /\ \E on \in BOOLEAN : Send([type |-> "activity", id |-> FreshId, on |-> on])
  /\ UNCHANGED <<live, serving, outbox, files, bash, metrics, terminal, uses>>

\* The tab shows "disconnecting" at once, and the panes lose the channel.
ClickDisconnect ==
  /\ Click("disconnect")
  /\ Send([type |-> "disconnect", id |-> FreshId])
  /\ pane' = ClosedPane /\ bash' = NoId
  /\ UNCHANGED <<live, serving, outbox, sftp, dirs, metrics, terminal, uses>>

Type ==
  /\ live /\ "terminal" \in uses /\ typed < MaxTyped /\ typed' = typed + 1
  /\ \E chunk \in Chunks : Send([type |-> "input", id |-> FreshId, data |-> chunk])
  /\ UNCHANGED <<live, serving, outbox, files, bash, metrics, capture, tty, screen, recorded,
                 printed, uses, clicks>>

\* A page arrives: one nobody waits for any more replaces what is shown.  Either
\* way the next page is asked for.
OnListed(m) ==
  LET append == m.id \in DOMAIN pane.requests /\ pane.requests[m.id]
      p == [pane EXCEPT !.shown = IF append THEN @ \o m.names ELSE m.names,
                        !.requests = Except(@, m.id)]
  IN  IF m.next > 0 THEN RequestPage(p, m.next) ELSE pane' = p /\ UNCHANGED inbox

OnChanged(m) == Refresh(pane.path)

OnError(m) ==
  /\ pane' = IF m.id \in DOMAIN pane.requests
               THEN [pane EXCEPT !.requests = Except(@, m.id),
                                 !.failed = TRUE]
               ELSE pane
  /\ UNCHANGED inbox

Deliver ==
  /\ outbox # <<>>
  /\ LET m == Head(outbox)
     IN  /\ outbox' = Tail(outbox)
         /\ bash' = IF m.type \in {"shell-history-result", "error"} /\ m.id = bash THEN NoId ELSE bash
         /\ CASE ~pane.open -> UNCHANGED <<pane, inbox>>
              [] pane.open /\ m.type = "listed"  -> OnListed(m)
              [] pane.open /\ m.type = "changed" -> OnChanged(m)
              [] pane.open /\ m.type = "error"   -> OnError(m)
              [] OTHER              -> UNCHANGED <<pane, inbox>>
  /\ UNCHANGED <<live, serving, sftp, dirs, metrics, terminal, uses, clicks>>

-----------------------------------------------------------------------------
(* The session object handles the next message when the one before is done. *)

\* scheduleMetrics: a timer if metrics are wanted, unless one collection runs.
Schedule(m) == [m EXCEPT !.timer = m.on /\ ~m.inFlight]

Takes(type) == inbox # <<>> /\ Head(inbox).type = type /\ serving = <<>> /\ inbox' = Tail(inbox)

HandleInput ==
  /\ Takes("input")
  /\ capture' = Feed(capture, Head(inbox).data)
  /\ tty' = [tty EXCEPT !.keys = @ \o Head(inbox).data]
  /\ UNCHANGED <<live, serving, outbox, files, bash, metrics, screen, recorded, typed, printed,
                 uses, clicks>>

HandleActivity ==
  /\ Takes("activity")
  /\ metrics' = Schedule([metrics EXCEPT !.on = Head(inbox).on])
  /\ UNCHANGED <<live, serving, outbox, files, bash, terminal, uses, clicks>>

\* Listings, changes and the shell history wait for the server.
Begin ==
  /\ \E type \in {"list", "mkdir", "delete", "shell-history"} : Takes(type)
  /\ serving' = <<Head(inbox)>>
  /\ UNCHANGED <<live, outbox, files, bash, metrics, terminal, uses, clicks>>

Served(answer) == serving' = <<>> /\ Reply(answer)

ErrorTo(m) == [type |-> "error", id |-> m.id]

\* The SFTP subsystem opens with the first message that needs it, or does not.
OpenSftp ==
  /\ serving # <<>> /\ serving[1].type # "shell-history" /\ ~sftp
  /\ \/ sftp' = TRUE /\ UNCHANGED <<serving, outbox>>
     \/ sftp' = FALSE /\ Served(ErrorTo(serving[1]))
  /\ UNCHANGED <<live, inbox, dirs, pane, bash, metrics, terminal, uses, clicks>>

\* readdir, in the order of the names.
Sorted(S) ==
  CHOOSE s \in [1 .. Cardinality(S) -> S] : \A i, j \in DOMAIN s : i < j => s[i] < s[j]

\* The page of a listing, read anew each time; a cursor past the end is refused.
Listing(m) ==
  LET all == Sorted(dirs[m.path])
      end == Min({m.cursor + PageLimit, Len(all)})
  IN  IF m.cursor > Len(all) THEN ErrorTo(m)
      ELSE [type |-> "listed", id |-> m.id, names |-> SubSeq(all, m.cursor + 1, end),
            next |-> IF end < Len(all) THEN end ELSE 0]

ServeList ==
  /\ serving # <<>> /\ serving[1].type = "list" /\ sftp
  /\ Served(Listing(serving[1]))
  /\ UNCHANGED <<live, inbox, files, bash, metrics, terminal, uses, clicks>>

\* mkdir of what exists and deletion of what does not fail.
ServeChange ==
  /\ serving # <<>> /\ serving[1].type \in {"mkdir", "delete"} /\ sftp
  /\ LET m  == serving[1]
         ok == (m.type = "mkdir") = (m.name \notin dirs[m.path])
     IN  /\ Served(IF ok THEN [type |-> "changed", id |-> m.id] ELSE ErrorTo(m))
         /\ dirs' = IF ~ok THEN dirs
                    ELSE [dirs EXCEPT ![m.path] = IF m.type = "mkdir" THEN @ \cup {m.name}
                                                  ELSE @ \ {m.name}]
  /\ UNCHANGED <<live, inbox, sftp, pane, bash, metrics, terminal, uses, clicks>>

\* Faulty variant of ServeBash: a failure does not name the request.
ServeBashUnnamed ==
  /\ serving # <<>> /\ serving[1].type = "shell-history"
  /\ \/ Served([type |-> "shell-history-result", id |-> serving[1].id])
     \/ Served([type |-> "error", id |-> NoId])
  /\ UNCHANGED <<live, inbox, files, bash, metrics, terminal, uses, clicks>>

ServeBash ==
  /\ serving # <<>> /\ serving[1].type = "shell-history"
  /\ \/ Served([type |-> "shell-history-result", id |-> serving[1].id])
     \/ Served(ErrorTo(serving[1]))
  /\ UNCHANGED <<live, inbox, files, bash, metrics, terminal, uses, clicks>>

\* The server closes the SFTP channel; what waits for it fails.
SftpEnds ==
  /\ sftp /\ clicks < MaxClicks /\ clicks' = clicks + 1
  /\ sftp' = FALSE
  /\ IF serving # <<>> /\ serving[1].type # "shell-history" THEN Served(ErrorTo(serving[1]))
     ELSE UNCHANGED <<serving, outbox>>
  /\ UNCHANGED <<live, inbox, dirs, pane, bash, metrics, terminal, uses>>

-----------------------------------------------------------------------------
(* Metrics: a command each time the timer fires, never two at once.         *)

Collect ==
  /\ metrics.timer
  /\ metrics' = IF live /\ ~metrics.inFlight
                  THEN [metrics EXCEPT !.timer = FALSE, !.inFlight = TRUE, !.execs = @ + 1]
                  ELSE [metrics EXCEPT !.timer = FALSE]
  /\ UNCHANGED <<live, wire, files, bash, terminal, uses, clicks>>

\* Faulty variant of Collected: the next one is due after a success only.
CollectedOnce ==
  /\ metrics.execs > 0
  /\ \E ok \in BOOLEAN :
       LET over == [metrics EXCEPT !.inFlight = FALSE, !.execs = @ - 1]
       IN  metrics' = IF live /\ ok THEN Schedule(over) ELSE over
  /\ UNCHANGED <<live, wire, files, bash, terminal, uses, clicks>>

\* The command ends, in whatever way.
Collected ==
  /\ metrics.execs > 0
  /\ LET over == [metrics EXCEPT !.inFlight = FALSE, !.execs = @ - 1]
     IN  metrics' = IF live THEN Schedule(over) ELSE over
  /\ UNCHANGED <<live, wire, files, bash, terminal, uses, clicks>>

-----------------------------------------------------------------------------
(* The terminal.  Keys are echoed unless a program has turned echo off; a    *)
(* newline always shows, and with it the echo may go on or off.             *)

TtyReads ==
  /\ tty.keys # <<>>
  /\ LET k == Head(tty.keys)
     IN  \E echo \in IF k \in {Newline, Interrupt} THEN BOOLEAN ELSE {tty.echo} :
           tty' = [keys |-> Tail(tty.keys), echo |-> echo,
                   out |-> IF k = Newline \/ tty.echo THEN Append(tty.out, k) ELSE tty.out]
  /\ UNCHANGED <<live, wire, files, bash, metrics, capture, screen, recorded, typed, printed,
                 uses, clicks>>

\* A program prints a text.
TtyPrints ==
  /\ live /\ "terminal" \in uses /\ printed < MaxPrinted /\ printed' = printed + 1
  /\ \E text \in Texts : tty' = [tty EXCEPT !.out = @ \o text]
  /\ UNCHANGED <<live, wire, files, bash, metrics, capture, screen, recorded, typed, uses, clicks>>

\* An output event of the engine.
Show ==
  /\ live
  /\ \E n \in 1 .. Len(tty.out) :
       LET text == SubSeq(tty.out, 1, n)
           seen == Observed(capture, text)
       IN  /\ tty' = [tty EXCEPT !.out = SubSeq(@, n + 1, Len(@))]
           /\ screen' = screen \o text
           /\ capture' = seen.capture
           /\ recorded' = recorded \o seen.confirmed
  /\ UNCHANGED <<live, wire, files, bash, metrics, typed, printed, uses, clicks>>

\* CANDIDATE_TTL_MS pass.
TimePasses ==
  /\ capture' = Aged(capture) /\ capture' # capture
  /\ UNCHANGED <<live, wire, files, bash, metrics, tty, screen, recorded, typed, printed, uses,
                 clicks>>

-----------------------------------------------------------------------------
(* The end: cleanup, and the engine and the socket are closed.  (SshSession  *)
(* has the steps of this; here they are one.)                               *)

Ended ==
  /\ live' = FALSE /\ inbox' = <<>> /\ serving' = <<>> /\ outbox' = <<>>
  /\ sftp' = FALSE /\ pane' = ClosedPane /\ bash' = NoId
  /\ metrics' = [metrics EXCEPT !.timer = FALSE, !.inFlight = FALSE]
  /\ capture' = Reset(capture) /\ tty' = [tty EXCEPT !.keys = <<>>, !.out = <<>>]
  /\ UNCHANGED <<dirs, screen, recorded, typed, printed, uses>>

HandleDisconnect ==
  /\ inbox # <<>> /\ Head(inbox).type = "disconnect" /\ serving = <<>>
  /\ Ended /\ UNCHANGED clicks

\* The socket or the connection goes, whatever is being handled.
Lose == live /\ clicks < MaxClicks /\ clicks' = clicks + 1 /\ Ended

-----------------------------------------------------------------------------
\* What the server may hold at first.
Trees == {d \in [{Home} \cup Paths -> SUBSET (Files \cup Paths)] :
            Paths \subseteq d[Home] /\ \A p \in Paths : d[p] \subseteq Files}

\* The pane asks for its directory as soon as the session is connected; a session
\* that does not use it here has it already.  Monitoring may be off.
WorkInit ==
  /\ uses \in Uses
  /\ live = TRUE /\ serving = <<>> /\ outbox = <<>> /\ sftp = FALSE
  /\ LET first == CHOOSE id \in Ids : TRUE
     IN  IF "files" \in uses
           THEN /\ dirs \in Trees
                /\ pane = [NewPane EXCEPT !.requests = With(@, first, FALSE)]
                /\ inbox = <<ListMessage(first, Home, 0)>>
           ELSE /\ dirs = [p \in {Home} \cup Paths |-> IF p = Home THEN Paths ELSE {}]
                /\ pane = [NewPane EXCEPT !.shown = Sorted(Paths)]
                /\ inbox = <<>>
  /\ bash = NoId
  /\ LET on == "metrics" \in uses
     IN  metrics = [timer |-> on, inFlight |-> FALSE, on |-> on, execs |-> 0]
  /\ capture = EmptyCapture
  /\ tty = [keys |-> <<>>, echo |-> TRUE, out |-> <<>>]
  /\ screen = <<>> /\ recorded = <<>>
  /\ clicks = 0 /\ typed = 0 /\ printed = 0

Handle == HandleInput \/ HandleActivity \/ HandleDisconnect \/ Begin
Serve  == OpenSftp \/ ServeList \/ ServeChange \/ ServeBash

WorkNext ==
  \/ ClickRefresh \/ ClickDirectory \/ ClickChange \/ LoadBash
  \/ SendActivity \/ ClickDisconnect \/ Type
  \/ Deliver \/ Handle \/ Serve \/ SftpEnds
  \/ Collect \/ Collected
  \/ TtyReads \/ TtyPrints \/ Show \/ TimePasses
  \/ Lose

\* The object runs its handlers, its timers fire and the messages arrive.  Serve
\* and Collected are assumptions about the SSH server: it answers or fails, since
\* the engine sets no deadline for a request.
Fairness ==
  WF_workVars(Handle) /\ WF_workVars(Serve) /\ WF_workVars(Deliver) /\ WF_workVars(Collect) /\ WF_workVars(Collected)

WorkSpec == WorkInit /\ [][WorkNext]_workVars /\ Fairness

-----------------------------------------------------------------------------
(* What a session at work promises.                                         *)

\* When nothing is on its way, the pane shows the entries of its directory,
\* all of them and no others, unless a listing failed since it was asked for:
\* however pages, changes and moves to other directories overlapped.
PaneIsTruthful ==
  pane.open /\ Quiet /\ ~pane.failed => ToSet(pane.shown) = dirs[pane.path]

\* No request is forgotten: when nothing is on its way, nobody waits, and a
\* disconnect is carried out, whatever was asked before it.
EveryRequestIsAnswered ==
  /\ [](Quiet => pane.requests = <<>> /\ bash = NoId)
  /\ (\E m \in ToSet(inbox) : m.type = "disconnect") ~> ~live

\* Each recorded command was shown as the end of a line that was finished after
\* the user entered it, no two by the same line; a candidate that still waits
\* has not been shown.
CaptureIsExact ==
  /\ \A r \in ToSet(recorded) :
       r.end > r.entered /\ r.end \in Ends(screen, r.command, 0)
  /\ \A i, j \in DOMAIN recorded :
       i < j => recorded[i].end < recorded[j].end - Len(recorded[j].command)
  /\ \A p \in ToSet(capture.pending) :
       \A end \in Ends(screen, p.command, Max({capture.dropped, p.entered - Len(p.command) - Margin})) :
         end <= p.entered

\* While metrics are wanted, one collection after the other is made, never two
\* at a time, and none is due once the session has ended.
MetricsKeepComing ==
  /\ [](metrics.execs <= 1 /\ (metrics.timer => live))
  /\ []<>(live /\ metrics.on => metrics.inFlight)
  /\ []<>(live /\ metrics.on => ~metrics.inFlight)
=============================================================================
