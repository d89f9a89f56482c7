# Formal models of the edge SSH workbench

TLA+ modules, TLC configurations and TLAPS proofs for the program in this
repository: a browser workbench that opens SSH sessions through a Cloudflare
Worker, one Durable Object per session, a registry object per user, a D1
database, and an optional Tailnet Connector (a Node service in a private
network). Paths are relative to the repository; `worker/` stands for
`apps/worker/src/`, `web/` for `apps/web/src/`, `connector/` for
`apps/tailnet-connector/src/`.

`PROJECT.json` lists the components, the runs, the faulty variants each property
has been tried against, the source lines of every definition, the hazards the
properties are for, what was found, and the theorems.

To check a run: `tlc -config LeaseRenewal.cfg MCLeaseRenewal` (module and cfg of
each run are in section 4; the longest takes about two minutes). To check the
proofs: `tlapm LeaseRenewalProofs.tla`, and likewise the other `*Proofs`
modules (each takes between half a minute and three).

## 1. Inventory

### The system

```
 browser (web/)            Worker (worker/)                      outside
 ┌───────────────┐  HTTP   ┌──────────────┐     D1 (SQL)
 │ workbench tabs │───────▶│ routes, login │────▶ users, sessions, profiles,
 │ panes, prompts │        │ profiles ...  │      known_hosts, history
 │                │        └──────┬───────┘        ▲
 │ session channel│──WebSocket──▶ │ SSHSessionDO ──┤ audit rows, host keys
 │ transfer gate  │◀─────────────│  one per session│
 └───────────────┘               │  SSH2Engine ────┼──▶ TCP transport ───▶ SSH server
                                 │                 └──▶ WebSocket transport
                                 │ acquire/renew/release      │
                                 ▼                            ▼
                         SSHSessionRegistryDO          Tailnet Connector ──▶ TCP
                            one per user
```

A Durable Object is single-threaded: a handler runs without interruption from
one await to the next, and at each await any other event may come in. The
registry answers each request inside one storage transaction. The session
object keeps its state in memory, with one small attachment per WebSocket that
survives a restart. D1 statements are atomic one by one. The Connector is an
ordinary event loop.

### Components, state, operations and what makes them correct

| component | state it keeps | operations | interacts with | hard parts | correct when |
|---|---|---|---|---|---|
| Session registry, `worker/durable/ssh-session-registry.ts` | stored leases (session, expiry), one storage alarm | acquire, renew, release, alarm | session objects, by fetch | expiry boundary, leftovers in the record, one alarm for all leases | never more holders than the limit; nobody else evicts a session; nothing stays stored with no alarm to prune it |
| Lease keeping in the session object, `worker/durable/ssh-session.ts` 1292-1371, 1661-1730 | believed expiry, renewal timer, call in flight | renew on a timer, retry, give up, release | registry | lost, late and repeated requests, calls without deadline | a live session holds an unexpired lease, so live sessions stay within the limit |
| Session object, same file | ticket, sockets, authorizations, live sessions, deadlines, audit chain | issue and redeem a ticket, accept, connect, disconnect, host-key decision, cleanup, recovery | browser, registry, engine, D1 | seven awaits of "connect" against departures, deadlines, engine events, failures and restarts | one socket per ticket; a live session is accounted for; nothing is left behind |
| SSH engine, `worker/ssh/ssh2-engine.ts` | connection state, transport, host-key question, timers | connect, verify host key, decide, close, later exec and SFTP | session object, transports, ssh2, D1 | close at every await, two sessions confirming at once | a pin is never replaced; trust agrees with the pin; every question and dial ends |
| Tailnet Connector, `connector/server.ts`, `auth.ts` | reserved connections, nonce cache, active relays | authenticate, reserve, resolve, dial, relay, shut down | Worker's transport, targets | early exits, late sockets, equal boundaries of two time checks | exact reservations, no socket without owner, a handshake is used once |
| Transports, `worker/ssh/cloudflare-transport.ts`, `tailnet-connector-transport.ts` | stream state, buffers, pending write, close promise | open, write with a limit and a deadline, read, close, destroy | engine, Connector's relay | close against pending writes, frames against the close frame, paused sockets | a chunk is delivered once and in order or the stream does not end cleanly; a write and a close end |
| Transfers, `web/components/FileWorkspace.tsx`, `web/lib/transfer-gate.ts`, session object, engine | gate with its holder and queue, pending reads, upload tables | list, read, write, chunks, cancel | browser, session object, engine | three parties with their own idea of one transfer | one transfer at a time, no lost gate, offsets agree |
| A session at work, `ssh-session.ts` 183, 744-1110, `web/components/FileWorkspace.tsx`, `SessionHistoryPanel.tsx`, `worker/ssh/command-capture.ts`, `metrics.ts` | queue of messages, one SFTP channel, listing with its cursor, requests of the pane, metrics timer, capture buffers | list a page, make and delete, load shell history, collect metrics, capture a command | browser, engine | pages of an old listing, answers to requests nobody waits for, the end of a session with messages queued, an echo that comes late or never | the pane shows the directory, every request is answered, only commands that were shown are recorded, one collection at a time |
| Login, `worker/http/auth.ts`, `auth/*`, `storage/users.ts`, `auth-sessions.ts`, `oauth.ts`, `durable/auth-rate-limiter.ts` | limiter records and alarms, the administrator's row, auth sessions, OAuth attempts and identities | login, logout, enrol, confirm, disable, Google start, callback, cancel | D1, one limiter object per address and one for the account | statements of several requests interleave; a request dies between two; a success clears what another one counts | a login had the factor of some moment of it; only a confirmed factor is asked for; an attempt is used once; attempts are paced |
| Profiles, `worker/storage/profiles.ts`, `http/profiles.ts` | rows with sealed credentials and the time of the last connection | create, update, delete, list, read for a ticket, mark | session object | read-modify-write of one row, deletion under a session that starts | a row is one that a single edit could have made; an open session has its profile |
| History, `worker/storage/history.ts`, `pagination.ts`, `http/history.ts` | session and command rows, cursors | record, prune, clear, page | session object, panel | paging while rows arrive, move and go; answers for the session before | an untouched row is met once; the panel shows its own session |
| Workbench, `web/App.tsx`, `web/components/TerminalPane.tsx`, `web/lib/workbench-sessions.ts`, `prompt-queue.ts`, `session-channel.ts` | tabs, panes of the layout, attempts, prompts, typed secrets, closing timers, logout | open, select, split, reconnect, disconnect, close, answer a prompt, log out; the connection effect | routes, session object | effects that run after the render, late events of earlier attempts, timers against close events | an old attempt never touches the new one; a prompt can be answered; the page comes to rest |
| Tailscale import, `worker/http/tailscale.ts`, `tailscale/client.ts`, `web/components/TailscaleImportDialog.tsx` | what one request has looked up and made; the dialog and the list of the page | discover, look up, make profiles one by one; open, submit, hear, close | Tailscale API, D1, profiles | a look-up that ages while profiles are made, requests that break off and are tried again, answers that are lost | an answered import leaves one profile per device; the page lists what was answered once |
| HTTP routes, settings, contracts, the rest of the UI | | | | parsing and formatting, mostly stateless | see section 7 |

### Behaviours that are hard to test

The hazards in `PROJECT.json` name each of these at its line: the awaits of
`handleClientMessage("connect")`, the messages that reach the registry after
their sender has given up, the two boundaries at which a lease or a nonce is
expired, the ordering of audit writes behind a finished audit, restart recovery,
the host-key question that outlives its engine, sockets that open after their
deadline, a relay that closes with bytes in its buffers, D1 statements of two
requests that edit, delete or enrol the same thing, React effects that run after the
event that made them obsolete, listing pages of a directory that was left, and positions
in a terminal output that is cut while commands wait for their echo.

## 2. Modules

| module | models | state and actions |
|---|---|---|
| `SessionLimit` | abstract: a pool of at most `Maximum` holders | Enter, Leave, Expire |
| `SessionRegistry` | the registry object | `leases` and `alarmAt` are its storage, `now` is `Date.now()`; Acquire, RefuseAcquire, Renew, RefuseRenew, Release, Alarm, one action per request because each is one transaction. `Store` is `storeLeases`: it writes the record and re-arms or deletes the alarm. Implements `SessionLimit` |
| `LeaseRenewal` | the registry and the lease keeping of all session objects of a user | extends `SessionRegistry`; `wire` holds requests not processed yet, `renewal` is `leaseRenewalInFlight` and how the call ended, `timer` and `expiresAt` are the fields of `LiveSession`. A call that throws (RenewalFails, AcquireFails) leaves its request on the wire, where it is processed later or lost |
| `LeaseContract` | abstract: what a session does with its lease and may rely on | Ask, Grant, Refuse, Hear, GoLive, GiveBack, Fail, Released, Lost, Lapse. `LeaseRenewal` implements it through `LeaseStage(s)` and `Carried(s)`, `SshSession` through `LeaseStage` |
| `SshSession` | one session object from ticket to recovery | `handler` is the await at which the connect message stands; `audit` is the promise chain of `SSHSessionAudit`; `row` is the `connection_sessions` row; `phase` is the serialized attachment. The registry and the engine are reduced to what this object sees of them. `faults` is a history variable: it records failures that no later step can repair, so that the properties can say exactly when something may remain |
| `EngineContract` | abstract: the phases of an engine that a session relies on | Advance |
| `Ssh2Engine` | several engines of one profile and the pinned key they share | `step`, `verify` and `closing` are the three activities of an engine and the await each is at; `pin` is the `known_hosts` row; the ssh2 client is external. Implements `EngineContract` through `Phase` |
| `TailnetConnector` | the Connector's upgrades | `stage` is where `handleUpgrade` stands, `reserved` is `reservedConnections`, `cache` the nonce cache, `tcp` and `client` the two sockets |
| `Tunnel` | `TailnetConnectorWebSocketDuplex` in the Worker and `relay()` in the Connector, over the upgrades of `TailnetConnector` | `tunnel[r]` is one relay: frames on the wire each way, the pending write and the unread buffer of the Worker, the target's buffer and paused flag of the Connector, how each side stands with closing, and whether the link is up. A chunk is a number, so order and loss are visible |
| `Queues` | lists from which an entry may be taken anywhere | `Without`, a recursive function; the queue of `TransferGate` and the order of `TabLayout` use it |
| `TransferGate` | the browser's gate for transfers | operators on a record: `active`, `queue` as in the class, and which leases were resolved, released and aborted |
| `FileTransfer` | reads and writes of files: panes, session objects and engine streams | `want` is the pending `acquireTransfer`, `pane` the refs of `FileWorkspace`, `loop` the sending loop of a write; `toServer` and `toBrowser` are the WebSocket; `uploads` is `live.uploads`, `stream` the engine's upload. The browser's actions are its handlers, `Serve` is the session object with one message. `file`, `saved` and `cut` are history |
| `CommandCapture` | `TerminalCommandCapture` | functions on a record with the line typed, the output held and the candidates; `Feed` is input, `Observed` output. A text is a sequence of a few characters, since positions in it are what may go wrong |
| `LiveSession` | a connected session: its queue of messages, the file pane, the panel's shell history, metrics, capture | `inbox` and `outbox` are the WebSocket, `serving` the message whose handler awaits, `pane` the state of `FileWorkspace`, `metrics` the fields of the polling loop, `tty` and `screen` the terminal. One action per message and await |
| `AuthRateLimiter` | a limiter object | functions on its stored record; each request is one step of the object |
| `Login` | every handler of `http/auth.ts` with the tables it uses | `req[r]` is a request with the statement it stands at; `admin`, `sessions`, `attempts`, `identities` are the tables, `limiter` the objects. `Die` ends a request between two statements. `proven` and `seen` are history |
| `Pagination` | order, cursor and page of the lists | functions on sets of keys |
| `Records` | profiles, connection sessions, captured commands, their lists, the history panel | `profiles`, `sessions`, `commands` are the tables, `req[r]` a request with the statement it stands at, `panel` the browser's panel with the requests it has asked and not heard |
| `TailscaleImport` | the import of devices, over `Records` | `imports` are the requests with what is left to do (`todo`), was found authorized (`wanted`) and has been made (`created`); `page[r]` is a browser page with its dialog. Whatever `Records` does goes on between two steps of an import. `touched` is history: the hosts whose profiles somebody else has changed |
| `TabLayout` | the layout cases of the reducer | functions on a layout: order, active tab, split, panes, focus |
| `Workbench` | the workbench page and the connection effect of each tab | `page` is the App's state and the reducer functions on it; `pane[t]` is what the terminal component of `t` closed over; `remote[t]` what the server may send next; `timers` the closing timers; `logout` the stage of a logout. A React effect is an action of its own (`RunEffect`), taken at once after a click and any time later otherwise (`urgent`) |
| `MCLeaseRenewal`, `MCTunnel`, `MCFileTransfer`, `MCLiveSession`, `MCLogin`, `MCRecords`, `MCWorkbench` | bounds for TLC | horizons of clocks, which requests and transfers there are, what may be typed |
| `*Proofs` | theorems | section 6 |

Conventions: an operator called a faulty variant (`CanAcquireOneMore`, `RelayEndsAgain`, ...)
stands before the definition it varies and is not used by any specification; it is
a plausible mistake the property next to it in `PROJECT.json` detects. A name like
`Heard`, `StillWanted` or `Settled` is a condition of the code that several actions share.
A constant whose comment says *bound* is there for TLC; the others are values of the code.

## 3. Composition

`LeaseRenewal` composes the registry with its clients: its steps conjoin the
registry's own actions (`Acquire(s)`, `Renew(s)`, `Release(s)`), so the proofs about the
registry are used again there. `SshSession` looks at one session in depth
and replaces the registry by its possible answers, the renewal by `LeaseLost`, and the
engine by the phases of `EngineContract`; `Ssh2Engine` shows that the engine
keeps that contract. The assumption `SshSession` makes of the registry, that a
lease does not expire while its session starts or lives (`LeaseExpires`), is what `LeaseRenewal` proves; and
what `LeaseRenewal` assumes of sessions, how they begin and end, is what `SshSession` has in detail. `LeaseContract` says
both in one place, and both modules are proved to implement it: `SshSession` by its handlers, with the lapse as its environment, `LeaseRenewal`
by its timers, with the ends of a session left open. Neither module is a refinement of the other: a session of `LeaseRenewal` connects once, while
in `SshSession` a connect message queued behind a socket that has gone may acquire a lease once more and give it back, which are
steps of the same contract. `FileTransfer` puts the panes of
all sessions around one `TransferGate` and gives each session an object and an
engine of its own, reduced to their uploads; a session ends there for any of the
reasons `SshSession` has. `Tunnel` composes the Worker's end of
a connection with the Connector: it uses the steps of `TailnetConnector` as they are and puts
the two ends of a relay, its frames and its buffers between them, so that the end of a relay is one
step of both modules. `TailscaleImport` uses the steps of `Records` as they are and its `Put`, `Taken` and `Row` for what an import makes. `Login` and `Records` put concurrent requests over one database and,
in `Login`, one limiter per address and one for the account; `Workbench` puts three tabs over one page, each
with a server reduced to the messages `SshSession` sends. `LiveSession` begins where `SshSession` has a live
session and ends with it.

## 4. Runs

| run | module, cfg | bounds | what it shows |
|---|---|---|---|
| lease_renewal | MCLeaseRenewal | 2 sessions, limit 1; lease 5 and renewal period 2 ticks, retry delay 1, smallest delay 1, margin 2, so that a latency of 1 just fits into the margin; clock to 12 | live sessions stay within the limit, a late renewal revives nothing, the slot of a session that is over comes back whatever was lost, the registry implements the pool |
| session | SshSession | 2 upgrades of one ticket, 2 crashes, an engine that may reject its input | one socket per ticket, a live session is accounted for, nothing is left behind, a final row keeps its outcome; an ended session settles, no half-open socket stays |
| session_rejected | SshSession, SshSessionRejected.cfg | 1 upgrade, no crash | expected violation of `ConnectSettles`, see section 5 |
| engine | Ssh2Engine | 2 engines, 2 keys, timeouts 1 and 2 ticks | trust agrees with the pin, closing releases what was held, questions, dials and closings end, the contract is kept |
| engine_window | Ssh2Engine, Ssh2EngineWindow.cfg | 1 engine, 1 key, timeouts 1 and 3 | expected violation of `ConfirmationWindow`, see section 5 |
| connector | MCTunnel, Tunnel.cfg | 3 requests, 2 handshakes, limit 1, window 1, clock to 1, relays that carry nothing; or one plain upgrade whose relay carries 2 chunks each way with buffers of one | exact reservations, no orphaned socket, a handshake is used once; no chunk is lost in the middle, repeated or swapped, and the end of a stream announced by the target is not a truncation; upgrades, writes, closings and relays end and a stopped Connector drains |
| transfers | MCFileTransfer, FileTransfer.cfg | 2 transfers of one session (a write, then anything but an empty write), a read of another one that stays up; files of 2 chunks | nobody who waits is forgotten, a late release frees only its own lease, a write reported as done is whole, every holder gives the gate back |
| transfers_overlap | MCFileTransfer, FileTransferOverlap.cfg | 3 transfers of any kind | expected violation of `OneTransferAtATime`, see section 5 |
| workbench | MCWorkbench | 3 tabs: one with a stored credential and 2 attempts, two that ask for theirs | the layout is sane, channels and secrets belong to the current attempt, prompts can be answered, the page comes to rest |
| login | MCLogin | 4 request ids in eight mixes, 2 of them in flight at a time, 1 address, clock to 3; 3 Google claims of 2 accounts | a login had the factor of some moment of it, only a confirmed factor is asked for, a Google attempt is used once, admissions are paced |
| records | MCRecords | TailscaleImport with Records: 4 requests in twelve mixes, up to 3 profiles, 2 commands of which 1 is kept, pages of 1, clock to 1, 3 switches of the panel and 2 of its requests at a time; four of the mixes have one or two browser pages that send 2 imports of 2 devices (one of which the tailnet may stop authorizing), with the clock at its end | profiles stay sound, an open session keeps its profile, lists are complete, the panel shows its session; an import is exact and is shown, however imports, edits and deletions overlap |
| live_session | MCLiveSession | three uses: files, shell history and disconnect; metrics, shell history and disconnect; the terminal. 3 clicks; 3 directory entries, pages of 1; 3 chunks typed, 1 line printed; output of 4 characters, 2 candidates | the pane is truthful, requests are answered, capture is exact, metrics keep coming one at a time; among the requests answered is a disconnect |

Why the bounds suffice. The lease run needs two sessions because every property
relates one session to another one that wants its slot; twelve ticks cover a start, two
renewals, a failed retry up to the margin, an expiry and a takeover. Two upgrades suffice
for a ticket because it is consumed once; a recovered session is over, and the second crash
interrupts its recovery. Two engines with different keys are
the smallest race for one pin, and one timeout shorter than the other lets both
orders of firing happen. Three requests at a limit of one give one that holds, one that
is refused and one that comes after a release; two handshakes allow a replay and a
fresh one, and one clock step reaches the instant of expiry and the one after it. In a relay
two chunks and buffers of one let every buffer be full with one chunk behind it, and
the end of a stream come with one waiting; what a relay carries does not depend on the
other upgrades, so one is followed while the others are absent. Two transfers of one pane
let the late messages of the first meet the second, a third one in another session waits at the gate, and
two chunks put a failure before, between and at the end of what a transfer sends. Three
tabs leave one in the background of a split, and two attempts of one let its
first meet the second. Two requests in flight reach every interleaving of two
handlers; what more would do to the sums of the limiter is bounded by one step each, and a second
address only adds a limiter that shares the account's (it takes the run past fifteen
million states; the mixes with two login ids already race for both limiters). Three deadlines of
one or two ticks and a clock to three reach each deadline before, at and after. Pages of one entry put
a cursor after every row; three panel switches return to the first session. A printed line, a
corrected line and an output of four characters let a candidate be matched, cut off and outdated.
Two imports meet over one device, or the second one repeats what the first has left half done; the clock only orders
lists, which imports do not read.
What must hold beyond these bounds is proved where the prover reaches (section 6).

All cfgs switch the deadlock check off, since in each of them the system may stop: a
session that is over is not used again, a ticket is used up, clocks end at their
horizon, all requests may be over, and a user need not do anything. Where it must not
stop early, a liveness property says so.

## 5. What was found

* **A rejected connect goes unnoticed** (`session_rejected`). `SSH2Engine.connect`
  validates its input before the try block that reports failures, and
  `ssh-session.ts:676` ignores the rejection. Terminal sizes the contract allows are refused by the
  engine; the session then stays live and never dials.
* **The handshake's timer runs while the user decides** (`engine_window`).
  `readyTimeout` (10 s by default, 30 s at most) is armed before the host-key question, which is
  announced to stay open for 30 s; the session ends before the announced deadline.
* **Transfers overlap after a failed chunk** (`transfers_overlap`). The error answer to an
  upload chunk names no request, so `FileWorkspace.tsx:149` takes it for the pane's own transfer and gives the
  lease back, while the loop that sends the chunks only looks at the lease's signal and
  goes on. The next session's transfer runs beside it. README.md:23 promises "globally serialized
  binary SFTP transfers". A finished write is also announced twice, and the second message
  releases the lease of the transfer that came next in the pane.

Seen while modelling, kept in the models as the code does it, and claimed by no
property:

* The renewal call of `worker/durable/ssh-session.ts:1299` has no deadline, and while it hangs
  the timer does nothing; a session can then outlive its lease while another one takes the
  slot. `LiveWithinLimit` holds for renewals that settle inside the safety margin (`Timely`, the
  hypothesis of the theorems); with a `Latency` above `Ttl` in `LeaseRenewal.cfg` TLC shows the violation of what
  README.md:23 promises ("atomic per-user connection limits").
* A transport that opens after `close()` is never closed (the `orphan` of `TransportOpens`); "trust once" rests on
  a look-up that may be 30 s old (`ssh2-engine.ts:433`).
* A crash between the audit insert and the attachment's change leaves a row open (`faults`). A
  refused or failed release is never retried after cleanup; the lease's time to live takes care of it.
* A download that stops short of its announced size keeps the gate until its session ends
  (`cut`, which `LeaseReturned` excepts).
* The pane marks a listing only by its request: after a refresh that overtakes "load more", entries
  of both pages may be shown twice until the next refresh (`FileWorkspace.tsx:185`, `:192`, `:451`), which is why
  `PaneIsTruthful` compares sets.
* An import that breaks off after its first profile, or whose answer is lost, leaves profiles that the page does not list
  until it is loaded again; the retry skips them as duplicates (`http/tailscale.ts:149`), so it does not report them either.
  `ImportIsShown` speaks of answers that arrive. Two overlapping imports of one device are kept apart only by the
  unique index, which ends the later one with an error after part of its work.
* Of two concurrent edits of a profile the later write carries its own reading of the row and undoes
  the other (`profiles.ts:626`); the result is still sound, which is what `RowIsSound` claims.
* A host-key or credential prompt can outlive a logout that has cleared its tab, and a closing tab whose channel never
  comes stays until logout; `PromptsAreAnswerable` speaks of open tabs, `TabsSettle` of
  tabs with a channel.
* The messages of a session are handled one after the other and requests to the SSH server have no
  deadline of their own: a listing or a command that a server which still answers keepalives never finishes
  holds up what was asked behind it, a disconnect included, and a collection of metrics that hangs stops the
  polling. `LiveSession` assumes that a server answers; `EveryRequestIsAnswered` and `MetricsKeepComing`
  are about everything else that could stop them.
* The Connector closes a relay that was idle or too old with code 1000, which the Worker takes for a clean
  end of the stream; `TunnelIsExact` speaks of the ends the target caused. A frame that reaches a
  finished relay pauses its WebSocket, so the close frame waits for the library's
  close timeout; and the Worker's side does not answer the Connector's close frame itself.

## 6. Fairness and proofs

**Fairness** is weak fairness throughout, on steps the platform or a timer of the code
causes: time and due alarms (registry); settling of pending calls and firing of
timers (leases); settling of fetch and D1 calls, delivery of close events, deadlines, the
restart of a crashed object, and the engine's timeouts (session); timers, dials with
their own deadlines, D1 and the end of `close()` (engine); the deadline of an upgrade, the
maximum timer of a relay, dials with their socket timeout, the deadlines of the transport's writes and of
its `close()`, and delivery on a link that is up (Connector and tunnel); the
continuation of settled promises, the delivery and handling of messages on an open
socket, and the notice of a closed one (transfers); a due effect, the answer to a ticket request
and the closing timer of a tab, and the two waits of a logout, the first with a timer
(workbench); the handling of the next message, delivery, the metrics timer, and the answer of the
SSH server to a request, whatever it is (session at work, the one place where something is assumed
of a server: see section 5). Nothing else is
assumed of users, browsers, SSH servers, name look-ups, of who hears that a link broke, or of the order of messages to the registry, and
nobody has to connect, decide or leave. `Login`, `Records` and `TailscaleImport` state no liveness: their
requests may die at any statement.

**Proved**, for every value of the constants under the named assumptions of the modules:

| module | theorems | inductive invariant and why it is needed |
|---|---|---|
| LeaseRenewalProofs | registry: `TypeCorrect`, `LimitHolds`, `AlarmAlwaysCovers`, `ExpiryAlwaysBounded`, `NobodyEvicts`, `AlarmAlwaysProgresses`, `RegistryImplementsPool`; leases: `LeaseTypeCorrect`, `LiveAlwaysHoldsLease`, `LiveAlwaysWithinLimit`, `BeliefAlwaysSafe`, `NobodyResurrects`, `RenewalKeepsLeaseContract`, `LeaseInUseIsHeld` | `RegistryInv`. Every step grows the pruned record by one, prunes, drops one or moves the clock; lemmas say what each does to the holders, the alarm and the expiries. The refinement maps a growing step to Enter, a release to Leave, the clock to Expire. `LeaseInv`, on top of it: "live implies lease" is not inductive: one has to know that a timer is armed or a renewal under way, and that whichever it is ends before the believed expiry (`RenewalInTime`), that a start-up began less than a lease ago (`StartInTime`), and that no release is under way for a session that is not over (`Orderly`). `Timely` is the hypothesis; types and `NobodyResurrects` need none. The refinement of `LeaseContract`: a step of one session leaves what the registry holds for the others and the requests of the others alone (`OthersHeld`, `OthersCarried`), and the clock, which waits for timers and calls, passes the expiry of a lease only when its session is not using it (`ClockKeepsContract`). `LeaseInUseIsHeld` is about the contract itself; what makes it inductive is that a session asks only when no release of its own is under way |
| SshSessionProofs | `SessionTypes`, `SessionInvariant`, `TicketIsUsedOnce`, `LiveSessionIsAccounted`, `EndedSessionLeavesNothing`, `RecordedOutcomeIsKept`, `SessionKeepsLeaseContract` | `SessionInv`: which activities may be under way together (`Roles`), what the connect message has in hand at each of its awaits (`AtAwait`), where the lease is and who gives it back (`LeaseTraced`), and how the chain of audit writes fits the row and who will write the final one (`Fits`, `RowTraced`). None of the properties is inductive without the await: a cleanup between two awaits leaves work to the handler that is resumed. For the refinement, `Roles` says that a live session has no handler at an await, so that each step moves the stage of the lease at most once, and `LeaseTraced` that a connect message asks for a lease only when no release is under way |
| ConnectionProofs | `TypesHold`, `TrustHolds`, `PinHolds`, `ClosedEngineHoldsNothing`, `EnginesKeepContract` | `EngineInv`. An engine between the read of the pin and the end of its touch already agrees with the pin (`PinProgress`), and a deleted profile has no pin. For the rest `EngineOrder`: which `step`, `verify` and `closing` go together, for each engine. Each action then either leaves the phase of an engine alone or advances it by one step of the contract (`Advances`) |
| ConnectionProofs, the session at work | `WorkInvariant`, `PaneShowsItsDirectory`, `QuietMeansAnswered`, `CollectionsAreSingle` | `WorkInv`. Answers on their way, the request that is served and the messages not handled yet are one line (`Line`) that grows at its end, has one place answered, or loses one (`Grown`, `Answered`, `Dropped`). That the pane is right when the line is empty is not inductive: the pane replaces what it shows by a page nobody waits for any more, so one has to know that every such page stands before the first page that is waited for, and that from there on all listings are of the pane's directory (`LineOk`); and that, no change being on its way, an entry that is not shown is still to come with a page or behind its cursor, unless a failure is on its way (`Truthful`). `PageBrings` says so of the page a listing answers with: what it leaves out is what the next cursor asks for. One collection of metrics at a time, on top of it, rests on a session that has ended having nothing on its way that could arm the timer again (`MetricsInv`) |
| ConnectionProofs, the capture of commands | `RecordedWasShown` | `TerminalInv`, on top of `WorkInv`. "Recorded means shown" speaks of the whole screen, the code of positions in an output that is cut at both ends. So what the capture holds is the end of the screen (`Follows`), each candidate's positions are those of its entry less what has been cut (`Placed`), a candidate that waits is not on the part of the screen that may still be searched (`Unseen`), and the recorded lines lie one after the other before that part (`RecordsOk`). Lemmas say that a key, a cut, the ageing of a candidate and the search for it each keep these; for a whole chunk and a whole queue they are put together by `RunExists` and `UpTo` |
| TailnetConnectorProofs | Connector: `ConnectorTypes`, `ReservationsHold`, `SocketsHold`, `NonceHolds`; relays: `TunnelCarriesExactly`, `TunnelImplementsConnector` | `ConnectorInv`. The count is exact because each step adds or drops one holder together with the counter (`Counted`). A nonce is used once because it stays in the cache for as long as its handshake is accepted (`NoncesKept`): the strict `<` of `consume` and the strict `<` of `authenticateUpgrade` meet at the same instant. `TunnelInv`: what was delivered, what is buffered, what is on the wire and what is unread make, in this order, one unbroken run of numbers; a step moves its boundaries, and only the sender extends it. Every step of `Tunnel` is a step of the Connector or leaves its variables alone, so its theorems hold there too |
| FileTransferProofs | `TransferTypes`, `WaitingIsNotForgotten`, `ReleasesAreOwn`, `ReportedWriteIsWhole` | `TransferInv`. Gate: nobody is queued twice, nobody is queued while the gate is free, the holder's lease was resolved and only a resolved one is released (`GateOk`), and who has asked and is not settled is known to the gate (`Known`); from lemmas about `Without`. Panes and loops: which lease a pane holds and what its loop may still send (`PanesOk`, `LoopsOk`). A write reported as done is whole because it is asked for once, so its upload starts once, and while its stream is the upload's own the file is the chunks before the offset (`WriteOk`) |
| WorkbenchProofs | `WorkbenchTypes`, `LayoutStaysSane`, `AttemptsStayCurrent`, `PromptsStayAnswerable` | `WorkbenchInv`. Layout: lemmas about the cases of the reducer. Attempts: unless an effect is due at once, each tab's terminal has the attempt of the tab or an effect is due that brings it (`Heeded`), so each action is proved for one tab (`OneTab`) and leaves the others as they were. Prompts: a prompt of an open tab is of its current attempt, a host-key question has a run that is wanted, a credential prompt has none, and an open tab has one prompt at most (`PromptsOk`) |
| LoginProofs | `LoginInvariant`, `EnabledFactorWasProven`, `PasswordLoginWasEntitled`, `AttemptLetsInOneBrowser`, `AdmissionsArePaced` | `LoginInv`: what a request knows at the statement it stands at (`RequestOk`), that nothing is asked of an administrator before the row is made (`BeforeAdmin`), that the sessions made are those of requests that got so far (`SessionsAreDone`), and that no two callbacks have used up the same attempt (`OneCallback`). Pacing is a property of one request of the limiter (`LimiterOk`), with the growth of the delay (`Doubled`) bounded by its least counterexample |
| RecordsProofs | rows: `RowsStaySound`, `SessionsKeepProfiles`, `ConnectionsStayMarked`, `PanelIsItsOwn`; lists: `ListsAreRead`; imports: `ImportsAreExact`, `ImportsAreShown`, `ImportsKeepRecords` | `RecordsInv`: soundness of the stored rows is not inductive, because an update writes a row it computed from an earlier reading; so a request that stands at its write carries a sound row (`RequestOK`), and what the schemas let through is an assumption on the inputs. `OpenSessionKeepsProfile` rests on the session's row and the deletion being one statement each. `PanelInv`: an answer of the panel's current generation is of the session shown. `ListsInv`: a row nobody has touched since a list was begun is still to come if it is ordered behind the cursor, and has come exactly once otherwise (`ListOk`); it rests on what a page leaves behind its cursor being exactly what it has not taken (`PageTakes`), for tables of any finite size. `ImportInv`, on top of these. Exact: while devices are left to do, a profile that has appeared for one of them was made by an import, since others are recorded in `touched`, and so has the name the unique index refuses a second time (`ImportExact`, `OneTarget`). Shown: a page waits for every import of its own that is under way, imports share no profile, and the page's list has each profile as often as `TimesShown` says (`ShownInv`). `ImportsKeepRecords` states the properties of rows, sessions, panel and lists again with imports beside them |

Each of these invariants is one TLC finds to hold on the bounds of its module's run.

The assumptions are those the code enforces: a limit in 1..20, positive times, delays
that are natural numbers, a limit of at least one connection in the Connector; an initial table of
profiles that is finite, and a value for "no cursor" that is not the key of a row; relays that
are followed are those of upgrades there are; directories that are finite, pages of at least one entry, and
more request ids than messages (they are random UUIDs); texts that are sequences, limits of the capture
that are natural numbers.

Two forms recur. Where a fact about a number or a queue of any length is needed (`Doubled`, `Without`,
the first and the last key of a page), the proof takes the least counterexample, since the library's induction
theorems cannot be instantiated; and the operators concerned are recursive functions. `UpTo` and `RunExists` of
`ConnectionProofs` state this once with sets and functions in the place of operators: a set that has 0 and each successor
contains 0 .. n, and a recursion whose steps stay in a set has a solution there. The lemmas about queues
stand in both `FileTransferProofs` and `WorkbenchProofs`, as a module of their own would not be
about any component.

The proofs led to corrections of the models. A phase of `Ssh2Engine`, the end of a socket in
`SshSession` and two steps of `Login` were described by cases that overlapped, so that what the model did depended on the one
that was evaluated first; they are now disjoint.

**Only model-checked**: all liveness properties, which are out of the prover's reach (of
`EveryRequestIsAnswered` and `MetricsKeepComing` the safety halves are proved). Every invariant of a passing run is proved.

## 7. Not modelled, and why

* The SSH protocol, cryptography, TOTP and password hashes, Google's tokens, the platform and React
  themselves: external. The models use what the code relies on.
* Bytes: terminal output, relayed data, file contents. Where an order or a count of them
  matters (uploads, relays), the models have chunks; where positions in a text matter (command
  capture), a few characters.
* Parsing and formatting: `/proc`, UFW and history output, the rates computed from two metrics samples, the patterns of
  sensitive commands (a set `Sensitive`), Tailscale answers, the schemas of `packages/contracts` (what
  they let through is the inputs' domain), translations, rendering.
* In `TailscaleImport`: saving the tailnet's name and token, the bounds of the remote answer (an answer is a set of
  devices), the user name of an import (it goes with the host), and what else changes the page's list: a first load that is answered after
  an import replaces the list, and it has only the first hundred profiles.
* HTTP routing, request checks, settings, network and origin policy: stateless.
* The direct TCP transport passes each call on to one of the platform's streams. `targets.ts` is a choice
  between a verified and a refused target, and a restart of the Connector empties its nonce cache.
* In `SshSession`: a D1 write of the crashed object that lands after the recovery of the
  new one, and the resizing of a terminal.
* In `Ssh2Engine`: keepalives and the algorithms offered.
* In `FileTransfer` and `LiveSession`: rename and chmod (no client sends them), the frame codec,
  a pane that reconnects with a new attempt, the intervals of the metrics timer.
* In `Login`: a change of the configured password hash, and repository operations no route calls
  (`recordFailure`, `revokeAll`, `deleteExpired`, `listActive`). In `Records`: fields that only describe, encryption, filters of lists, security events (single inserts); ids are random, so a cursor stays
  valid, and a list of sessions differs from the modelled ones only in its columns. In `Workbench`: attention marks, logs
  and metrics shown per tab, panel sizes, settings.
* `KnownHostRepository` (`worker/storage/known-hosts.ts`) has no caller.

## 8. Plan

Everything that keeps state across steps and can be reached is modelled, every invariant and every action property of a passing run
is proved, and so are the refinements: the registry implements `SessionLimit`, the engines `EngineContract`, the relays the Connector,
session objects and lease keeping `LeaseContract`. `LeaseContract` is proved and is no property of a listed run. What is left:

1. Liveness stays with TLC: `SlotReturned`, `SessionSettles`, `EngineSettles`, `ConnectionsSettle`, `LeaseReturned`, `TabsSettle`,
   `EveryRequestIsAnswered` and `MetricsKeepComing` rest on fairness.
2. A contract between `FileTransfer` and `LiveSession`, which both have the file pane of a session, each with the part of
   its state the other leaves out.
