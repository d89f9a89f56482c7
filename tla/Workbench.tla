------------------------------ MODULE Workbench ------------------------------
(***************************************************************************)
(* The browser workbench (apps/web/src/App.tsx, components/TerminalPane,   *)
(* lib/workbench-sessions.ts, lib/prompt-queue.ts): tabs that each run one *)
(* connection attempt at a time, the prompts of all of them in one queue,  *)
(* credentials typed for one attempt, closing a tab, and logging out.      *)
(*                                                                         *)
(* `page` is the state of the App component, its reducer a set of          *)
(* functions on it; `pane[t]` is what the terminal component of tab t      *)
(* closed over: the attempt its effect last ran for and that attempt's     *)
(* ticket request or socket.  React runs an effect after the render that   *)
(* calls for it, so it is an action of its own: before any other event     *)
(* when a click or a key caused the render, some time later when a message *)
(* or a timer did.  The server side of a socket is what module SshSession  *)
(* describes; here it is the messages it may send next.                    *)
(***************************************************************************)
EXTENDS TabLayout, SequencesExt

CONSTANTS Prompting,    \* tabs whose profile asks for its credential each time
          Attempts      \* bound: how many attempts each tab makes

ASSUME WorkbenchAssumption ==
  Prompting \subseteq Tabs /\ Attempts \in [Tabs -> Nat \ {0}]

VARIABLES page,     \* layout, sessions, prompts, typed credentials
          pane,     \* the terminal component of each tab
          remote,   \* what the server end of the tab's socket does next
          timers,   \* <<tab, attempt>>: close() armed by closeSession
          logout,   \* "no", "draining", "revoking", "out"
          urgent    \* the last event was the user's: effects run before the next

vars == <<page, pane, remote, timers, logout, urgent>>

Attempt == Nat      \* 0: none

SessionState == {"idle", "authorizing", "starting", "connected", "disconnecting",
                 "closed", "error"}

Session == [attempt : Attempt, wanted : BOOLEAN, state : SessionState,
            channel : Attempt, closing : BOOLEAN]

Prompt == [kind : {"credential", "host-key"}, tab : Tabs, attempt : Attempt]

Socket == {"none", "asking", "connecting", "open", "closing"}

NoSession == [attempt |-> 0, wanted |-> FALSE, state |-> "idle", channel |-> 0,
              closing |-> FALSE]

\* createWorkbenchSession
NewSession(attempt, start) ==
  [attempt |-> attempt, wanted |-> start,
   state |-> IF start THEN "authorizing" ELSE "idle", channel |-> 0, closing |-> FALSE]

EmptyPage == [layout |-> EmptyLayout, session |-> [t \in Tabs |-> NoSession],
              prompts |-> <<>>, secret |-> [t \in Tabs |-> 0]]

IsOpen(pg, t) == t \in TabsOf(pg.layout)
Current(pg, t, a) == IsOpen(pg, t) /\ pg.session[t].attempt = a
Running(s) == s.state \notin {"idle", "closed", "error"}

-----------------------------------------------------------------------------
(* The reducer: functions on the page.                                      *)

Opened(pg, t, start) ==
  [pg EXCEPT !.layout = OpenTab(@, t), !.session[t] = NewSession(1, start)]

Removed(pg, t) ==
  IF IsOpen(pg, t)
    THEN [pg EXCEPT !.layout = RemoveTab(@, t), !.session[t] = [NoSession EXCEPT
                                                        !.attempt = pg.session[t].attempt]]
    ELSE pg

Reconnected(pg, t, a, start) ==
  IF IsOpen(pg, t) THEN [pg EXCEPT !.session[t] = NewSession(a, start)] ELSE pg

Paused(pg, t, a) ==
  IF Current(pg, t, a)
    THEN [pg EXCEPT !.session[t].wanted = FALSE, !.session[t].state = "idle",
                    !.session[t].channel = 0]
    ELSE pg

StateSet(pg, t, a, s) ==
  IF Current(pg, t, a)
    THEN [pg EXCEPT !.session[t].state = s,
                    !.session[t].wanted = @ /\ s \notin {"idle", "closed", "error"}]
    ELSE pg

ChannelSet(pg, t, a, channel) ==
  IF Current(pg, t, a) THEN [pg EXCEPT !.session[t].channel = channel] ELSE pg

(* The prompt queue. *)

Enqueued(pg, p) ==
  IF p \in ToSet(pg.prompts) THEN pg ELSE [pg EXCEPT !.prompts = Append(@, p)]

Dequeued(pg) == [pg EXCEPT !.prompts = Tail(@)]

WithoutPromptsOf(pg, t, kept) ==
  [pg EXCEPT !.prompts = Without(@, {p \in ToSet(@) : p.tab = t /\ p.attempt # kept})]

\* Faulty variant of Cleared: the prompts of the session stay in the queue.
ClearedOfSecret(pg, t) == [pg EXCEPT !.secret[t] = 0]

\* clearSessionResources; the transfers of the session are module FileTransfer's.
Cleared(pg, t) == WithoutPromptsOf([pg EXCEPT !.secret[t] = 0], t, 0)

\* handleState: a session that ends gives up its prompts and its credential,
\* and its tab when that is closing.
HandleState(pg, t, a, s) ==
  LET ended  == s \in {"closed", "error"}
      settled == StateSet(IF ended THEN Cleared(pg, t) ELSE pg, t, a, s)
  IN  IF ~Current(pg, t, a) THEN pg
      ELSE IF ended /\ pg.session[t].closing THEN Removed(settled, t)
      ELSE settled

-----------------------------------------------------------------------------
(* What the user does.                                                      *)

\* send() of a published channel succeeds only on its own, open socket.
CanSend(t) ==
  /\ page.session[t].channel # 0
  /\ page.session[t].channel = pane[t].effect
  /\ pane[t].socket = "open"

\* close() of the published channel.
ClosedBy(t) ==
  IF page.session[t].channel = pane[t].effect /\ pane[t].socket \in {"connecting", "open"}
    THEN [pane EXCEPT ![t].socket = "closing"] ELSE pane

Credential(t) == [kind |-> "credential", tab |-> t, attempt |-> page.session[t].attempt]

SignedIn == logout # "out"

\* openProfileSession: disabled while the page drains.
Open(t) ==
  /\ logout = "no" /\ page.session[t].attempt = 0
  /\ LET opened == Opened(page, t, t \notin Prompting)
     IN  page' = IF t \in Prompting
                   THEN Enqueued(opened, [Credential(t) EXCEPT !.attempt = 1]) ELSE opened
  /\ UNCHANGED <<pane, remote, timers, logout>>

Select(t) ==
  /\ SignedIn /\ IsOpen(page, t)
  /\ page' = [page EXCEPT !.layout = SelectTab(@, t)]
  /\ UNCHANGED <<pane, remote, timers, logout>>

Split ==
  /\ SignedIn /\ Len(page.layout.order) > 1
  /\ page' = [page EXCEPT !.layout = ToggleSplit(@)]
  /\ UNCHANGED <<pane, remote, timers, logout>>

\* reconnectSession, offered for the active tab once its session has ended.
Reconnect(t) ==
  LET a == page.session[t].attempt + 1
      again == Reconnected(Cleared(page, t), t, a, t \notin Prompting)
  IN  /\ SignedIn /\ page.layout.active = t /\ a =< Attempts[t]
      /\ ~Running(page.session[t]) /\ ~page.session[t].closing
      /\ page' = IF t \in Prompting
                   THEN Enqueued(again, [Credential(t) EXCEPT !.attempt = a]) ELSE again
      /\ UNCHANGED <<pane, remote, timers, logout>>

\* disconnectSession: with no socket to say it on, the session ends here.
Disconnect(t) ==
  LET a == page.session[t].attempt
      leaving == StateSet(page, t, a, "disconnecting")
  IN  /\ SignedIn /\ page.layout.active = t
      /\ Running(page.session[t]) /\ ~page.session[t].closing
      /\ page' = IF CanSend(t) THEN leaving ELSE HandleState(leaving, t, a, "closed")
      /\ pane' = IF CanSend(t) THEN pane ELSE ClosedBy(t)
      /\ UNCHANGED <<remote, timers, logout>>

\* closeSession: a tab without a channel goes at once, any other asks the
\* server to end and closes its channel two seconds later.
Close(t) ==
  /\ SignedIn /\ IsOpen(page, t) /\ ~page.session[t].closing
  /\ IF page.session[t].channel = 0
       THEN /\ page' = Removed(Cleared(page, t), t)
            /\ UNCHANGED timers
       ELSE /\ page' = [Cleared(page, t) EXCEPT !.session[t].closing = TRUE]
            /\ timers' = timers \cup {<<t, page.session[t].attempt>>}
  /\ UNCHANGED <<pane, remote, logout>>

\* Faulty variant of CloseTimeout: only a server that answers ends the tab.
CloseTimeoutIdle(t) ==
  /\ t \in {timer[1] : timer \in timers}
  /\ timers' = {timer \in timers : timer[1] # t}
  /\ UNCHANGED <<page, pane, remote, logout>>

CloseTimeout(t) ==
  \E timer \in timers :
    /\ timer[1] = t
    /\ timers' = timers \ {timer}
    /\ pane' = IF Current(page, t, timer[2]) /\ page.session[t].closing
                 THEN ClosedBy(t) ELSE pane
    /\ UNCHANGED <<page, remote, logout>>

\* connectWithCredential: a new attempt with the typed credential; a prompt
\* whose attempt is over is dropped.
SubmitCredential ==
  /\ SignedIn /\ page.prompts # <<>> /\ Head(page.prompts).kind = "credential"
  /\ LET p == Head(page.prompts)
         a == page.session[p.tab].attempt + 1
         typed == WithoutPromptsOf([page EXCEPT !.secret[p.tab] = a], p.tab, a)
     IN  IF Current(page, p.tab, p.attempt)
           THEN a =< Attempts[p.tab] /\ page' = Reconnected(typed, p.tab, a, TRUE)
           ELSE page' = Dequeued(page)
  /\ UNCHANGED <<pane, remote, timers, logout>>

CancelCredential ==
  /\ SignedIn /\ page.prompts # <<>> /\ Head(page.prompts).kind = "credential"
  /\ LET t == Head(page.prompts).tab
     IN  page' = Removed(Cleared(Dequeued(page), t), t)
  /\ UNCHANGED <<pane, remote, timers, logout>>

\* answerHostKey: the answer travels on the socket that asked, if that is
\* still the open socket of the current attempt.
AnswerHostKey(trusted) ==
  /\ SignedIn /\ page.prompts # <<>> /\ Head(page.prompts).kind = "host-key"
  /\ LET p == Head(page.prompts)
         heard == /\ Current(page, p.tab, p.attempt)
                  /\ pane[p.tab].effect = p.attempt /\ pane[p.tab].socket = "open"
     IN  remote' = IF heard /\ remote[p.tab] = "asked"
                     THEN [remote EXCEPT ![p.tab] = IF trusted THEN "starting" ELSE "ending"]
                     ELSE remote
  /\ page' = Dequeued(page)
  /\ UNCHANGED <<pane, timers, logout>>

-----------------------------------------------------------------------------
(* The terminal component: its effect, its ticket request, its socket.      *)

\* The attempt the effect should be running for, 0 for none.
Due(t) == IF SignedIn /\ IsOpen(page, t) /\ page.session[t].wanted
            THEN page.session[t].attempt ELSE 0

\* Faulty variant of RunEffect: the attempt before is not cleaned up.
RunEffectWithoutCleanup(t) ==
  LET a == Due(t)
  IN  /\ a # pane[t].effect
      /\ page' = IF a = 0 THEN page ELSE HandleState(page, t, a, "authorizing")
      /\ pane' = [pane EXCEPT ![t] = [effect |-> a,
                                      socket |-> IF a = 0 THEN "none" ELSE "asking"]]
      /\ remote' = [remote EXCEPT ![t] = "none"]
      /\ UNCHANGED <<timers, logout>>

\* useEffect [attemptId, connectRequested]: the old run is disposed of (its
\* channel withdrawn, its socket closed and from then on unheard), the new one
\* asks for a ticket.
RunEffect(t) ==
  LET a == Due(t)
      disposed == IF pane[t].effect = 0 THEN page
                  ELSE ChannelSet(page, t, pane[t].effect, 0)
  IN  /\ a # pane[t].effect
      /\ page' = IF a = 0 THEN disposed ELSE HandleState(disposed, t, a, "authorizing")
      /\ pane' = [pane EXCEPT ![t] = [effect |-> a,
                                      socket |-> IF a = 0 THEN "none" ELSE "asking"]]
      /\ remote' = [remote EXCEPT ![t] = "none"]
      /\ UNCHANGED <<timers, logout>>

ForgetSecret(pg, t, a) == IF pg.secret[t] = a THEN [pg EXCEPT !.secret[t] = 0] ELSE pg

TicketIssued(t) ==
  /\ pane[t].socket = "asking"
  /\ page' = ForgetSecret(page, t, pane[t].effect)
  /\ pane' = [pane EXCEPT ![t].socket = "connecting"]
  /\ UNCHANGED <<remote, timers, logout>>

\* PROFILE_CREDENTIAL_REQUIRED, when the request carried none: the attempt
\* waits for a prompt (queueCredentialPrompt).
CredentialRequired(t) ==
  LET a == pane[t].effect
      idle == HandleState(page, t, a, "idle")
  IN  /\ pane[t].socket = "asking" /\ page.secret[t] # a
      /\ page' = IF Current(idle, t, a)
                   THEN Enqueued(Paused(idle, t, a),
                                 [kind |-> "credential", tab |-> t, attempt |-> a])
                   ELSE idle
      /\ pane' = [pane EXCEPT ![t].socket = "none"]
      /\ UNCHANGED <<remote, timers, logout>>

\* Any other failure; handleTicketError forgets the credential as well.
TicketFailed(t) ==
  LET a == pane[t].effect
      failed == HandleState(page, t, a, "error")
  IN  /\ pane[t].socket = "asking"
      /\ page' = IF Current(failed, t, a) THEN ForgetSecret(failed, t, a) ELSE failed
      /\ pane' = [pane EXCEPT ![t].socket = "none"]
      /\ UNCHANGED <<remote, timers, logout>>

SocketOpened(t) ==
  LET a == pane[t].effect
  IN  /\ pane[t].socket = "connecting"
      /\ page' = ChannelSet(HandleState(page, t, a, "starting"), t, a, a)
      /\ pane' = [pane EXCEPT ![t].socket = "open"]
      /\ remote' = [remote EXCEPT ![t] = "starting"]
      /\ UNCHANGED <<timers, logout>>

\* Messages are heard while the socket is the page's own and open.
Hears(t, stage) == pane[t].socket = "open" /\ remote[t] = stage

\* The status host_confirmation and the question, sent together (queueHostKey).
HostKeyAsked(t) ==
  LET a == pane[t].effect
      asking == HandleState(page, t, a, "starting")
  IN  /\ Hears(t, "starting")
      /\ page' = IF Current(page, t, a)
                   THEN Enqueued(asking, [kind |-> "host-key", tab |-> t, attempt |-> a])
                   ELSE asking
      /\ remote' = [remote EXCEPT ![t] = "asked"]
      /\ UNCHANGED <<pane, timers, logout>>

Connected(t) ==
  /\ Hears(t, "starting")
  /\ page' = HandleState(page, t, pane[t].effect, "connected")
  /\ remote' = [remote EXCEPT ![t] = "ready"]
  /\ UNCHANGED <<pane, timers, logout>>

\* The server's last word: status closed, or a fatal error.
SessionEnded(t) ==
  /\ \E stage \in {"starting", "asked", "ready", "ending"} : Hears(t, stage)
  /\ \E s \in {"closed", "error"} : page' = HandleState(page, t, pane[t].effect, s)
  /\ remote' = [remote EXCEPT ![t] = "over"]
  /\ UNCHANGED <<pane, timers, logout>>

\* A close event, with code 1000 or without; an error that was said stays.
SocketClosed(t) ==
  LET a == pane[t].effect
  IN  /\ pane[t].socket \in {"connecting", "open", "closing"}
      /\ \E s \in {"closed", "error"} :
           /\ s = "closed" => pane[t].socket # "connecting"
           /\ page' = ChannelSet(IF page.session[t].state = "error" THEN page
                                 ELSE HandleState(page, t, a, s), t, a, 0)
      /\ pane' = [pane EXCEPT ![t].socket = "none"]
      /\ remote' = [remote EXCEPT ![t] = "none"]
      /\ UNCHANGED <<timers, logout>>

-----------------------------------------------------------------------------
(* Logging out.                                                             *)

\* logout and the first half of drainAllSessions: every prompt and credential
\* is dropped, every open channel told to disconnect.
Logout ==
  /\ logout = "no"
  /\ logout' = "draining"
  /\ page' = [page EXCEPT !.prompts = <<>>, !.secret = [t \in Tabs |-> 0]]
  /\ UNCHANGED <<pane, remote, timers>>

\* The channels have closed, or two seconds are over: close the rest.
DrainEnds ==
  /\ logout = "draining"
  /\ logout' = "revoking"
  /\ pane' = [t \in Tabs |-> ClosedBy(t)[t]]
  /\ UNCHANGED <<page, remote, timers>>

\* api.logout has answered: the workbench is cleared, or it stays.
Revoked ==
  /\ logout = "revoking"
  /\ \/ /\ logout' = "out"
        /\ page' = [page EXCEPT !.layout = EmptyLayout,
             !.session = [t \in Tabs |-> [NoSession EXCEPT !.attempt = page.session[t].attempt]]]
     \/ logout' = "no" /\ UNCHANGED page
  /\ UNCHANGED <<pane, remote, timers>>

SignIn ==
  /\ logout = "out"
  /\ logout' = "no"
  /\ UNCHANGED <<page, pane, remote, timers>>

-----------------------------------------------------------------------------
Init ==
  /\ page = EmptyPage
  /\ pane = [t \in Tabs |-> [effect |-> 0, socket |-> "none"]]
  /\ remote = [t \in Tabs |-> "none"]
  /\ timers = {}
  /\ logout = "no"
  /\ urgent = FALSE

Ticket(t) == TicketIssued(t) \/ CredentialRequired(t) \/ TicketFailed(t)

Message(t) == HostKeyAsked(t) \/ Connected(t) \/ SessionEnded(t)

User(t) == Open(t) \/ Select(t) \/ Reconnect(t) \/ Disconnect(t) \/ Close(t)

\* React 18: a discrete event is rendered and its effects flushed at once.
Flushing == urgent /\ \E t \in Tabs : Due(t) # pane[t].effect

Effect(t) == RunEffect(t) /\ UNCHANGED urgent
Discrete(A) == ~Flushing /\ A /\ urgent' = TRUE
Deferred(A) == ~Flushing /\ A /\ urgent' = FALSE

Next ==
  \/ \E t \in Tabs :
       \/ Effect(t)
       \/ Discrete(User(t))
       \/ Deferred(Ticket(t) \/ SocketOpened(t) \/ Message(t) \/ SocketClosed(t)
                     \/ CloseTimeout(t))
  \/ Discrete(Split \/ SubmitCredential \/ CancelCredential \/ Logout)
  \/ \E trusted \in BOOLEAN : Discrete(AnswerHostKey(trusted))
  \/ Deferred(DrainEnds \/ Revoked \/ SignIn)

\* React runs its effects, timers fire, requests are answered, and a socket
\* that is opening or closing ends up open or closed.  Users and the messages
\* of the server owe nothing.
Settling(t) ==
  \/ Ticket(t)
  \/ pane[t].socket \in {"connecting", "closing"} /\ (SocketOpened(t) \/ SocketClosed(t))

Fairness ==
  /\ \A t \in Tabs : WF_vars(Effect(t) \/ Deferred(Settling(t) \/ CloseTimeout(t)))
  /\ WF_vars(Deferred(DrainEnds \/ Revoked))

Spec == Init /\ [][Next]_vars /\ Fairness

-----------------------------------------------------------------------------
TypeOK ==
  /\ page.session \in [Tabs -> Session]
  /\ ToSet(page.prompts) \subseteq Prompt
  /\ page.secret \in [Tabs -> Attempt]
  /\ pane \in [Tabs -> [effect : Attempt, socket : Socket]]
  /\ remote \in [Tabs -> {"none", "starting", "asked", "ready", "ending", "over"}]
  /\ timers \subseteq Tabs \X Attempt
  /\ logout \in {"no", "draining", "revoking", "out"}
  /\ urgent \in BOOLEAN

\* However tabs are opened, selected, split, removed by their user or by the
\* end of their session: the active tab is the one in the focused pane, and a
\* split shows two different open tabs.
LayoutSane == Sane(page.layout)

\* A tab's channel belongs to its current attempt and to the socket that
\* attempt's effect holds; a typed credential waits only for the ticket of the
\* current attempt.
AttemptsAreCurrent ==
  \A t \in Tabs :
    LET s == page.session[t]
    IN  /\ s.channel # 0 => /\ s.channel = s.attempt /\ pane[t].effect = s.attempt
                            /\ pane[t].socket \in {"open", "closing"}
        /\ IsOpen(page, t) /\ page.secret[t] # 0 =>
             /\ page.secret[t] = s.attempt /\ s.wanted
             /\ pane[t].effect = s.attempt => pane[t].socket = "asking"

\* An open tab has at most one prompt; it is about the tab's current attempt,
\* and an answer can still have its effect: a host-key question has a socket,
\* a credential prompt a session that is not running.
PromptsAreAnswerable ==
  \A i \in DOMAIN page.prompts :
    LET p == page.prompts[i]
    IN  IsOpen(page, p.tab) =>
          /\ p.attempt = page.session[p.tab].attempt
          /\ \A j \in DOMAIN page.prompts : page.prompts[j].tab = p.tab => j = i
          /\ IF p.kind = "host-key"
               THEN pane[p.tab].effect = p.attempt /\ pane[p.tab].socket \in {"open", "closing"}
               ELSE ~Running(page.session[p.tab])

\* A tab waits for its authorization, or for its socket to close behind it.
Waiting(t) == \/ page.session[t].state = "authorizing"
              \/ page.session[t].closing /\ page.session[t].channel # 0

\* Whatever the server says or leaves unsaid, the workbench comes to rest again
\* and again: no tab waits for its authorization or for the socket behind a
\* closing tab, and no logout is under way.
TabsSettle == []<>((\A t \in Tabs : ~Waiting(t)) /\ logout \in {"no", "out"})
=============================================================================
