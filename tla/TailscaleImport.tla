--------------------------- MODULE TailscaleImport ---------------------------
(***************************************************************************)
(* The import of Tailscale devices as profiles: the route of the Worker    *)
(* (http/tailscale.ts), which looks for profiles of the devices and then   *)
(* creates them one by one, the dialog that asks for it                    *)
(* (TailscaleImportDialog.tsx), and the list of profiles of the page       *)
(* around it (App.tsx).                                                    *)
(*                                                                         *)
(* Records says what everybody else does with the profiles meanwhile.      *)
(* A device is known by its host, which stands for the user name of the    *)
(* import as well; the Tailscale API is external.  Saving the name and the *)
(* token of the tailnet is left out.                                       *)
(***************************************************************************)
EXTENDS Records

CONSTANTS Devices,      \* hosts of the devices
          DisplayName,  \* the name of a device, which becomes the profile's: it is
                        \* taken from the host, so one stands for all
          Discoveries,  \* bound: answers of the API, [device -> authorized]
          Wishes,       \* bound: method and port an import may ask for
          MaxImports    \* bound

ASSUME ImportAssumption ==
  /\ Devices \subseteq Hosts /\ DisplayName \in Names /\ MaxImports \in Nat
  /\ \A found \in Discoveries : DOMAIN found \subseteq Devices
  /\ \A wish \in Wishes : /\ wish.method \in Method /\ wish.port \in Nat
                          /\ wish.method = "tailscale_ssh" => wish.port = 22

VARIABLES page,         \* the browser page of a request of that kind
          imports,      \* requests to import, in the order they were sent
          touched       \* history: hosts whose profiles others have changed

importVars == <<vars, page, imports, touched>>

\* What a page has: shown counts how often its list has got a profile from an
\* import; import is the import the dialog waits for.
NoPage == [shown |-> [p \in Profiles |-> 0], open |-> FALSE, import |-> 0]

SetPage(r, next) == page' = [page EXCEPT ![r] = next]
SetImport(i, next) == imports' = [imports EXCEPT ![i] = next]

Authorized(found) == {d \in DOMAIN found : found[d]}

\* Profiles that are this target of an import.
Targets(d, wish) == {p \in DOMAIN profiles : profiles[p].host = d /\ profiles[p].port = wish.port}

-----------------------------------------------------------------------------
(* The dialog.                                                              *)

OpenDialog(r) ==
  /\ ~page[r].open
  /\ SetPage(r, [page[r] EXCEPT !.open = TRUE])
  /\ UNCHANGED <<vars, imports, touched>>

\* The user selects authorized devices of the last discovery.
Submit(r) ==
  /\ page[r].open /\ page[r].import = 0 /\ Len(imports) < MaxImports
  /\ \E found \in Discoveries, wish \in Wishes :
       \E selected \in SUBSET Authorized(found) \ {{}} :
         imports' = Append(imports, [page |-> r, stage |-> "sent", wish |-> wish,
                                     todo |-> selected, wanted |-> {}, created |-> {},
                                     lost |-> FALSE])
  /\ SetPage(r, [page[r] EXCEPT !.import = Len(imports) + 1])
  /\ UNCHANGED <<vars, touched>>

\* The answer of the import is shown, its profiles are put into the list; or an
\* error is, and the user may try again.
HearImport(r) ==
  LET i == page[r].import
  IN  /\ i > 0 /\ imports[i].stage \in {"answered", "failed"}
      /\ SetPage(r, IF imports[i].stage = "failed" THEN [page[r] EXCEPT !.import = 0]
                    ELSE [page[r] EXCEPT
                           !.import = 0,
                           !.shown = [p \in Profiles |->
                                        IF p \in imports[i].created THEN @[p] + 1 ELSE @[p]]])
      /\ UNCHANGED <<vars, imports, touched>>

\* The connection breaks: the dialog shows an error, the server goes on.
LoseImport(r) ==
  LET i == page[r].import
  IN  /\ i > 0
      /\ SetImport(i, [imports[i] EXCEPT !.lost = TRUE])
      /\ SetPage(r, [page[r] EXCEPT !.import = 0])
      /\ UNCHANGED <<vars, touched>>

\* The dialog goes, and with it whatever it waits for.
Closed(r) == [page[r] EXCEPT !.open = FALSE, !.import = 0]

\* Faulty variant of CloseDialog: whenever the user likes.
CloseAnytime(r) ==
  /\ page[r].open
  /\ SetPage(r, Closed(r))
  /\ UNCHANGED <<vars, imports, touched>>

\* Not while an import is awaited (busyRef), by button or by key.
CloseDialog(r) ==
  /\ page[r].open /\ page[r].import = 0
  /\ SetPage(r, Closed(r))
  /\ UNCHANGED <<vars, imports, touched>>

-----------------------------------------------------------------------------
(* The route.                                                               *)

\* The answer is sent when nothing is left to do.
Going(import) == [import EXCEPT !.stage = IF import.todo = {} THEN "answered" ELSE "creating"]

\* The devices are discovered again, and the profiles looked up: those to be
\* made are of authorized devices that have none.
LookUp(i) ==
  LET import == imports[i]
  IN  /\ import.stage = "sent"
      /\ \E found \in Discoveries :
           LET wanted == import.todo \cap Authorized(found)
               new    == {d \in wanted : Targets(d, import.wish) = {}}
           IN  SetImport(i, Going([import EXCEPT !.wanted = wanted, !.todo = new]))
      /\ UNCHANGED <<vars, page, touched>>

\* The Tailscale API or the database fails, and the rest is not done.
BreakImport(i) ==
  /\ imports[i].stage \in {"sent", "creating"}
  /\ SetImport(i, [imports[i] EXCEPT !.stage = "failed"])
  /\ UNCHANGED <<vars, page, touched>>

\* A password or a key is asked for at each connection.
Imported(d, wish) ==
  Row([host |-> d, name |-> DisplayName, method |-> wish.method, port |-> wish.port,
       persistence |-> IF wish.method = "tailscale_ssh" THEN "saved" ELSE "prompt"])

\* Ids are made at random: one that anybody knows does not come again.
Fresh ==
  {p \in Profiles \ DOMAIN profiles : \A j \in DOMAIN imports : p \notin imports[j].created}

\* Faulty variant of CreateNext: the look was enough.
CreateUnchecked(i) ==
  LET import == imports[i]
  IN  /\ import.stage = "creating"
      /\ \E d \in import.todo, p \in Fresh :
           /\ Put(p, Imported(d, import.wish))
           /\ SetImport(i, Going([import EXCEPT !.todo = @ \ {d}, !.created = @ \cup {p}]))
      /\ UNCHANGED <<now, sessions, commands, req, panel, page, touched>>

\* One profile is made; the unique index may refuse it, and that ends the
\* import.
CreateNext(i) ==
  LET import == imports[i]
  IN  /\ import.stage = "creating"
      /\ \E d \in import.todo, p \in Fresh :
           IF Taken(p, Imported(d, import.wish))
             THEN SetImport(i, [import EXCEPT !.stage = "failed"]) /\ UNCHANGED profiles
             ELSE /\ Put(p, Imported(d, import.wish))
                  /\ SetImport(i, Going([import EXCEPT !.todo = @ \ {d}, !.created = @ \cup {p}]))
      /\ UNCHANGED <<now, sessions, commands, req, panel, page, touched>>

-----------------------------------------------------------------------------
ImportInit ==
  /\ Init
  /\ page = [r \in Requests |-> NoPage]
  /\ imports = <<>>
  /\ touched = {h \in Hosts : \E wish \in Wishes : \E p, q \in Targets(h, wish) : p # q}

\* What the table says of a host, and which hosts a step changes.
RowsOf(h) ==
  {<<p, Identity(profiles[p])>> : p \in {p \in DOMAIN profiles : profiles[p].host = h}}
Changed == {h \in Hosts : RowsOf(h)' # RowsOf(h)}

PageStep(r) ==
  \/ OpenDialog(r) \/ Submit(r) \/ HearImport(r) \/ LoseImport(r) \/ CloseDialog(r)

ImportNext ==
  \/ Next /\ touched' = touched \cup Changed /\ UNCHANGED <<page, imports>>
  \/ \E r \in Requests : req[r].kind = "page" /\ PageStep(r)
  \/ \E i \in DOMAIN imports : LookUp(i) \/ BreakImport(i) \/ CreateNext(i)

ImportSpec == ImportInit /\ [][ImportNext]_importVars

-----------------------------------------------------------------------------
(* What an import promises.                                                 *)

\* However imports overlap, are retried or break off, and whatever others do:
\* one that is answered leaves each device it was asked for, and that the
\* tailnet authorizes, with exactly one profile of its target.
ImportIsExact ==
  \A i \in DOMAIN imports : imports[i].stage = "answered" =>
    \A d \in imports[i].wanted \ touched :
      \E p \in DOMAIN profiles : Targets(d, imports[i].wish) = {p}

\* The page lists each profile of an import that it asked for once, unless the
\* answer was lost on the way: the dialog cannot be closed over it.
ImportIsShown ==
  \A i \in DOMAIN imports :
    LET r == imports[i].page
    IN  imports[i].stage = "answered" /\ ~imports[i].lost /\ page[r].import # i =>
         \A p \in imports[i].created : page[r].shown[p] = 1
=============================================================================
