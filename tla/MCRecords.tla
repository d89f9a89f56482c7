------------------------------ MODULE MCRecords ------------------------------
(***************************************************************************)
(* Small instance of TailscaleImport, and with it of Records: up to four   *)
(* requests, one profile for the races of edits, two and room for a third  *)
(* for the lists, pages of one, two devices and two imports.               *)
(***************************************************************************)
EXTENDS TailscaleImport, TLC

CONSTANTS r1, r2, r3, r4, d1, d2, elsewhere

MCRequests == {r1, r2, r3, r4}

MCRow(host, name, method, port, persistence, secrets) ==
  [host |-> host, name |-> name, method |-> method, port |-> port, persistence |-> persistence,
   secrets |-> secrets, updated |-> 0, connected |-> 0]

PasswordRow == MCRow(elsewhere, "own", "password", 2222, "saved", {"password"})

Rows == {PasswordRow, MCRow(elsewhere, "own", "private_key", 22, "saved", {"private_key"}),
         MCRow(elsewhere, "own", "tailscale_ssh", 22, "saved", {}),
         MCRow(elsewhere, "own", "password", 22, "prompt", {})}

Start(a, b, c, d, rows) ==
  [kind |-> r1 :> a @@ r2 :> b @@ r3 :> c @@ r4 :> d, profiles |-> rows, now |-> 0]

\* What an earlier import has left.
DeviceRow(port) == MCRow(d1, "device", "password", port, "prompt", {})

\* Where the clock matters to nothing it has stopped.
Late(start) == [start EXCEPT !.now = MaxTime]

Two == 1 :> PasswordRow @@ 2 :> [PasswordRow EXCEPT !.host = d1]

\* Races of edits; lists while rows move, come and go; a panel between two
\* sessions; a list of commands that are pruned and cleared; imports of two
\* pages, and of one while profiles of its devices are made, changed and deleted.
MCStarts ==
  {Start("update", "update", "connect", "delete", 1 :> row) : row \in Rows} \cup
  {Start("create", "connect", "delete", "list_profiles", Two),
   Start("update", "update", "create", "list_profiles", Two),
   Start("connect", "connect", "none", "panel", 1 :> PasswordRow),
   Start("connect", "none", "list_commands", "panel", 1 :> PasswordRow),
   Late(Start("page", "page", "none", "none", <<>>)),
   Late(Start("page", "create", "delete", "none", <<>>)),
   Late(Start("page", "page", "update", "none", 1 :> DeviceRow(2222))),
   Late(Start("page", "page", "delete", "none", 1 :> DeviceRow(22)))}

MCNewRows ==
  {[host |-> elsewhere, name |-> "device", method |-> "password", port |-> 2222,
    persistence |-> "prompt"],
   [host |-> d2, name |-> "device", method |-> "tailscale_ssh", port |-> 22,
    persistence |-> "saved"]}

MCEdit(port, credential) ==
  [host |-> Nothing, name |-> Nothing, port |-> port, credential |-> credential]

MCEdits ==
  {[host |-> d1, name |-> "own", port |-> 2222, credential |-> Nothing],
   [host |-> Nothing, name |-> "own", port |-> Nothing, credential |-> Nothing],
   MCEdit(22, Credential("tailscale_ssh", "none", "keep")),
   MCEdit(Nothing, Credential("password", "prompt", "keep")),
   MCEdit(Nothing, Credential("password", "saved", "keep")),
   MCEdit(2222, Credential("private_key", "saved", "replace"))}

MCDevices == {d1, d2}
MCDiscoveries == {d1 :> TRUE @@ d2 :> TRUE, d1 :> TRUE @@ d2 :> FALSE}
MCWishes == {[method |-> "tailscale_ssh", port |-> 22]}
=============================================================================
