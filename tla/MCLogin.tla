------------------------------ MODULE MCLogin ------------------------------
(***************************************************************************)
(* Small instance of Login: four request ids in a few mixes (password      *)
(* logins; the second factor; Google), two Google accounts, one of which   *)
(* takes over the other's address.                                         *)
(***************************************************************************)
EXTENDS Login, TLC

CONSTANTS r1, r2, r3, r4

MCRequests == {r1, r2, r3, r4}

Mix(a, b, c, d) == r1 :> a @@ r2 :> b @@ r3 :> c @@ r4 :> d

MCMixes == {
  Mix("login", "login", "state", "google_start"),
  Mix("login", "setup", "setup", "login"),
  Mix("login", "setup", "setup", "confirm"),
  Mix("login", "setup", "confirm", "login"),
  Mix("login", "setup", "disable", "login"),
  Mix("login", "setup", "confirm", "logout"),
  Mix("google_start", "google_start", "google_callback", "google_callback"),
  Mix("google_start", "google_callback", "google_cancel", "login")}

MCClaims == {<<"g1", "e1">>, <<"g1", "e2">>, <<"g2", "e1">>}
=============================================================================
