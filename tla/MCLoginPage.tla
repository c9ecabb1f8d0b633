---------------------------- MODULE MCLoginPage -----------------------------
(***************************************************************************)
(* Two password fields, as in login-update-password.ftl, and a window on   *)
(* either side of each breakpoint.                                         *)
(***************************************************************************)
EXTENDS LoginPage

MCWidths == {449, 450, 1023, 1024}
=============================================================================
