---------------------------- MODULE MCAuthSession ----------------------------
(***************************************************************************)
(* AuthSession for TLC: two accounts, two calls at a time.                 *)
(***************************************************************************)
EXTENDS AuthSession, TLC

=============================================================================
