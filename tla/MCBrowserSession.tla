-------------------------- MODULE MCBrowserSession --------------------------
(***************************************************************************)
(* BrowserSession for TLC: two sessions and two ways to sign in.           *)
(***************************************************************************)
EXTENDS BrowserSession

CONSTANTS password, passkey
=============================================================================
