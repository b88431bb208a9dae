-------------------------- MODULE MCBrowserClient --------------------------
(* TLC instances of BrowserClient. *)
EXTENDS BrowserClient
=============================================================================
