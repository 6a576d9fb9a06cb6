-------------------------- MODULE MCBrowserSession --------------------------
(* Small instances of BrowserSession: the cfgs give the constants.         *)
EXTENDS BrowserSession
=============================================================================
