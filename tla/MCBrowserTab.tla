----------------------------- MODULE MCBrowserTab -----------------------------
(* An instance of BrowserTab for TLC.                                        *)
EXTENDS BrowserTab
=============================================================================
