---------------------------- MODULE BrowserLoginMC ----------------------------
(* An instance of BrowserLogin for TLC.                                      *)
EXTENDS BrowserLogin
===============================================================================
