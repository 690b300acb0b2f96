-------------------------- MODULE MCBrowserSandbox --------------------------
(***************************************************************************)
(* Two plan executions of two steps each that name two session ids of the  *)
(* shared browser.                                                         *)
(***************************************************************************)
EXTENDS BrowserSandbox
=============================================================================
