--------------------------- MODULE MCRunLifecycle ---------------------------
(***************************************************************************)
(* Two runs and three execute requests, three iterations for the code's    *)
(* twenty: a first, a middle and a last one.                               *)
(***************************************************************************)
EXTENDS RunLifecycle
=============================================================================
