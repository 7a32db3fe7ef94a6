------------------------ MODULE MCLinkStateFlooding ------------------------
(***************************************************************************)
(* Small networks for LinkStateFlooding.                                   *)
(***************************************************************************)
EXTENDS LinkStateFlooding, TLC

\* Three nodes that hear each other; node 3 may hear node 1 first.
Triangle == 1 :> {{2, 3}} @@ 2 :> {{1, 3}} @@ 3 :> {{1}, {1, 2}}
=============================================================================
