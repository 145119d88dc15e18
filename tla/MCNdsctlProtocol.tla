------------------------- MODULE MCNdsctlProtocol -------------------------
(* A small instance of NdsctlProtocol: two runs of ndsctl, each with one of  *)
(* these command lines, among them one whose parameter is too long for the   *)
(* request and one without the parameter it needs.                           *)
EXTENDS NdsctlProtocol

CommandLines ==
    {[name |-> "loglevel", param |-> <<"a", "b">>],
     [name |-> "block", param |-> <<"m">>],
     [name |-> "block", param |-> NULL],
     [name |-> "status", param |-> NULL],
     [name |-> "stop", param |-> NULL]}
===========================================================================
