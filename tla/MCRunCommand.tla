---------------------------- MODULE MCRunCommand ----------------------------
(* The instance of RunCommand for TLC.                                     *)
EXTENDS RunCommand, TLC

MainRole == Main :> {"start", "execute", "shutdown", "close"}
=============================================================================
