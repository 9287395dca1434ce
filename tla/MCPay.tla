-------------------------------- MODULE MCPay --------------------------------
(* Instances of Pay for TLC.                                               *)
EXTENDS PayProperties
=============================================================================
