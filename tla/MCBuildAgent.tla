---------------------------- MODULE MCBuildAgent ----------------------------
(***************************************************************************)
(* Instances of BuildAgent for TLC.                                        *)
(***************************************************************************)
EXTENDS BuildAgentProperties

MCResults == [db : BOOLEAN, contract : BOOLEAN]
=============================================================================
