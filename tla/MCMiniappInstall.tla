-------------------------- MODULE MCMiniappInstall --------------------------
(* MiniappInstall for TLC: version 1, and two builds of version 2.         *)
EXTENDS MiniappInstall, TLC

CONSTANTS one, two, twoB

MCPackages == {one, two, twoB}
MCVersion == one :> 1 @@ two :> 2 @@ twoB :> 2
=============================================================================
