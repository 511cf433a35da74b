-------------------------------- MODULE MCVPX --------------------------------
(***************************************************************************)
(* Values for the constants of VPXVideoDecodeAccelerator that a cfg cannot *)
(* write down.                                                             *)
(***************************************************************************)
EXTENDS VPXVideoDecodeAccelerator

\* A stream of one size, and one whose size changes at the second buffer.
OneSize == [i \in Inputs |-> 1]
SizeChanges == [i \in Inputs |-> IF i = 1 THEN 1 ELSE 2]

NoFaults == {}
AllFaults == FaultKinds
DecodeFaults == {"decode"}
Abort == {"abort"}
=============================================================================
