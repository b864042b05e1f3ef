----------------------------- MODULE MCPsramPool -----------------------------
(* Instances of PsramPool for TLC: 4-byte blocks with a 1-byte header, so    *)
(* that a request of 3 bytes just fits one block and one of 4 needs two.     *)
EXTENDS PsramPool

ASSUME SizesFit == NoWrap
=============================================================================
