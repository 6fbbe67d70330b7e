------------------------ MODULE MCCrossChainDeposit ------------------------
(* Small instances of the cross-chain deposit for TLC.                        *)
EXTENDS CrossChainDeposit

CONSTANTS e1, e2, e3

MCExecs == {e1, e2, e3}
=============================================================================
