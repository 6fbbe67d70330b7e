--------------------------- MODULE MCContractResolver ---------------------------
(* Two requests share a key when their priorities agree; the third can be
   cancelled. *)
EXTENDS ContractResolver, TLC
CONSTANTS r1, r2, s1
MCRequests == {r1, r2, s1}
Wants(c) == [r \in MCRequests |-> IF r \in c THEN "completeness" ELSE "speed"]
MCModes == {Wants({}), Wants({r1, r2})}
MCSignalled == {s1}
MCSources == {"sourcify", "etherscan"}
MCOffer == "sourcify" :> [rank |-> 3, complete |-> TRUE] @@ "etherscan" :> [rank |-> 2, complete |-> TRUE]
MCRepo == [rank |-> 1, complete |-> FALSE]
=============================================================================
