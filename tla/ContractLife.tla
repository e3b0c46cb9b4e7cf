---------------------------- MODULE ContractLife ----------------------------
(***************************************************************************)
(* What the marketplace promises about contracts, and nothing of how: the  *)
(* contracts of one request come one after another.  A contract is formed  *)
(* once, when no other contract of its request is live, and what has ended *)
(* stays ended.                                                            *)
(***************************************************************************)
CONSTANTS
  Contracts,
  RequestOf     \* the request each contract is about

VARIABLE phase  \* of each contract: "none", "live" or "over"

Init == phase = [c \in Contracts |-> "none"]

Rivals(c) == {d \in Contracts \ {c} : RequestOf[d] = RequestOf[c]}

Form(c) ==
  /\ phase[c] = "none"
  /\ \A d \in Rivals(c) : phase[d] # "live"
  /\ phase' = [phase EXCEPT ![c] = "live"]

End(c) ==
  /\ phase[c] = "live"
  /\ phase' = [phase EXCEPT ![c] = "over"]

Next == \E c \in Contracts : Form(c) \/ End(c)

Spec == Init /\ [][Next]_phase
=============================================================================
