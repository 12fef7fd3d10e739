--------------------------- MODULE ChainOwnership ---------------------------
(***************************************************************************)
(* The contract between IddCx and a driver about swap-chain objects: IddCx *)
(* offers a chain; the driver accepts it, and then deletes it at most once,*)
(* or refuses it, and then IddCx may offer it once more.                   *)
(***************************************************************************)
CONSTANT Chains

VARIABLE chain      \* "unused", "offered", "owned", "refused" or "deleted"

OwnershipInit == chain = [c \in Chains |-> "unused"]

Move(c, from, to) ==
  /\ chain[c] = from
  /\ chain' = [chain EXCEPT ![c] = to]

Offer(c) == Move(c, "unused", "offered") \/ Move(c, "refused", "offered")
Accept(c) == Move(c, "offered", "owned")
Refuse(c) == Move(c, "offered", "refused")
Delete(c) == Move(c, "owned", "deleted")

OwnershipNext ==
  \E c \in Chains : Offer(c) \/ Accept(c) \/ Refuse(c) \/ Delete(c)

OwnershipSpec == OwnershipInit /\ [][OwnershipNext]_chain
=============================================================================
