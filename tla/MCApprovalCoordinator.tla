------------------------ MODULE MCApprovalCoordinator ------------------------
(* A small instance of ApprovalCoordinator: a hook whose approval times out *)
(* to a rejection, and a gate, of a provider whose approvals a reload       *)
(* drops, that times out to an approval.                                    *)
EXTENDS ApprovalCoordinator

CONSTANTS h1, g1

MCIds == {h1, g1}
MCHooks == {h1}
MCReloadable == {h1}
MCTimeout == [id \in Ids |-> IF id = g1 THEN "approve" ELSE "reject"]
=============================================================================
