--------------------------- MODULE MCClientRecords ---------------------------
(* One phone number and one plate, so that every two bookings meet; one      *)
(* service, and one branch with one post.                                    *)
EXTENDS ClientRecords

MCBranchOf == [p \in Posts |-> CHOOSE b \in Branches : TRUE]
==============================================================================
