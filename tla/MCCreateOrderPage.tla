-------------------------- MODULE MCCreateOrderPage --------------------------
(* One client with a vehicle and one that can be created; two services, two *)
(* slots, one of which passes.                                              *)
EXTENDS CreateOrderPage, TLC

CONSTANTS b1, d1, p1

MCSlots == {1, 2}
MCDuration == [s \in Services |-> 1]
ServiceSymmetry == Permutations(Services)
MCAnswers == {{1, 2}, {2}}
\* The link of a free slot in the schedule; LeaveMode and the edits reach the
\* states of a form that was opened without it.
MCLinks == { [branch |-> b1, date |-> d1, slot |-> 2, post |-> p1] }
==============================================================================
