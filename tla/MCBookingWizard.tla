--------------------------- MODULE MCBookingWizard ---------------------------
(* A date with one slot, a service that changes its duration and one that   *)
(* leaves the list; a person who can choose, confirm, change the services,  *)
(* change them back and choose again.                                       *)
EXTENDS BookingWizard

CONSTANT Kept  \* the services that stay in the list

MCTimes == {1}

\* One service gets longer, or shorter, and the others leave the list, or come
\* back to it: the chosen services may take as long as before.
MCCatalogs == { [s \in Services |-> 1], [s \in Kept |-> 2] }
==============================================================================
