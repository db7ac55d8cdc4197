--------------------------- MODULE CreateOrderPage ---------------------------
(***************************************************************************)
(* CreateOrderPage: the quick form, or the wizard when the link says       *)
(* mode=wizard.  The form that is not shown has no state.                  *)
(***************************************************************************)
EXTENDS QuickOrderForm, OrderWizard

VARIABLE page  \* "quick" or "wizard"

vars == <<desk, quick, wizard, page>>

Init ==
  /\ DeskInit /\ QuickInit /\ WizardInit
  /\ page \in {"quick", "wizard"}

\* The quick form's button "wizard": the query string is kept.
OpenWizard ==
  /\ page = "quick" /\ dialog = None
  /\ page' = "wizard"
  /\ QuickUnmount /\ UNCHANGED <<desk, wizard>>

\* Back, the browser's too, or the order was created; the menu opens the quick form again.
LeavePage ==
  /\ \/ page = "quick" /\ QuickUnmount /\ UNCHANGED wizard
     \/ page = "wizard" /\ WizardUnmount /\ UNCHANGED quick
  /\ page' = "quick"
  /\ UNCHANGED desk

Next ==
  \/ page = "quick" /\ QuickNext /\ UNCHANGED <<link, wizard, page>>
  \/ page = "wizard" /\ WizardNext /\ UNCHANGED <<link, quick, page>>
  \/ OpenWizard
  \/ LeavePage

Spec == Init /\ [][Next]_vars

==============================================================================
