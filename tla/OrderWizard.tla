----------------------------- MODULE OrderWizard -----------------------------
(***************************************************************************)
(* OrderWizardPage: the same order in steps, in one of three sequences     *)
(* (getModeSteps), over one form that survives a change of the sequence.   *)
(* The slot buttons come from an availability query for the duration of    *)
(* the chosen services, as far as they are listed: any slot may have been  *)
(* offered.  picked remembers the choices a slot was picked for.           *)
(***************************************************************************)
EXTENDS OrderForms, Sequences

CONSTANTS
  Workers,
  DaysOff         \* dates on which the branch is closed (isDateDayOff)

Modes == {"client-first", "time-first", "service-first"}

VARIABLES
  mode, step,
  form,         \* values of React Hook Form
  selectedDate, selectedWorkPostId,
  addingClient, \* POST /clients of the mounted StepBranchClient is under way
  addingVehicle,
  inFlight,     \* POST /orders under way
  busyShown,    \* isPending of the order as rendered
  picked        \* the last slot that was clicked, and the choices of then

wizard == <<mode, step, form, selectedDate, selectedWorkPostId, addingClient,
            addingVehicle, inFlight, busyShown, picked>>

\* getModeSteps.
Steps(m) ==
  CASE m = "client-first" ->
         <<"branch-client", "vehicle", "services", "worker", "time-slot", "review">>
    [] m = "time-first" ->
         <<"branch", "time-slot", "services", "client", "vehicle", "worker", "review">>
    [] m = "service-first" ->
         <<"branch", "services", "time-slot", "client", "vehicle", "worker", "review">>

\* The step that is shown; nothing of the form before a mode is chosen.
At(ids) == mode # None /\ Steps(mode)[step + 1] \in ids

\* A slot, and the choices whose change is to reset it.
Pick(f, d, p) == [start |-> f.start, post |-> f.post,
                  services |-> f.services, worker |-> f.worker, date |-> d, filter |-> p]

\* The reset of the slot: workPostId goes.  resetField('scheduledStart') does
\* nothing, the wizard registers no field: the start stays.
SlotReset(f) == [f EXCEPT !.post = None]

-----------------------------------------------------------------------------
ChooseMode(m) ==
  /\ mode = None
  /\ mode' = m /\ step' = 0
  /\ UNCHANGED <<form, selectedDate, selectedWorkPostId, addingClient, addingVehicle,
                 inFlight, busyShown, picked>>

\* "Choose how to start": the form stays.
LeaveMode ==
  /\ mode # None
  /\ mode' = None /\ step' = 0
  /\ addingClient' = FALSE /\ addingVehicle' = FALSE
  /\ UNCHANGED <<form, selectedDate, selectedWorkPostId, inFlight, busyShown, picked>>

\* Next of each step, with what disables it.
CanGoOn ==
  /\ At({"branch-client", "branch", "client"}) => form.branch # None
  /\ At({"branch-client", "client"}) => form.client # None
  /\ At({"vehicle"}) => form.vehicle # None
  /\ At({"services"}) => form.services # {}
  /\ At({"time-slot"}) => form.start # None /\ selectedDate \notin DaysOff
  /\ ~At({"review"})

\* onNext and onBack; the step that is left is unmounted, and the answers of
\* its mutations are not applied.  The client's steps have no Back.
Move ==
  /\ mode # None
  /\ \/ CanGoOn /\ step' = step + 1
     \/ step > 0 /\ ~At({"client"}) /\ step' = step - 1
  /\ addingClient' = FALSE /\ addingVehicle' = FALSE
  /\ UNCHANGED <<mode, form, selectedDate, selectedWorkPostId, inFlight, busyShown, picked>>

\* setValue of the fields that leave the slot alone.
ChooseField ==
  /\ \/ \E b \in Branches :
          At({"branch-client", "branch"}) /\ form' = [form EXCEPT !.branch = b]
     \/ \E c \in clients :
          /\ At({"branch-client", "client"}) /\ form.client = None
          /\ form' = [form EXCEPT !.client = c]
     \/ /\ At({"branch-client", "client"})
        /\ form' = [form EXCEPT !.client = None]
     \/ \E v \in Vehicles :
          /\ At({"vehicle"}) /\ form.client # None /\ owner[v] = form.client
          /\ form' = [form EXCEPT !.vehicle = v]
  /\ UNCHANGED <<mode, step, selectedDate, selectedWorkPostId, addingClient,
                 addingVehicle, inFlight, busyShown, picked>>

\* Mutant of ToggleWizardService: the post of the old duration stays.
ToggleWizardServiceKeepsPost(s) ==
  /\ At({"services"})
  /\ form' = [form EXCEPT !.services = (@ \ {s}) \cup ({s} \ @)]
  /\ UNCHANGED <<mode, step, selectedDate, selectedWorkPostId, addingClient,
                 addingVehicle, inFlight, busyShown, picked>>

\* toggleService.
ToggleWizardService(s) ==
  /\ At({"services"})
  /\ form' = SlotReset([form EXCEPT !.services = (@ \ {s}) \cup ({s} \ @)])
  /\ UNCHANGED <<mode, step, selectedDate, selectedWorkPostId, addingClient,
                 addingVehicle, inFlight, busyShown, picked>>

\* onWorkerChange; "any worker" too.
ChangeWorker(w) ==
  /\ At({"worker"})
  /\ form' = SlotReset([form EXCEPT !.worker = w])
  /\ UNCHANGED <<mode, step, selectedDate, selectedWorkPostId, addingClient,
                 addingVehicle, inFlight, busyShown, picked>>

\* onDateChange and onWorkPostFilterChange.
ChangeSchedule ==
  /\ At({"time-slot"})
  /\ \/ selectedDate' \in Dates /\ UNCHANGED selectedWorkPostId
     \/ selectedWorkPostId' \in Posts \cup {None} /\ UNCHANGED selectedDate
  /\ form' = SlotReset(form)
  /\ UNCHANGED <<mode, step, addingClient, addingVehicle, inFlight, busyShown, picked>>

\* onSlotSelect: one of the buttons.
SelectSlot(s, p) ==
  /\ At({"time-slot"}) /\ form.branch # None
  /\ selectedDate # None /\ selectedDate \notin DaysOff
  /\ selectedWorkPostId \in {None, p}
  /\ form' = [form EXCEPT !.start = s, !.post = p]
  /\ picked' = Pick(form', selectedDate, selectedWorkPostId)
  /\ UNCHANGED <<mode, step, selectedDate, selectedWorkPostId, addingClient,
                 addingVehicle, inFlight, busyShown>>

\* handleQuickCreateClient and handleQuickCreate.
SendNew ==
  /\ \/ /\ At({"branch-client", "client"}) /\ ~addingClient
        /\ addingClient' = TRUE /\ UNCHANGED addingVehicle
     \/ /\ At({"vehicle"}) /\ form.client # None /\ ~addingVehicle
        /\ addingVehicle' = TRUE /\ UNCHANGED addingClient
  /\ UNCHANGED <<mode, step, form, selectedDate, selectedWorkPostId, inFlight,
                 busyShown, picked>>

\* Their onSuccess: the new client or vehicle is taken, whatever was chosen.
NewClientTaken(c) ==
  /\ addingClient /\ ClientAdded(c) /\ addingClient' = FALSE
  /\ form' = [form EXCEPT !.client = c]
  /\ UNCHANGED <<mode, step, selectedDate, selectedWorkPostId, addingVehicle,
                 inFlight, busyShown, picked>>

NewVehicleTaken(v) ==
  /\ addingVehicle /\ VehicleAdded(v, form.client) /\ addingVehicle' = FALSE
  /\ form' = [form EXCEPT !.vehicle = v]
  /\ UNCHANGED <<mode, step, selectedDate, selectedWorkPostId, addingClient,
                 inFlight, busyShown, picked>>

NewRefused ==
  /\ addingClient \/ addingVehicle
  /\ addingClient' = FALSE /\ addingVehicle' = FALSE
  /\ UNCHANGED <<mode, step, form, selectedDate, selectedWorkPostId, inFlight,
                 busyShown, picked>>

\* createOrderSchema.
Complete == None \notin {form.branch, form.client, form.vehicle, form.start} /\ form.services # {}

\* handleSubmit(onSubmit): a form that is not complete is not sent.
Confirm ==
  /\ At({"review"}) /\ ~busyShown /\ Complete
  /\ inFlight < MaxFlight
  /\ inFlight' = inFlight + 1
  /\ UNCHANGED <<mode, step, form, selectedDate, selectedWorkPostId, addingClient,
                 addingVehicle, busyShown, picked>>

\* The order was refused; isPending is rendered a step later.
OrderRefused ==
  /\ inFlight > 0 /\ inFlight' = inFlight - 1
  /\ UNCHANGED <<mode, step, form, selectedDate, selectedWorkPostId, addingClient,
                 addingVehicle, busyShown, picked>>

ShowBusy ==
  /\ busyShown # (inFlight > 0) /\ busyShown' = (inFlight > 0)
  /\ UNCHANGED <<mode, step, form, selectedDate, selectedWorkPostId, addingClient,
                 addingVehicle, inFlight, picked>>

-----------------------------------------------------------------------------
\* hasPrefill: a link with branch, date and time starts with the time.
FirstMode == IF None \notin {link.branch, link.date, link.slot} THEN "time-first" ELSE None

EmptyForm == [branch |-> link.branch, client |-> None, vehicle |-> None,
              services |-> {}, worker |-> None, start |-> link.slot, post |-> link.post]

WizardInit ==
  /\ mode = FirstMode /\ step = 0
  /\ form = EmptyForm
  /\ selectedDate = link.date /\ selectedWorkPostId = link.post
  /\ addingClient = FALSE /\ addingVehicle = FALSE
  /\ inFlight = 0 /\ busyShown = FALSE /\ picked = None

WizardUnmount ==
  /\ mode' = FirstMode /\ step' = 0
  /\ form' = EmptyForm
  /\ selectedDate' = link.date /\ selectedWorkPostId' = link.post
  /\ addingClient' = FALSE /\ addingVehicle' = FALSE
  /\ inFlight' = 0 /\ busyShown' = FALSE /\ picked' = None

WizardNext ==
  \/ /\ \/ \E m \in Modes : ChooseMode(m)
        \/ LeaveMode \/ Move \/ ChooseField
        \/ \E s \in Services : ToggleWizardService(s)
        \/ \E w \in Workers \cup {None} : ChangeWorker(w)
        \/ ChangeSchedule
        \/ \E s \in Slots, p \in Posts : SelectSlot(s, p)
        \/ SendNew \/ NewRefused
        \/ Confirm \/ OrderRefused \/ ShowBusy
     /\ UNCHANGED <<clients, owner>>
  \/ \E c \in Clients : NewClientTaken(c) /\ UNCHANGED owner
  \/ \E v \in Vehicles : NewVehicleTaken(v) /\ UNCHANGED clients

-----------------------------------------------------------------------------
\* A post that the form names was picked together with the form's start, for
\* the services, the worker, the date and the filter the form has now, in
\* whatever sequence and with whatever returns to earlier steps it was filled
\* in, or both are the link's.  The start alone may be of earlier choices: it
\* goes out without a post, and the server looks for one.
PostFitsChoices ==
  form.post # None =>
    \/ picked = Pick(form, selectedDate, selectedWorkPostId)
    \/ form.post = link.post /\ form.start = link.slot
==============================================================================
