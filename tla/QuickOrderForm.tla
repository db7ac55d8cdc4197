--------------------------- MODULE QuickOrderForm ---------------------------
(***************************************************************************)
(* QuickOrderForm: branch, date, client, vehicle, services and slot on one *)
(* page, with StepVehicle for the vehicle and dialogs that create a client *)
(* or a vehicle.  While the person edits, answers come late, the lists and *)
(* the availability are fetched again and slots pass.                      *)
(*                                                                         *)
(* The state of a mutation is rendered one step after it changed (the      *)
(* query library notifies in a later task), a ref is seen at once.  A      *)
(* dialog is modal.  context, the counter that says whether the form was   *)
(* edited since a client was sent, is kept as newClient.same.              *)
(***************************************************************************)
EXTENDS OrderForms

CONSTANTS
  Answers,   \* sets of slots the server may offer
  Today,     \* branchDate(new Date())
  MaxClock,  \* bound on the clock
  MaxOutside \* bound on refetches and ticks of a visit

ASSUME QuickAssumption ==
  /\ Answers \subseteq SUBSET Slots
  /\ Today \in Dates
  /\ None \notin {"client", "vehicle"}

VARIABLES
  chosenBranch, chosenDate, client, vehicleId, serviceIds, chosenSlot,
  dialog,        \* the dialog that is open: "client", "vehicle" or None
  newClient,     \* POST /clients under way, or None
  newVehicle,    \* POST /vehicles under way, or None
  submitting,    \* the ref of that name
  pendingShown,  \* creation.isPending as rendered
  flight,        \* POST /orders under way
  slots,         \* the availability query the form observes
  listed,        \* active services and branches, as fetched
  listing,       \* servicesQuery or branchesQuery is fetching
  clock, now,    \* the time, and useNow's copy of it
  outside        \* refetches and ticks so far

choices == <<chosenBranch, chosenDate, client, vehicleId, serviceIds, chosenSlot>>
creating == <<dialog, newClient, newVehicle>>
sending == <<submitting, pendingShown, flight>>
queries == <<slots, listed, listing, clock, now, outside>>
quick == <<choices, creating, sending, queries>>

-----------------------------------------------------------------------------
(* What a render computes *)

ListedBranches == Branches \cap listed

\* branchId: the choice, or the only branch there is.
BranchId ==
  IF chosenBranch # None THEN chosenBranch
  ELSE IF Cardinality(ListedBranches) = 1 THEN CHOOSE b \in ListedBranches : TRUE
  ELSE None

Date == IF chosenDate # None THEN chosenDate
        ELSE IF BranchId \in listed THEN Today ELSE None

\* selectedServices: an id that is not listed any more has no duration here.
SelectedServices == serviceIds \cap listed

\* The parameters of useAvailability; None while the query is disabled.
SlotQuery ==
  IF SelectedServices = {} \/ BranchId \notin listed \/ Date = None THEN None
  ELSE [branch |-> BranchId, date |-> Date, minutes |-> TotalDuration(SelectedServices)]

Offered == {s \in slots.offered : s > now}

\* slot: the chosen one while it is offered, the earliest when none is chosen.
Slot == IF chosenSlot # None
        THEN IF chosenSlot \in Offered THEN chosenSlot ELSE None
        ELSE IF Offered = {} THEN None ELSE Min(Offered)

\* Mutant of Ready: services that have gone from the list are not noticed.
ReadyGoneServices ==
  /\ BranchId \in listed /\ client # None /\ vehicleId # None
  /\ SelectedServices # {} /\ Slot # None
  /\ slots.status = "fresh" /\ ~listing /\ ~pendingShown

Ready ==
  /\ BranchId \in listed /\ client # None /\ vehicleId # None
  /\ serviceIds = SelectedServices /\ SelectedServices # {} /\ Slot # None
  /\ slots.status = "fresh" /\ ~listing /\ ~pendingShown

\* useAvailability under another key: fetched, or taken from the cache.
Observed(k) ==
  IF k = None THEN {[for |-> None, offered |-> {}, status |-> "idle"]}
  ELSE {[for |-> k, offered |-> {}, status |-> "fetching"]}
       \cup [for : {k}, offered : Answers, status : {"fresh"}]

\* The query follows the form; last conjunct of every edit.
FollowQuery == IF SlotQuery' = slots.for THEN slots' = slots
               ELSE slots' \in Observed(SlotQuery')

-----------------------------------------------------------------------------
(* Edits *)

\* The page is there and no dialog covers it; disabled={creation.isPending}.
Editable == dialog = None /\ ~pendingShown

\* context.current += 1.
Bumped == IF newClient = None THEN None ELSE [newClient EXCEPT !.same = FALSE]

\* Mutant of StepVehicleGone: one StepVehicle serves every client.
StepVehicleReused == newVehicle

\* StepVehicle is keyed by the client: the one that is mounted goes.
StepVehicleGone ==
  IF newVehicle = None THEN None ELSE [newVehicle EXCEPT !.mounted = FALSE]

ChangeBranch(b) ==
  /\ Editable
  /\ chosenBranch' = b /\ chosenDate' = None
  /\ vehicleId' = None /\ chosenSlot' = None
  /\ newClient' = Bumped
  /\ UNCHANGED <<client, serviceIds, dialog, newVehicle, sending, listed, listing, clock, now, outside>>
  /\ FollowQuery

ChangeDate(d) ==
  /\ Editable /\ BranchId \in listed
  /\ chosenDate' = d /\ chosenSlot' = None
  /\ newClient' = Bumped
  /\ UNCHANGED <<chosenBranch, client, vehicleId, serviceIds, dialog, newVehicle,
                 sending, listed, listing, clock, now, outside>>
  /\ FollowQuery

TypeSearch ==
  /\ Editable
  /\ client' = None /\ vehicleId' = None
  /\ newClient' = Bumped /\ newVehicle' = StepVehicleGone
  /\ UNCHANGED <<chosenBranch, chosenDate, serviceIds, chosenSlot, dialog, sending, queries>>

\* selectClient.
SelectClient(c, v) ==
  /\ client' = c /\ vehicleId' = v
  /\ newClient' = Bumped
  /\ newVehicle' = IF c = client THEN newVehicle ELSE StepVehicleGone
  /\ UNCHANGED <<chosenBranch, chosenDate, serviceIds, chosenSlot, queries>>

\* A client, or a vehicle with its client, among the search results; the
\* results are not disabled while the order is being created.
PickFound ==
  /\ dialog = None /\ client = None
  /\ \/ \E c \in clients : SelectClient(c, None)
     \/ \E v \in Vehicles : owner[v] # None /\ SelectClient(owner[v], v)
  /\ UNCHANGED <<dialog, sending>>

PickVehicle(v) ==
  /\ Editable /\ client # None /\ owner[v] = client
  /\ vehicleId' = v
  /\ newClient' = Bumped
  /\ UNCHANGED <<chosenBranch, chosenDate, client, serviceIds, chosenSlot, dialog,
                 newVehicle, sending, queries>>

ToggleService(s) ==
  /\ Editable /\ s \in listed
  /\ serviceIds' = (serviceIds \ {s}) \cup ({s} \ serviceIds)
  /\ newClient' = Bumped
  /\ UNCHANGED <<chosenBranch, chosenDate, client, vehicleId, chosenSlot, dialog,
                 newVehicle, sending, listed, listing, clock, now, outside>>
  /\ FollowQuery

PickSlot(s) ==
  /\ Editable /\ s \in Offered /\ slots.status \in {"fresh", "stale"}
  /\ chosenSlot' = s
  /\ UNCHANGED <<chosenBranch, chosenDate, client, vehicleId, serviceIds, creating,
                 sending, queries>>

-----------------------------------------------------------------------------
(* The dialogs *)

\* The buttons; the one for a vehicle belongs to StepVehicle.
OpenDialog(d) ==
  /\ Editable
  /\ d = "vehicle" => client # None
  /\ dialog' = d
  /\ UNCHANGED <<choices, newClient, newVehicle, sending, queries>>

\* Escape, the overlay and Cancel are off once isPending has been rendered;
\* Cancel of the vehicle dialog is always on.
CloseDialog ==
  /\ dialog # None
  /\ dialog = "client" /\ newClient # None => ~newClient.shown
  /\ dialog' = None
  /\ UNCHANGED <<choices, newClient, newVehicle, sending, queries>>

\* The loading state of the client dialog is rendered.
ShowCreating ==
  /\ newClient # None /\ ~newClient.shown
  /\ newClient' = [newClient EXCEPT !.shown = TRUE]
  /\ UNCHANGED <<choices, dialog, newVehicle, sending, queries>>

SendClient ==
  /\ dialog = "client" /\ newClient = None
  /\ newClient' = [same |-> TRUE, was |-> client, shown |-> FALSE]
  /\ UNCHANGED <<choices, dialog, newVehicle, sending, queries>>

\* Mutant of ClientCreated: whenever it comes, the new client is selected.
ClientCreatedAlways(c) ==
  /\ newClient # None /\ ClientAdded(c)
  /\ client' = c /\ vehicleId' = None /\ newVehicle' = StepVehicleGone
  /\ newClient' = None
  /\ dialog' = IF dialog = "client" THEN None ELSE dialog
  /\ UNCHANGED <<chosenBranch, chosenDate, serviceIds, chosenSlot, sending, queries>>

\* onSuccess of clientCreation: the form must be as it was when it was sent.
ClientCreated(c) ==
  /\ newClient # None /\ ClientAdded(c)
  /\ IF newClient.same
     THEN client' = c /\ vehicleId' = None /\ newVehicle' = StepVehicleGone
     ELSE UNCHANGED <<client, vehicleId, newVehicle>>
  /\ newClient' = None
  /\ dialog' = IF dialog = "client" \/ newClient.same THEN None ELSE dialog
  /\ UNCHANGED <<chosenBranch, chosenDate, serviceIds, chosenSlot, sending, queries>>

\* handleQuickCreate.
SendVehicle ==
  /\ dialog = "vehicle" /\ newVehicle = None
  /\ newVehicle' = [client |-> client, mounted |-> TRUE]
  /\ UNCHANGED <<choices, dialog, newClient, sending, queries>>

\* onSuccess of the vehicle; its onVehicleChange is that of an older render,
\* so that creation.isPending is not the one of now.
VehicleCreated(v) ==
  /\ newVehicle # None /\ VehicleAdded(v, newVehicle.client)
  /\ newVehicle' = None
  /\ IF newVehicle.mounted
     THEN /\ vehicleId' = v /\ newClient' = Bumped
          /\ dialog' = IF dialog = "vehicle" THEN None ELSE dialog
     ELSE UNCHANGED <<vehicleId, newClient, dialog>>
  /\ UNCHANGED <<chosenBranch, chosenDate, client, serviceIds, chosenSlot, sending, queries>>

\* A creation is refused: the toast tells, the dialog stays as it is.
CreationFails ==
  /\ \/ newClient # None /\ newClient' = None /\ newVehicle' = newVehicle
     \/ newVehicle # None /\ newVehicle' = None /\ newClient' = newClient
  /\ UNCHANGED <<choices, dialog, sending, queries>>

-----------------------------------------------------------------------------
(* The order *)

\* Mutant of Submit: only the rendered state keeps a second click out.
SubmitNoRef ==
  /\ dialog = None /\ Ready /\ Slot > clock
  /\ flight < MaxFlight
  /\ submitting' = TRUE /\ flight' = flight + 1
  /\ UNCHANGED <<choices, creating, pendingShown, queries>>

Submit ==
  /\ dialog = None /\ Ready /\ ~submitting /\ Slot > clock
  /\ flight < MaxFlight
  /\ submitting' = TRUE /\ flight' = flight + 1
  /\ UNCHANGED <<choices, creating, pendingShown, queries>>

\* invalidateQueries of the availability.
Invalidated == IF slots.for = None THEN slots ELSE [slots EXCEPT !.status = "fetching"]

\* The answer, or an error: useCreateOrder's onSettled, then submit's.  After
\* an order the page is left, some time later.
PostAnswered ==
  /\ flight > 0
  /\ flight' = flight - 1 /\ submitting' = FALSE
  /\ slots' = Invalidated
  /\ UNCHANGED <<choices, creating, pendingShown, listed, listing, clock, now, outside>>

\* The component learns of a change of creation.isPending.
ShowPending ==
  /\ pendingShown # (flight > 0)
  /\ pendingShown' = (flight > 0)
  /\ UNCHANGED <<choices, creating, submitting, flight, queries>>

-----------------------------------------------------------------------------
(* Queries and the clock *)

Outside == outside < MaxOutside /\ outside' = outside + 1

\* staleTime and refetchInterval, both 30 s; and the events of useSocket.
SlotsExpire ==
  /\ slots.status \in {"fresh", "stale", "error"}
  /\ slots' \in {Invalidated, [slots EXCEPT !.status = IF @ = "fresh" THEN "stale" ELSE @]}
  /\ Outside
  /\ UNCHANGED <<choices, creating, sending, listed, listing, clock, now>>

\* fetchAvailability answers, or fails and the earlier answer stays.
SlotsArrive ==
  /\ slots.status = "fetching"
  /\ \/ slots' = [slots EXCEPT !.status = "error"]
     \/ \E o \in Answers : slots' = [slots EXCEPT !.status = "fresh", !.offered = o]
  /\ UNCHANGED <<choices, creating, sending, listed, listing, clock, now, outside>>

\* The services and the branches are fetched again and may have changed.
FetchLists ==
  /\ ~listing /\ listing' = TRUE
  /\ Outside
  /\ UNCHANGED <<choices, creating, sending, slots, listed, clock, now>>

ListsArrive ==
  /\ listing /\ listing' = FALSE
  /\ \E x \in Services \cup Branches : listed' \in {listed, listed \cup {x}, listed \ {x}}
  /\ UNCHANGED <<choices, creating, sending, clock, now, outside>>
  /\ FollowQuery

\* Time passes; useNow looks every 15 s.
Tick ==
  /\ clock < MaxClock /\ clock' = clock + 1
  /\ Outside
  /\ UNCHANGED <<choices, creating, sending, slots, listed, listing, now>>

LookAtClock ==
  /\ now # clock /\ now' = clock
  /\ UNCHANGED <<choices, creating, sending, slots, listed, listing, clock, outside>>

-----------------------------------------------------------------------------
\* The slot of the link counts when the link names its post too.
LinkedSlot == IF link.post # None THEN link.slot ELSE None

QuickInit ==
  /\ chosenBranch = link.branch /\ chosenDate = link.date /\ chosenSlot = LinkedSlot
  /\ client = None /\ vehicleId = None /\ serviceIds = {}
  /\ dialog = None /\ newClient = None /\ newVehicle = None
  /\ submitting = FALSE /\ pendingShown = FALSE
  /\ flight = 0
  /\ slots = [for |-> None, offered |-> {}, status |-> "idle"]
  /\ listed = Services \cup Branches /\ listing = FALSE
  /\ clock = 0 /\ now = 0 /\ outside = 0

\* The page is left: its state goes, what was sent is carried out without it.
QuickUnmount ==
  /\ chosenBranch' = link.branch /\ chosenDate' = link.date /\ chosenSlot' = LinkedSlot
  /\ client' = None /\ vehicleId' = None /\ serviceIds' = {}
  /\ dialog' = None /\ newClient' = None /\ newVehicle' = None
  /\ submitting' = FALSE /\ pendingShown' = FALSE /\ flight' = 0
  /\ slots' = [for |-> None, offered |-> {}, status |-> "idle"]
  /\ listed' = Services \cup Branches /\ listing' = FALSE
  /\ clock' = 0 /\ now' = 0 /\ outside' = 0

QuickNext ==
  \/ /\ \/ \E b \in ListedBranches : ChangeBranch(b)
        \/ \E d \in Dates : ChangeDate(d)
        \/ TypeSearch \/ PickFound
        \/ \E v \in Vehicles : PickVehicle(v)
        \/ \E s \in Services : ToggleService(s)
        \/ \E s \in Slots : PickSlot(s)
        \/ \E d \in {"client", "vehicle"} : OpenDialog(d)
        \/ CloseDialog \/ ShowCreating \/ SendClient \/ SendVehicle \/ CreationFails
        \/ Submit \/ PostAnswered \/ ShowPending
        \/ SlotsExpire \/ SlotsArrive \/ FetchLists \/ ListsArrive \/ Tick \/ LookAtClock
     /\ UNCHANGED <<clients, owner>>
  \/ \E c \in Clients : ClientCreated(c) /\ UNCHANGED owner
  \/ \E v \in Vehicles : VehicleCreated(v) /\ UNCHANGED clients

-----------------------------------------------------------------------------
(* Properties *)

\* An order is sent with a vehicle of its client, whatever creation of a
\* vehicle for another client was answered in between (StepVehicle is keyed
\* by the client and asks whether it is still mounted).
OwnVehicle == vehicleId # None => client # None /\ owner[vehicleId] = client

\* The slot that is sent was offered for the branch and the date that are
\* sent, and for a visit as long as all the services that are sent; a service
\* that was switched off while the form was open is not sent unseen.
PostsFittingSlot ==
  [][flight' > flight =>
       /\ slots.for = [branch |-> BranchId, date |-> Date, minutes |-> TotalDuration(serviceIds)]
       /\ Slot \in slots.offered]_quick

\* Two clicks before the button is redrawn send one order: never two POSTs
\* at a time, each with an idempotency key of its own.
OnePostAtATime == flight <= 1

\* The answer to a client that was created late never replaces a client that
\* was picked after it was sent.
LateClientKeepsPick ==
  [][newClient # None /\ clients' # clients /\ client' # client
       => client = newClient.was]_<<quick, desk>>
==============================================================================
