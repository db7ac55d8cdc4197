----------------------- MODULE CreateOrderPageProofs -----------------------
(***************************************************************************)
(* What is proved about CreateOrderPage: what is sent with an order fits   *)
(* together, whatever was edited, answered and fetched while the form was  *)
(* open, for any sets of branches, clients, vehicles, services and slots,  *)
(* any answers of the server and any link.                                 *)
(***************************************************************************)
EXTENDS CreateOrderPage, WellFoundedInduction, TLAPS

(* The types of what the parts below reason about *)

\* The client and the vehicle of the quick form, and what is being created.
DeskTyped ==
  /\ owner \in [Vehicles -> Clients \cup {None}]
  /\ clients \subseteq Clients
  /\ client \in Clients \cup {None}
  /\ vehicleId \in Vehicles \cup {None}
  /\ newClient \in [same : BOOLEAN, was : Clients \cup {None}, shown : BOOLEAN] \cup {None}
  /\ newVehicle \in [client : Clients \cup {None}, mounted : BOOLEAN] \cup {None}

\* The vehicle is the client's, and so will be one that is being created from
\* the StepVehicle on the page: a dialog for a vehicle needs a client.
VehiclePart ==
  /\ OwnVehicle
  /\ dialog = "vehicle" => client # None
  /\ newVehicle # None /\ newVehicle.mounted => client # None /\ newVehicle.client = client

\* An unedited form still has the client it had when the new one was sent.
ClientPart == newClient # None /\ newClient.same => client = newClient.was

\* The ref is set for as long as a POST is under way.
PostPart ==
  /\ flight \in Nat /\ OnePostAtATime
  /\ flight > 0 => submitting = TRUE

\* The availability the form observes is that of its choices.
QueryPart ==
  /\ slots = [for |-> slots.for, offered |-> slots.offered, status |-> slots.status]
  /\ slots.offered \subseteq Slots
  /\ slots.for = SlotQuery

\* The wizard's form has its fields, and a picked post fits them.
WizardPart ==
  /\ form = [branch |-> form.branch, client |-> form.client, vehicle |-> form.vehicle,
             services |-> form.services, worker |-> form.worker, start |-> form.start,
             post |-> form.post]
  /\ form.client \in Clients \cup {None}
  /\ PostFitsChoices

\* The inductive invariant.
IInv == DeskTyped /\ VehiclePart /\ ClientPart /\ PostPart /\ QueryPart /\ WizardPart

-----------------------------------------------------------------------------
(* The earliest slot *)

\* The order on the slots as a relation.
LEMMA LessRelation == OpToRel(<, Nat) = {ss \in Nat \X Nat : ss[1] < ss[2]}
BY DEF OpToRel

\* The earliest of a set of slots is one of them.
LEMMA MinInSet ==
  ASSUME NEW S \in SUBSET Nat, S # {}
  PROVE  Min(S) \in S
<1> DEFINE R == OpToRel(<, Nat)
<1>0. IsWellFoundedOn(R, Nat)
  BY NatLessThanWellFounded
<1>r. \A x, y \in Nat : x < y => <<x, y>> \in R
  BY LessRelation
<1> HIDE DEF R
<1>1. PICK x \in S : \A y \in S : ~(<<y, x>> \in R)
  BY <1>0, WFMin
<1>s. x \in Nat
  OBVIOUS
<1>2. ASSUME NEW y \in S PROVE x <= y
  <2>1. y \in Nat
    OBVIOUS
  <2>2. ~(y < x)
    BY <1>1, <1>r, <1>s, <2>1
  <2>q. QED BY <2>1, <2>2, <1>s
<1>q. QED BY <1>1, <1>2 DEF Min

\* A slot that is shown is one of those the server offered.
LEMMA SlotIsOffered ==
  ASSUME slots.offered \subseteq Slots, Slot # None
  PROVE  Slot \in slots.offered
<1>1. CASE chosenSlot # None
  BY <1>1 DEF Slot, Offered
<1>2. CASE chosenSlot = None
  <2>1. Offered # {} /\ Slot = Min(Offered)
    BY <1>2 DEF Slot
  <2>2. Offered \subseteq slots.offered
    BY DEF Offered
  <2>3. Offered \in SUBSET Nat
    BY <2>2, FormsAssumption
  <2>4. Min(Offered) \in Offered
    BY <2>1, <2>3, MinInSet
  <2>q. QED BY <2>1, <2>2, <2>4
<1>q. QED BY <1>1, <1>2

-----------------------------------------------------------------------------
(* The availability query *)

\* The query depends on four pieces of state only.
LEMMA SameQuery ==
  ASSUME UNCHANGED <<chosenBranch, chosenDate, serviceIds, listed>>
  PROVE  SlotQuery' = SlotQuery
BY DEF SlotQuery, SelectedServices, BranchId, ListedBranches, Date

\* Following the query brings its slots.
LEMMA FollowingQuery ==
  ASSUME QueryPart, FollowQuery
  PROVE  QueryPart'
<1>1. CASE SlotQuery' = slots.for
  BY <1>1 DEF FollowQuery, QueryPart
<1>2. CASE SlotQuery' # slots.for
  <2> DEFINE k == SlotQuery'
  <2>1. slots' \in Observed(k)
    BY <1>2 DEF FollowQuery
  <2> HIDE DEF k
  <2>2. slots' = [for |-> slots'.for, offered |-> slots'.offered, status |-> slots'.status]
        /\ slots'.offered \subseteq Slots /\ slots'.for = k
    BY <2>1, QuickAssumption DEF Observed
  <2>q. QED BY <2>2 DEF QueryPart, k
<1>q. QED BY <1>1, <1>2

\* Slots that arrive or grow stale stay those of the query.
LEMMA SlotsOfQuery ==
  ASSUME QueryPart, UNCHANGED <<chosenBranch, chosenDate, serviceIds, listed>>,
         NEW st, NEW o \in SUBSET Slots,
         \/ slots' = [slots EXCEPT !.status = st]
         \/ slots' = [slots EXCEPT !.status = st, !.offered = o]
  PROVE  QueryPart'
<1>1. SlotQuery' = SlotQuery
  BY SameQuery
<1>2. \/ slots' = [for |-> slots.for, offered |-> slots.offered, status |-> st]
      \/ slots' = [for |-> slots.for, offered |-> o, status |-> st]
  BY DEF QueryPart
<1>3. slots' = [for |-> slots'.for, offered |-> slots'.offered, status |-> slots'.status]
      /\ slots'.offered \subseteq Slots /\ slots'.for = slots.for
  BY <1>2 DEF QueryPart
<1>q. QED BY <1>1, <1>3 DEF QueryPart

-----------------------------------------------------------------------------
(* The steps of the quick form *)

\* StepVehicle and the counter of edits: what they leave of a creation.
LEMMA Creating ==
  ASSUME DeskTyped
  PROVE  /\ Bumped \in [same : BOOLEAN, was : Clients \cup {None}, shown : BOOLEAN] \cup {None}
         /\ Bumped # None => Bumped.same = FALSE
         /\ StepVehicleGone \in [client : Clients \cup {None}, mounted : BOOLEAN] \cup {None}
         /\ StepVehicleGone # None => StepVehicleGone.mounted = FALSE
<1>1. /\ Bumped \in [same : BOOLEAN, was : Clients \cup {None}, shown : BOOLEAN] \cup {None}
      /\ Bumped # None => Bumped.same = FALSE
  <2>1. CASE newClient = None
    BY <2>1 DEF Bumped
  <2>2. CASE newClient # None
    BY <2>2 DEF DeskTyped, Bumped
  <2>q. QED BY <2>1, <2>2
<1>2. /\ StepVehicleGone \in [client : Clients \cup {None}, mounted : BOOLEAN] \cup {None}
      /\ StepVehicleGone # None => StepVehicleGone.mounted = FALSE
  <2>1. CASE newVehicle = None
    BY <2>1 DEF StepVehicleGone
  <2>2. CASE newVehicle # None
    BY <2>2 DEF DeskTyped, StepVehicleGone
  <2>q. QED BY <2>1, <2>2
<1>q. QED BY <1>1, <1>2

\* An edit that leaves the client and the vehicle alone.
LEMMA EditKeepsPair ==
  ASSUME DeskTyped, VehiclePart, ClientPart,
         UNCHANGED <<owner, clients, client, vehicleId, dialog, newVehicle>>,
         newClient' = newClient \/ newClient' = Bumped
  PROVE  DeskTyped' /\ VehiclePart' /\ ClientPart'
<1>1. DeskTyped'
  BY Creating DEF DeskTyped
<1>2. VehiclePart'
  BY DEF VehiclePart, OwnVehicle
<1>3. ClientPart'
  <2>1. CASE newClient' = newClient
    BY <2>1 DEF ClientPart
  <2>2. CASE newClient' = Bumped
    BY <2>2, Creating DEF ClientPart
  <2>q. QED BY <2>1, <2>2
<1>q. QED BY <1>1, <1>2, <1>3

\* The client is another one, or the search box is used again.
LEMMA OtherClient ==
  ASSUME DeskTyped, VehiclePart, UNCHANGED <<owner, clients, dialog>>,
         TypeSearch \/ PickFound
  PROVE  DeskTyped' /\ VehiclePart' /\ ClientPart'
<1>1. CASE TypeSearch
  <2>1. client' = None /\ vehicleId' = None /\ newClient' = Bumped /\ newVehicle' = StepVehicleGone
        /\ dialog = None
    BY <1>1 DEF TypeSearch, Editable
  <2>2. DeskTyped'
    BY <2>1, Creating DEF DeskTyped
  <2>3. VehiclePart'
    BY <2>1, Creating, QuickAssumption DEF VehiclePart, OwnVehicle
  <2>4. ClientPart'
    BY <2>1, Creating DEF ClientPart
  <2>q. QED BY <2>2, <2>3, <2>4
<1>2. CASE PickFound
  <2>1. PICK c \in Clients, v \in Vehicles \cup {None} :
          SelectClient(c, v) /\ (v # None => owner[v] = c)
    BY <1>2 DEF PickFound, DeskTyped
  <2>2. client' = c /\ vehicleId' = v /\ newClient' = Bumped
        /\ (newVehicle' = newVehicle \/ newVehicle' = StepVehicleGone)
        /\ (c # client => newVehicle' = StepVehicleGone)
    BY <2>1 DEF SelectClient
  <2>3. c # None
    BY FormsAssumption
  <2>4. DeskTyped'
    BY <2>2, Creating DEF DeskTyped
  <2>5. VehiclePart'
    BY <2>1, <2>2, <2>3, Creating DEF VehiclePart, OwnVehicle
  <2>6. ClientPart'
    BY <2>2, Creating DEF ClientPart
  <2>q. QED BY <2>4, <2>5, <2>6
<1>q. QED BY <1>1, <1>2

\* A client is sent, drawn as being created, refused or added.
LEMMA NewClientKeepsPair ==
  ASSUME DeskTyped, VehiclePart, ClientPart,
         \/ (ShowCreating \/ SendClient) /\ UNCHANGED <<clients, owner>>
         \/ \E c \in Clients : ClientCreated(c) /\ UNCHANGED owner
  PROVE  DeskTyped' /\ VehiclePart' /\ ClientPart'
<1>1. CASE ShowCreating /\ UNCHANGED <<clients, owner>>
  <2>1. /\ newClient' \in [same : BOOLEAN, was : Clients \cup {None}, shown : BOOLEAN]
        /\ newClient'.same = newClient.same /\ newClient'.was = newClient.was /\ newClient # None
        /\ UNCHANGED <<clients, owner, client, vehicleId, newVehicle, dialog>>
    BY <1>1 DEF ShowCreating, DeskTyped, choices
  <2>2. DeskTyped'
    BY <2>1 DEF DeskTyped
  <2>3. VehiclePart'
    BY <2>1 DEF VehiclePart, OwnVehicle
  <2>4. ClientPart'
    BY <2>1 DEF ClientPart
  <2>q. QED BY <2>2, <2>3, <2>4
<1>2. CASE SendClient /\ UNCHANGED <<clients, owner>>
  <2>1. /\ newClient' = [same |-> TRUE, was |-> client, shown |-> FALSE]
        /\ UNCHANGED <<clients, owner, client, vehicleId, newVehicle, dialog>>
    BY <1>2 DEF SendClient, choices
  <2>2. DeskTyped'
    BY <2>1 DEF DeskTyped
  <2>3. VehiclePart'
    BY <2>1 DEF VehiclePart, OwnVehicle
  <2>4. ClientPart'
    BY <2>1 DEF ClientPart
  <2>q. QED BY <2>2, <2>3, <2>4
<1>3. ASSUME NEW c \in Clients, ClientCreated(c), UNCHANGED owner
      PROVE  DeskTyped' /\ VehiclePart' /\ ClientPart'
  <2>1. newClient' = None /\ clients' \subseteq Clients /\ (dialog' = None \/ dialog' = dialog)
    BY <1>3 DEF ClientCreated, ClientAdded, DeskTyped
  <2>2. ClientPart'
    BY <2>1 DEF ClientPart
  <2>3. CASE newClient.same
    <3>1. client' = c /\ vehicleId' = None /\ newVehicle' = StepVehicleGone
      BY <1>3, <2>3 DEF ClientCreated
    <3>2. DeskTyped'
      BY <1>3, <2>1, <3>1, Creating DEF DeskTyped
    <3>3. VehiclePart'
      BY <3>1, Creating, FormsAssumption DEF VehiclePart, OwnVehicle
    <3>q. QED BY <2>2, <3>2, <3>3
  <2>4. CASE ~newClient.same
    <3>1. UNCHANGED <<client, vehicleId, newVehicle>>
      BY <1>3, <2>4 DEF ClientCreated
    <3>2. DeskTyped'
      BY <1>3, <2>1, <3>1 DEF DeskTyped
    <3>3. VehiclePart'
      BY <1>3, <2>1, <3>1, QuickAssumption DEF VehiclePart, OwnVehicle
    <3>q. QED BY <2>2, <3>2, <3>3
  <2>q. QED BY <2>3, <2>4
<1>q. QED BY <1>1, <1>2, <1>3

\* A vehicle is sent or added, for the client of the StepVehicle it is from;
\* no vehicle of a client becomes another's.
LEMMA NewVehicleKeepsPair ==
  ASSUME DeskTyped, VehiclePart, ClientPart,
         \/ SendVehicle /\ UNCHANGED <<clients, owner>>
         \/ \E v \in Vehicles : VehicleCreated(v) /\ UNCHANGED clients
  PROVE  DeskTyped' /\ VehiclePart' /\ ClientPart'
<1>1. CASE SendVehicle /\ UNCHANGED <<clients, owner>>
  <2>1. /\ newVehicle' = [client |-> client, mounted |-> TRUE] /\ dialog = "vehicle"
        /\ UNCHANGED <<clients, owner, client, vehicleId, newClient, dialog>>
    BY <1>1 DEF SendVehicle, choices
  <2>2. DeskTyped'
    BY <2>1 DEF DeskTyped
  <2>3. VehiclePart'
    BY <2>1 DEF VehiclePart, OwnVehicle
  <2>4. ClientPart'
    BY <2>1 DEF ClientPart
  <2>q. QED BY <2>2, <2>3, <2>4
<1>2. ASSUME NEW v \in Vehicles, VehicleCreated(v), UNCHANGED clients
      PROVE  DeskTyped' /\ VehiclePart' /\ ClientPart'
  <2>1. /\ newVehicle # None /\ newVehicle' = None /\ owner[v] = None
        /\ owner' = [owner EXCEPT ![v] = newVehicle.client] /\ client' = client
        /\ dialog' = None \/ dialog' = dialog
    BY <1>2 DEF VehicleCreated, VehicleAdded
  <2>2. newVehicle.client \in Clients \cup {None}
    BY <2>1 DEF DeskTyped
  <2>3. \A w \in Vehicles : owner[w] # None => owner'[w] = owner[w]
    BY <2>1 DEF DeskTyped
  <2>4. CASE newVehicle.mounted
    <3>1. vehicleId' = v /\ newClient' = Bumped
      BY <1>2, <2>4 DEF VehicleCreated
    <3>2. DeskTyped'
      BY <1>2, <2>1, <2>2, <3>1, Creating DEF DeskTyped
    <3>3. owner'[v] = client /\ client # None
      BY <2>1, <2>4 DEF DeskTyped, VehiclePart
    <3>4. VehiclePart'
      BY <2>1, <3>1, <3>3, QuickAssumption DEF VehiclePart, OwnVehicle
    <3>5. ClientPart'
      BY <3>1, Creating DEF ClientPart
    <3>q. QED BY <3>2, <3>4, <3>5
  <2>5. CASE ~newVehicle.mounted
    <3>1. UNCHANGED <<vehicleId, newClient, dialog>>
      BY <1>2, <2>5 DEF VehicleCreated
    <3>2. DeskTyped'
      BY <1>2, <2>1, <2>2, <3>1 DEF DeskTyped
    <3>3. VehiclePart'
      BY <2>1, <2>3, <3>1, FormsAssumption DEF VehiclePart, OwnVehicle, DeskTyped
    <3>4. ClientPart'
      BY <2>1, <3>1 DEF ClientPart
    <3>q. QED BY <3>2, <3>3, <3>4
  <2>q. QED BY <2>4, <2>5
<1>q. QED BY <1>1, <1>2

\* A creation that is refused is forgotten.
LEMMA RefusalKeepsPair ==
  ASSUME DeskTyped, VehiclePart, ClientPart, CreationFails, UNCHANGED <<clients, owner>>
  PROVE  DeskTyped' /\ VehiclePart' /\ ClientPart'
<1>1. /\ UNCHANGED <<client, vehicleId, dialog>>
      /\ newClient' \in {None, newClient} /\ newVehicle' \in {None, newVehicle}
  BY DEF CreationFails, choices
<1>2. DeskTyped'
  BY <1>1 DEF DeskTyped
<1>3. VehiclePart'
  BY <1>1 DEF VehiclePart, OwnVehicle
<1>4. ClientPart'
  BY <1>1 DEF ClientPart
<1>q. QED BY <1>2, <1>3, <1>4

\* Every step of the quick form keeps the pair of client and vehicle.
LEMMA QuickKeepsPair ==
  ASSUME DeskTyped, VehiclePart, ClientPart, QuickNext
  PROVE  DeskTyped' /\ VehiclePart' /\ ClientPart'
<1> DEFINE Goal == DeskTyped' /\ VehiclePart' /\ ClientPart'
<1>1. ASSUME UNCHANGED <<clients, owner>>, NEW b \in ListedBranches, ChangeBranch(b)  PROVE Goal
  <2>1. UNCHANGED <<client, dialog, newVehicle>> /\ vehicleId' = None /\ newClient' = Bumped
    BY <1>1 DEF ChangeBranch
  <2>2. DeskTyped'
    BY <1>1, <2>1, Creating DEF DeskTyped
  <2>3. VehiclePart'
    BY <1>1, <2>1 DEF VehiclePart, OwnVehicle
  <2>4. ClientPart'
    BY <2>1, Creating DEF ClientPart
  <2>q. QED BY <2>2, <2>3, <2>4
<1>2. ASSUME UNCHANGED <<clients, owner>>, NEW d \in Dates, ChangeDate(d)  PROVE Goal
  BY <1>2, EditKeepsPair DEF ChangeDate
<1>3. ASSUME UNCHANGED <<clients, owner>>, TypeSearch  PROVE Goal
  BY <1>3, OtherClient DEF TypeSearch
<1>4. ASSUME UNCHANGED <<clients, owner>>, PickFound  PROVE Goal
  BY <1>4, OtherClient DEF PickFound
<1>5. ASSUME UNCHANGED <<clients, owner>>, NEW v \in Vehicles, PickVehicle(v)  PROVE Goal
  <2>1. /\ UNCHANGED <<client, dialog, newVehicle>> /\ vehicleId' = v /\ newClient' = Bumped
        /\ client # None /\ owner[v] = client
    BY <1>5 DEF PickVehicle
  <2>2. DeskTyped'
    BY <1>5, <2>1, Creating DEF DeskTyped
  <2>3. VehiclePart'
    BY <1>5, <2>1 DEF VehiclePart, OwnVehicle
  <2>4. ClientPart'
    BY <2>1, Creating DEF ClientPart
  <2>q. QED BY <2>2, <2>3, <2>4
<1>6. ASSUME UNCHANGED <<clients, owner>>, NEW s \in Services, ToggleService(s)  PROVE Goal
  BY <1>6, EditKeepsPair DEF ToggleService
<1>7. ASSUME UNCHANGED <<clients, owner>>, NEW s \in Slots, PickSlot(s)  PROVE Goal
  BY <1>7, EditKeepsPair DEF PickSlot, creating
<1>8. ASSUME UNCHANGED <<clients, owner>>, NEW d \in {"client", "vehicle"}, OpenDialog(d)
      PROVE Goal
  <2>1. UNCHANGED <<client, vehicleId, newVehicle, newClient>> /\ (dialog' = "vehicle" => client # None)
    BY <1>8 DEF OpenDialog, choices
  <2>2. DeskTyped'
    BY <1>8, <2>1 DEF DeskTyped
  <2>3. VehiclePart'
    BY <1>8, <2>1 DEF VehiclePart, OwnVehicle
  <2>4. ClientPart'
    BY <2>1 DEF ClientPart
  <2>q. QED BY <2>2, <2>3, <2>4
<1>9. ASSUME UNCHANGED <<clients, owner>>, CloseDialog  PROVE Goal
  <2>1. UNCHANGED <<client, vehicleId, newVehicle, newClient>> /\ dialog' = None
    BY <1>9 DEF CloseDialog, choices
  <2>2. DeskTyped'
    BY <1>9, <2>1 DEF DeskTyped
  <2>3. VehiclePart'
    BY <1>9, <2>1, QuickAssumption DEF VehiclePart, OwnVehicle
  <2>4. ClientPart'
    BY <2>1 DEF ClientPart
  <2>q. QED BY <2>2, <2>3, <2>4
<1>10. ASSUME UNCHANGED <<clients, owner>>, ShowCreating \/ SendClient  PROVE Goal
  BY <1>10, NewClientKeepsPair
<1>11. ASSUME UNCHANGED <<clients, owner>>, SendVehicle  PROVE Goal
  BY <1>11, NewVehicleKeepsPair
<1>12. ASSUME UNCHANGED <<clients, owner>>, CreationFails  PROVE Goal
  BY <1>12, RefusalKeepsPair
<1>13. ASSUME UNCHANGED <<clients, owner>>,
              Submit \/ PostAnswered \/ ShowPending \/ SlotsExpire \/ SlotsArrive \/ FetchLists
                \/ ListsArrive \/ Tick \/ LookAtClock
       PROVE Goal
  <2>1. UNCHANGED <<client, vehicleId, dialog, newClient, newVehicle>>
    BY <1>13 DEF Submit, PostAnswered, ShowPending, SlotsExpire, SlotsArrive, FetchLists,
                 ListsArrive, Tick, LookAtClock, choices, creating
  <2>q. QED BY <1>13, <2>1, EditKeepsPair
<1>14. ASSUME NEW c \in Clients, ClientCreated(c) /\ UNCHANGED owner  PROVE Goal
  BY <1>14, NewClientKeepsPair
<1>15. ASSUME NEW v \in Vehicles, VehicleCreated(v) /\ UNCHANGED clients  PROVE Goal
  BY <1>15, NewVehicleKeepsPair
<1>q. QED
  BY <1>1, <1>2, <1>3, <1>4, <1>5, <1>6, <1>7, <1>8, <1>9, <1>10, <1>11, <1>12, <1>13, <1>14,
     <1>15 DEF QuickNext

\* Every step of the quick form keeps the ref with the POST under way.
LEMMA QuickKeepsPost ==
  ASSUME PostPart, QuickNext
  PROVE  PostPart'
<1>1. CASE Submit
  BY <1>1 DEF Submit, PostPart, OnePostAtATime
<1>2. CASE PostAnswered
  BY <1>2 DEF PostAnswered, PostPart, OnePostAtATime
<1>3. CASE UNCHANGED <<submitting, flight>>
  BY <1>3 DEF PostPart, OnePostAtATime
<1>4. Submit \/ PostAnswered \/ UNCHANGED <<submitting, flight>>
  BY DEF QuickNext, ChangeBranch, ChangeDate, TypeSearch, PickFound, PickVehicle, ToggleService,
         PickSlot, OpenDialog, CloseDialog, ShowCreating, SendClient, SendVehicle, CreationFails,
         ShowPending, SlotsExpire, SlotsArrive, FetchLists, ListsArrive, Tick, LookAtClock,
         ClientCreated, VehicleCreated, sending
<1>q. QED BY <1>1, <1>2, <1>3, <1>4

\* Every step of the quick form leaves the availability that of its choices.
LEMMA QuickKeepsQuery ==
  ASSUME QueryPart, QuickNext
  PROVE  QueryPart'
<1>1. ASSUME \/ \E b \in ListedBranches : ChangeBranch(b)
             \/ \E d \in Dates : ChangeDate(d)
             \/ \E s \in Services : ToggleService(s)
             \/ ListsArrive
      PROVE  QueryPart'
  BY <1>1, FollowingQuery DEF ChangeBranch, ChangeDate, ToggleService, ListsArrive
<1>2. CASE PostAnswered
  <2>1. slots' = slots \/ slots' = [slots EXCEPT !.status = "fetching"]
    BY <1>2 DEF PostAnswered, Invalidated
  <2>2. UNCHANGED <<chosenBranch, chosenDate, serviceIds, listed>>
    BY <1>2 DEF PostAnswered, choices
  <2>q. QED BY <2>1, <2>2, SameQuery, SlotsOfQuery DEF QueryPart
<1>3. CASE SlotsExpire
  <2>1. \E st : slots' = slots \/ slots' = [slots EXCEPT !.status = st]
    BY <1>3 DEF SlotsExpire, Invalidated
  <2>2. UNCHANGED <<chosenBranch, chosenDate, serviceIds, listed>>
    BY <1>3 DEF SlotsExpire, choices
  <2>q. QED BY <2>1, <2>2, SameQuery, SlotsOfQuery DEF QueryPart
<1>4. CASE SlotsArrive
  <2>1. \/ slots' = [slots EXCEPT !.status = "error"]
        \/ \E o \in SUBSET Slots : slots' = [slots EXCEPT !.status = "fresh", !.offered = o]
    BY <1>4, QuickAssumption DEF SlotsArrive
  <2>2. UNCHANGED <<chosenBranch, chosenDate, serviceIds, listed>>
    BY <1>4 DEF SlotsArrive, choices
  <2>q. QED BY <2>1, <2>2, SlotsOfQuery
<1>5. CASE UNCHANGED <<chosenBranch, chosenDate, serviceIds, listed, slots>>
  BY <1>5, SameQuery DEF QueryPart
<1>6. \/ \E b \in ListedBranches : ChangeBranch(b)
      \/ \E d \in Dates : ChangeDate(d)
      \/ \E s \in Services : ToggleService(s)
      \/ ListsArrive \/ PostAnswered \/ SlotsExpire \/ SlotsArrive
      \/ UNCHANGED <<chosenBranch, chosenDate, serviceIds, listed, slots>>
  BY DEF QuickNext, TypeSearch, PickFound, SelectClient, PickVehicle, PickSlot, OpenDialog,
         CloseDialog, ShowCreating, SendClient, SendVehicle, CreationFails, Submit, ShowPending,
         FetchLists, Tick, LookAtClock, ClientCreated, VehicleCreated, choices, queries
<1>q. QED BY <1>1, <1>2, <1>3, <1>4, <1>5, <1>6

\* Leaving the page empties the quick form.
LEMMA UnmountQuick ==
  ASSUME IInv, QuickUnmount, UNCHANGED desk
  PROVE  DeskTyped' /\ VehiclePart' /\ ClientPart' /\ PostPart' /\ QueryPart'
<1>1. DeskTyped'
  BY DEF IInv, DeskTyped, QuickUnmount, desk
<1>2. VehiclePart' /\ ClientPart'
  BY QuickAssumption DEF VehiclePart, ClientPart, OwnVehicle, QuickUnmount
<1>3. PostPart'
  BY DEF PostPart, OnePostAtATime, QuickUnmount
<1>4. QueryPart'
  <2>1. slots' = [for |-> None, offered |-> {}, status |-> "idle"]
    BY DEF QuickUnmount
  <2>2. SelectedServices' = {}
    BY DEF QuickUnmount, SelectedServices
  <2>3. SlotQuery' = None
    BY <2>2 DEF SlotQuery
  <2>q. QED BY <2>1, <2>3 DEF QueryPart
<1>q. QED BY <1>1, <1>2, <1>3, <1>4

-----------------------------------------------------------------------------
(* The wizard *)

\* The wizard's form with a field changed that leaves the slot alone.
LEMMA FieldsOfForm ==
  ASSUME WizardPart, NEW x,
         \/ form' = [form EXCEPT !.branch = x]
         \/ form' = [form EXCEPT !.client = x] /\ x \in Clients \cup {None}
         \/ form' = [form EXCEPT !.vehicle = x],
         UNCHANGED <<link, selectedDate, selectedWorkPostId, picked>>
  PROVE  WizardPart'
<1>1. /\ form' = [branch |-> form'.branch, client |-> form'.client, vehicle |-> form'.vehicle,
                  services |-> form'.services, worker |-> form'.worker, start |-> form'.start,
                  post |-> form'.post]
      /\ form'.services = form.services /\ form'.worker = form.worker /\ form'.start = form.start
      /\ form'.post = form.post /\ form'.client \in Clients \cup {None}
  BY DEF WizardPart
<1>q. QED BY <1>1 DEF WizardPart, PostFitsChoices, Pick

\* A form whose slot was reset names no post.
LEMMA ResetForm ==
  ASSUME WizardPart, NEW x, UNCHANGED link,
         \/ form' = SlotReset([form EXCEPT !.services = x])
         \/ form' = SlotReset([form EXCEPT !.worker = x])
         \/ form' = SlotReset(form)
  PROVE  WizardPart'
<1>1. /\ form' = [branch |-> form'.branch, client |-> form'.client, vehicle |-> form'.vehicle,
                  services |-> form'.services, worker |-> form'.worker, start |-> form'.start,
                  post |-> form'.post]
      /\ form'.post = None /\ form'.client = form.client
  BY DEF WizardPart, SlotReset
<1>q. QED BY <1>1 DEF WizardPart, PostFitsChoices

\* Every step of the wizard keeps a picked post with its choices.
LEMMA WizardKeepsSlot ==
  ASSUME WizardPart, WizardNext, UNCHANGED link, clients \subseteq Clients
  PROVE  WizardPart'
<1>1. CASE ChooseField
  BY <1>1, FieldsOfForm DEF ChooseField
<1>2. ASSUME NEW s \in Services, ToggleWizardService(s)  PROVE WizardPart'
  <2>1. \E x : form' = SlotReset([form EXCEPT !.services = x])
    BY <1>2 DEF ToggleWizardService, WizardPart
  <2>q. QED BY <2>1, ResetForm
<1>3. ASSUME NEW w \in Workers \cup {None}, ChangeWorker(w)  PROVE WizardPart'
  BY <1>3, ResetForm DEF ChangeWorker
<1>4. CASE ChangeSchedule
  BY <1>4, ResetForm DEF ChangeSchedule
<1>5. ASSUME NEW s \in Slots, NEW p \in Posts, SelectSlot(s, p)  PROVE WizardPart'
  <2>1. /\ form' = [branch |-> form'.branch, client |-> form'.client, vehicle |-> form'.vehicle,
                    services |-> form'.services, worker |-> form'.worker, start |-> form'.start,
                    post |-> form'.post]
        /\ form'.services = form.services /\ form'.worker = form.worker
        /\ form'.client = form.client
    BY <1>5 DEF SelectSlot, WizardPart
  <2>2. picked' = Pick(form', selectedDate, selectedWorkPostId)
        /\ UNCHANGED <<selectedDate, selectedWorkPostId>>
    BY <1>5 DEF SelectSlot
  <2>q. QED BY <2>1, <2>2 DEF WizardPart, PostFitsChoices, Pick
<1>6. ASSUME NEW c \in Clients, NewClientTaken(c)  PROVE WizardPart'
  BY <1>6, FieldsOfForm DEF NewClientTaken
<1>7. ASSUME NEW v \in Vehicles, NewVehicleTaken(v)  PROVE WizardPart'
  BY <1>7, FieldsOfForm DEF NewVehicleTaken
<1>8. CASE UNCHANGED <<form, selectedDate, selectedWorkPostId, picked>>
  BY <1>8 DEF WizardPart, PostFitsChoices, Pick
<1>9. \/ ChooseField \/ ChangeSchedule
      \/ \E s \in Services : ToggleWizardService(s)
      \/ \E w \in Workers \cup {None} : ChangeWorker(w)
      \/ \E s \in Slots, p \in Posts : SelectSlot(s, p)
      \/ \E c \in Clients : NewClientTaken(c)
      \/ \E v \in Vehicles : NewVehicleTaken(v)
      \/ UNCHANGED <<form, selectedDate, selectedWorkPostId, picked>>
  BY DEF WizardNext, ChooseMode, LeaveMode, Move, SendNew, NewRefused, Confirm, OrderRefused,
         ShowBusy
<1>q. QED BY <1>1, <1>2, <1>3, <1>4, <1>5, <1>6, <1>7, <1>8, <1>9

\* The wizard's clients and vehicles are new ones: the pair of the quick form
\* stays as it is.
LEMMA WizardKeepsPair ==
  ASSUME DeskTyped, VehiclePart, ClientPart, WizardPart, WizardNext, UNCHANGED quick
  PROVE  DeskTyped' /\ VehiclePart' /\ ClientPart'
<1>u. UNCHANGED <<client, vehicleId, dialog, newClient, newVehicle>>
  BY DEF quick, choices, creating
<1>c. ClientPart'
  BY <1>u DEF ClientPart
<1>1. CASE UNCHANGED <<clients, owner>>
  BY <1>1, <1>u, <1>c DEF DeskTyped, VehiclePart, OwnVehicle
<1>2. ASSUME NEW c \in Clients, NewClientTaken(c), UNCHANGED owner
      PROVE  DeskTyped' /\ VehiclePart' /\ ClientPart'
  <2>1. clients' = clients \cup {c}
    BY <1>2 DEF NewClientTaken, ClientAdded
  <2>q. QED BY <1>2, <1>u, <1>c, <2>1 DEF DeskTyped, VehiclePart, OwnVehicle
<1>3. ASSUME NEW v \in Vehicles, NewVehicleTaken(v), UNCHANGED clients
      PROVE  DeskTyped' /\ VehiclePart' /\ ClientPart'
  <2>1. owner[v] = None /\ owner' = [owner EXCEPT ![v] = form.client]
    BY <1>3 DEF NewVehicleTaken, VehicleAdded
  <2>2. \A w \in Vehicles : owner[w] # None => owner'[w] = owner[w]
    BY <2>1 DEF DeskTyped
  <2>3. DeskTyped'
    BY <1>3, <1>u, <2>1 DEF DeskTyped, WizardPart
  <2>4. VehiclePart'
    BY <1>u, <2>2, FormsAssumption DEF DeskTyped, VehiclePart, OwnVehicle
  <2>q. QED BY <1>c, <2>3, <2>4
<1>q. QED BY <1>1, <1>2, <1>3 DEF WizardNext

-----------------------------------------------------------------------------
(* The page *)

\* Opening the page.
LEMMA InitIInv == Init => IInv
<1> SUFFICES ASSUME Init PROVE IInv
  OBVIOUS
<1>1. DeskTyped
  BY FormsAssumption DEF Init, DeskInit, QuickInit, DeskTyped
<1>2. VehiclePart /\ ClientPart /\ PostPart
  BY QuickAssumption DEF Init, QuickInit, VehiclePart, OwnVehicle, ClientPart, PostPart, OnePostAtATime
<1>3. QueryPart
  <2>1. slots = [for |-> None, offered |-> {}, status |-> "idle"]
    BY DEF Init, QuickInit
  <2>2. SlotQuery = None
    BY DEF Init, QuickInit, SelectedServices, SlotQuery
  <2>q. QED BY <2>1, <2>2 DEF QueryPart
<1>4. WizardPart
  BY DEF Init, WizardInit, WizardPart, EmptyForm, PostFitsChoices
<1>q. QED BY <1>1, <1>2, <1>3, <1>4 DEF IInv

\* Every step of the page keeps the invariant.
LEMMA NextIInv == IInv /\ [Next]_vars => IInv'
<1> SUFFICES ASSUME IInv, [Next]_vars PROVE IInv'
  OBVIOUS
<1> USE DEF IInv
<1>1. CASE page = "quick" /\ QuickNext /\ UNCHANGED <<link, wizard, page>>
  <2>1. DeskTyped' /\ VehiclePart' /\ ClientPart'
    BY <1>1, QuickKeepsPair
  <2>2. PostPart' /\ QueryPart'
    BY <1>1, QuickKeepsPost, QuickKeepsQuery
  <2>3. WizardPart'
    BY <1>1 DEF wizard, WizardPart, PostFitsChoices, Pick
  <2>q. QED BY <2>1, <2>2, <2>3
<1>2. CASE page = "wizard" /\ WizardNext /\ UNCHANGED <<link, quick, page>>
  <2>1. DeskTyped' /\ VehiclePart' /\ ClientPart'
    BY <1>2, WizardKeepsPair
  <2>2. UNCHANGED <<chosenBranch, chosenDate, serviceIds, listed, slots, submitting, flight>>
    BY <1>2 DEF quick, choices, sending, queries
  <2>3. PostPart' /\ QueryPart'
    BY <2>2, SameQuery DEF PostPart, OnePostAtATime, QueryPart
  <2>4. WizardPart'
    BY <1>2, WizardKeepsSlot DEF DeskTyped
  <2>q. QED BY <2>1, <2>3, <2>4
<1>3. CASE OpenWizard
  <2>1. QuickUnmount /\ UNCHANGED <<desk, wizard>>
    BY <1>3 DEF OpenWizard
  <2>2. WizardPart'
    BY <2>1 DEF desk, wizard, WizardPart, PostFitsChoices, Pick
  <2>q. QED BY <2>1, <2>2, UnmountQuick
<1>4. CASE LeavePage /\ QuickUnmount /\ UNCHANGED wizard
  <2>1. UNCHANGED desk
    BY <1>4 DEF LeavePage
  <2>2. WizardPart'
    BY <1>4, <2>1 DEF desk, wizard, WizardPart, PostFitsChoices, Pick
  <2>q. QED BY <1>4, <2>1, <2>2, UnmountQuick
<1>5. CASE LeavePage /\ WizardUnmount /\ UNCHANGED quick
  <2>1. UNCHANGED <<desk, quick>>
    BY <1>5 DEF LeavePage
  <2>2. DeskTyped' /\ VehiclePart' /\ ClientPart'
    BY <2>1 DEF desk, quick, choices, creating, DeskTyped, VehiclePart, OwnVehicle, ClientPart
  <2>3. UNCHANGED <<chosenBranch, chosenDate, serviceIds, listed, slots, submitting, flight>>
    BY <2>1 DEF quick, choices, sending, queries
  <2>4. PostPart' /\ QueryPart'
    BY <2>3, SameQuery DEF PostPart, OnePostAtATime, QueryPart
  <2>5. WizardPart'
    BY <1>5, <2>1 DEF desk, WizardUnmount, EmptyForm, WizardPart, PostFitsChoices
  <2>q. QED BY <2>2, <2>4, <2>5
<1>6. CASE UNCHANGED vars
  <2>1. UNCHANGED <<clients, owner, link>> /\ UNCHANGED <<client, vehicleId, dialog, newClient, newVehicle>>
    BY <1>6 DEF vars, desk, quick, choices, creating
  <2>2. UNCHANGED <<chosenBranch, chosenDate, serviceIds, listed, slots, submitting, flight>>
    BY <1>6 DEF vars, quick, choices, sending, queries
  <2>3. DeskTyped' /\ VehiclePart' /\ ClientPart'
    BY <2>1 DEF DeskTyped, VehiclePart, OwnVehicle, ClientPart
  <2>4. PostPart' /\ QueryPart'
    BY <2>2, SameQuery DEF PostPart, OnePostAtATime, QueryPart
  <2>5. WizardPart'
    BY <1>6 DEF vars, desk, wizard, WizardPart, PostFitsChoices, Pick
  <2>q. QED BY <2>3, <2>4, <2>5
<1>q. QED BY <1>1, <1>2, <1>3, <1>4, <1>5, <1>6 DEF Next, LeavePage

\* The invariant holds while the page is used.
LEMMA Invariance == Spec => []IInv
<1>1. IInv /\ [Next]_vars => IInv'
  BY NextIInv
<1>q. QED BY InitIInv, <1>1, PTL DEF Spec

-----------------------------------------------------------------------------
(* The theorems *)

\* An order of the quick form is sent with a vehicle of its client, whatever
\* creation of a client or a vehicle was answered after the pick.
THEOREM VehicleOfTheClient == Spec => []OwnVehicle
<1>1. IInv => OwnVehicle
  BY DEF IInv, VehiclePart
<1>q. QED BY Invariance, <1>1, PTL

\* Two clicks before the button is drawn again send one order: submitting is
\* a ref, set before the POST and cleared by its answer.
THEOREM OneOrderPerForm == Spec => []OnePostAtATime
<1>1. IInv => OnePostAtATime
  BY DEF IInv, PostPart
<1>q. QED BY Invariance, <1>1, PTL

\* A post that the wizard's form names was picked with the form's start for the
\* services, the worker, the date and the filter the form has, or start and
\* post are the link's: every change of one of these clears workPostId.
THEOREM WizardPostFits == Spec => []PostFitsChoices
<1>1. IInv => PostFitsChoices
  BY DEF IInv, WizardPart
<1>q. QED BY Invariance, <1>1, PTL

\* Only Submit puts a POST under way.
LEMMA PostIsSubmitted ==
  ASSUME IInv, [Next]_vars, flight' > flight
  PROVE  page = "quick" /\ Submit
<1>n. flight \in Nat
  BY DEF IInv, PostPart
<1>1. UNCHANGED quick => flight' = flight
  BY DEF quick, sending
<1>2. QuickUnmount => flight' = 0
  BY DEF QuickUnmount
<1>3. QuickNext => Submit \/ PostAnswered \/ flight' = flight
  BY DEF QuickNext, ChangeBranch, ChangeDate, TypeSearch, PickFound, PickVehicle, ToggleService,
         PickSlot, OpenDialog, CloseDialog, ShowCreating, SendClient, SendVehicle, CreationFails,
         ShowPending, SlotsExpire, SlotsArrive, FetchLists, ListsArrive, Tick, LookAtClock,
         ClientCreated, VehicleCreated, sending
<1>4. PostAnswered => flight' = flight - 1
  BY DEF PostAnswered
<1>5. UNCHANGED vars => UNCHANGED quick
  BY DEF vars
<1>q. QED BY <1>n, <1>1, <1>2, <1>3, <1>4, <1>5 DEF Next, OpenWizard, LeavePage

\* What is sent fits together: the slot is one the server offered for the
\* branch and the date of the order and for a visit as long as all of its
\* services, although lists, slots and clock go on changing under the form.
THEOREM SentSlotFits == Spec => PostsFittingSlot
<1>1. IInv /\ [Next]_vars =>
        [flight' > flight =>
           /\ slots.for = [branch |-> BranchId, date |-> Date, minutes |-> TotalDuration(serviceIds)]
           /\ Slot \in slots.offered]_quick
  <2> SUFFICES ASSUME IInv, [Next]_vars, flight' > flight
               PROVE  /\ slots.for = [branch |-> BranchId, date |-> Date,
                                      minutes |-> TotalDuration(serviceIds)]
                      /\ Slot \in slots.offered
    OBVIOUS
  <2>1. Ready
    BY PostIsSubmitted DEF Submit
  <2>2. Slot \in slots.offered
    BY <2>1, SlotIsOffered DEF Ready, IInv, QueryPart
  <2>3. Date # None
    BY <2>1, FormsAssumption, QuickAssumption DEF Ready, Date
  <2>4. SlotQuery = [branch |-> BranchId, date |-> Date, minutes |-> TotalDuration(SelectedServices)]
    BY <2>1, <2>3 DEF Ready, SlotQuery
  <2>5. serviceIds = SelectedServices
    BY <2>1 DEF Ready
  <2>q. QED BY <2>2, <2>4, <2>5 DEF IInv, QueryPart
<1>q. QED BY Invariance, <1>1, PTL DEF Spec, PostsFittingSlot

\* A client that was created is selected only in place of the client that was
\* selected when it was sent: one picked in the meantime stays.
THEOREM PickOutlivesAnswer == Spec => LateClientKeepsPick
<1>1. IInv /\ [Next]_vars =>
        [newClient # None /\ clients' # clients /\ client' # client
           => client = newClient.was]_<<quick, desk>>
  <2> SUFFICES ASSUME IInv, [Next]_vars, newClient # None, clients' # clients, client' # client
               PROVE  client = newClient.was
    OBVIOUS
  <2>1. UNCHANGED quick => client' = client
    BY DEF quick, choices
  <2>2. UNCHANGED desk => clients' = clients
    BY DEF desk
  <2>3. PICK c \in Clients : ClientCreated(c)
    BY <2>1, <2>2 DEF Next, QuickNext, OpenWizard, LeavePage, vars
  <2>4. newClient.same
    BY <2>3 DEF ClientCreated
  <2>q. QED BY <2>4 DEF IInv, ClientPart
<1>q. QED BY Invariance, <1>1, PTL DEF Spec, LateClientKeepsPick
=============================================================================
