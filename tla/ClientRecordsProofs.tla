------------------------ MODULE ClientRecordsProofs ------------------------
(***************************************************************************)
(* What is proved about ClientRecords: the purge undoes no restore, an     *)
(* order keeps a vehicle of its own client, and bookings with one phone    *)
(* number share one client, for any number of requests and rows.           *)
(***************************************************************************)
EXTENDS ClientRecords, TLAPS

RowStates == {"none", "live", "deleted", "old", "purged"}

ClientRow  == [state: RowStates, phone: Phones \cup {None}, by: {None, "staff", "booking"}]
VehicleRow == [state: RowStates, client: Clients \cup {None}, plate: Plates \cup {None}]
OrderRow   == [state: RowStates, client: Clients \cup {None}, vehicle: Vehicles \cup {None},
               branch: Branches \cup {None}, services: SUBSET Services]

RequestState ==
  [pc: {"idle", "book", "booked", "order", "merge", "done"},
   phone: Phones \cup {None}, plate: Plates \cup {None},
   client: Clients \cup {None}, vehicle: Vehicles \cup {None}, branch: Branches \cup {None},
   services: SUBSET Services, into: Clients \cup {None},
   from: SUBSET Vehicles, known: SUBSET Vehicles, stale: BOOLEAN]

CleanupState ==
  [pc: {"idle", "orders", "vehicles", "clients", "services", "branches"},
   lines: SUBSET Orders, orders: SUBSET Orders, vehicles: SUBSET Vehicles,
   clients: SUBSET Clients, shop: SUBSET Shop, restored: SUBSET Orders]

Typed ==
  /\ client \in [Clients -> ClientRow]
  /\ vehicle \in [Vehicles -> VehicleRow]
  /\ order \in [Orders -> OrderRow]
  /\ shop \in [Shop -> RowStates]
  /\ req \in [Requests -> RequestState]
  /\ cleanup \in CleanupState
  /\ deletes \in Nat /\ raced \in BOOLEAN
  /\ \A v \in Vehicles : Exists(vehicle[v]) => vehicle[v].client \in Clients
  /\ \A o \in Orders : Exists(order[o]) =>
       order[o].client \in Clients /\ order[o].vehicle \in Vehicles

\* What a request holds when it goes on: the rows it found were there, and a
\* merge has a source and another target.
InHand(r) ==
  /\ req[r].pc = "book" => /\ req[r].phone \in Phones /\ req[r].plate \in Plates
                           /\ req[r].client = None => req[r].vehicle = None
  /\ req[r].pc \in {"booked", "order"} => req[r].client \in Clients /\ req[r].vehicle \in Vehicles
  /\ req[r].pc = "merge" => /\ req[r].client \in Clients /\ req[r].into \in Clients
                            /\ req[r].client # req[r].into

\* The vehicles that a request has read were inserted, so their ids are taken.
Seen(r) ==
  /\ req[r].pc \in {"book", "booked", "order"} /\ req[r].vehicle # None =>
       vehicle[req[r].vehicle].state # "none"
  /\ req[r].pc = "merge" =>
       \A v \in req[r].from \cup req[r].known : vehicle[v].state # "none"

\* The vehicle of an order that is there is there.
Inserted == \A o \in Orders : Exists(order[o]) => Exists(vehicle[order[o].vehicle])

\* What the cleanup holds is still old, and so is an order whose lines it has
\* deleted, unless it was restored since; from the third statement on it holds
\* all of these.  No order that stays refers to a vehicle that it holds.
PurgeOK ==
  /\ \A o \in cleanup.orders \cup (cleanup.lines \ cleanup.restored) : order[o].state = "old"
  /\ \A v \in cleanup.vehicles : vehicle[v].state = "old"
  /\ \A c \in cleanup.clients : client[c].state = "old"
  /\ \A x \in cleanup.shop : shop[x] = "old"
  /\ cleanup.pc \in {"idle", "orders", "vehicles"} => cleanup.vehicles = {}
  /\ \A v \in cleanup.vehicles : ~Referred(v)
  /\ cleanup.pc \notin {"idle", "orders"} => cleanup.lines \ cleanup.restored \subseteq cleanup.orders

\* Until something commits on what it has read, an order request has a vehicle
\* of its client, and a merge knows the vehicles of its clients, those of the
\* source's orders among them.
Fresh(r) ==
  ~req[r].stale =>
    /\ req[r].pc = "order" => vehicle[req[r].vehicle].client = req[r].client
    /\ req[r].pc = "merge" =>
         /\ \A v \in req[r].from : vehicle[v].client = req[r].client
         /\ \A v \in req[r].known : vehicle[v].client = req[r].into
         /\ ~raced => \A o \in Orders : Exists(order[o]) /\ order[o].client = req[r].client
                                          => order[o].vehicle \in req[r].from

\* A booking that found no client will insert the first one with its phone.
FirstOfPhone(r) ==
  req[r].pc = "book" /\ req[r].client = None /\ ~req[r].stale =>
    ~ \E c \in Clients : Live(client[c]) /\ client[c].by = "booking"
                         /\ client[c].phone = req[r].phone

\* The inductive invariant.
RequestOK(r) == InHand(r) /\ Seen(r) /\ Fresh(r) /\ FirstOfPhone(r)

IInv ==
  /\ Typed /\ Inserted /\ PurgeOK /\ OwnershipKept /\ BookingsShareClient
  /\ \A r \in Requests : RequestOK(r)

-----------------------------------------------------------------------------
(* What keeps the parts of the invariant *)

\* The ids of vehicles stay taken and their owners stay; orders that are there
\* were there, and stay with their client and vehicle.
VehiclesStay ==
  \A v \in Vehicles : vehicle[v].state # "none" =>
    vehicle'[v].state # "none" /\ vehicle'[v].client = vehicle[v].client
OrdersStay ==
  \A o \in Orders : Exists(order'[o]) =>
    /\ Exists(order[o])
    /\ order'[o].client = order[o].client /\ order'[o].vehicle = order[o].vehicle

\* No booking has a client that it did not have.
Booked(c) == Live(client[c]) /\ client[c].by = "booking"
NoneBooked ==
  \A c \in Clients : Booked(c)' => Booked(c) /\ client'[c].phone = client[c].phone

\* No row goes, no order loses a line.
RowsStay ==
  /\ \A o \in Orders : Exists(order[o]) =>
       Exists(order'[o]) /\ order'[o].services = order[o].services
  /\ \A v \in Vehicles : Exists(vehicle[v]) => Exists(vehicle'[v])
  /\ \A c \in Clients : Exists(client[c]) => Exists(client'[c])
  /\ \A x \in Shop : shop'[x] = "purged" => shop[x] = "purged"

\* What is to be shown of every step.
Kept == IInv' /\ OnlyOldRowsGo

\* Nothing starts: no row of a client, no request.
LEMMA InitIInv == Init => IInv
<1> SUFFICES ASSUME Init PROVE IInv
  OBVIOUS
<1>1. Typed
  <2>1. NoClient \in ClientRow /\ NoVehicle \in VehicleRow /\ NoOrder \in OrderRow
    BY DEF NoClient, NoVehicle, NoOrder, ClientRow, VehicleRow, OrderRow, RowStates
  <2>2. Idle \in RequestState /\ NoCleanup \in CleanupState
    BY DEF Idle, RequestState, NoCleanup, CleanupState
  <2>q. QED BY <2>1, <2>2 DEF Init, Typed, Exists, NoVehicle, NoOrder, RowStates
<1>2. Inserted /\ PurgeOK /\ OwnershipKept /\ BookingsShareClient
  BY DEF Init, Inserted, PurgeOK, NoCleanup, OwnershipKept, BookingsShareClient,
         Exists, Live, NoClient, NoVehicle, NoOrder
<1>3. \A r \in Requests : RequestOK(r)
  BY DEF Init, RequestOK, InHand, Seen, Fresh, FirstOfPhone, Idle
<1>q. QED BY <1>1, <1>2, <1>3 DEF IInv

\* The cleanup stays right when others leave alone what it holds.
LEMMA PurgeKept ==
  ASSUME PurgeOK, UNCHANGED cleanup,
         \A o \in cleanup.orders \cup (cleanup.lines \ cleanup.restored) :
           order'[o].state = order[o].state,
         \A v \in cleanup.vehicles : vehicle'[v].state = vehicle[v].state,
         \A c \in cleanup.clients : client'[c].state = client[c].state,
         \A x \in cleanup.shop : shop'[x] = shop[x],
         \A o \in Orders : Exists(order'[o]) =>
           \/ Exists(order[o]) /\ order'[o].vehicle = order[o].vehicle
           \/ order'[o].vehicle \notin cleanup.vehicles
  PROVE  PurgeOK'
BY DEF PurgeOK, Referred

\* Ownership, and what the requests that do not move know, are kept.
LEMMA OwnershipStays ==
  ASSUME IInv, VehiclesStay, OrdersStay, raced => raced'
  PROVE  /\ OwnershipKept'
         /\ \A r \in Requests : req'[r] = req[r] => InHand(r)' /\ Seen(r)' /\ Fresh(r)'
<1>1. OwnershipKept'
  <2> SUFFICES ASSUME ~raced', NEW o \in Orders, Exists(order'[o])
               PROVE  vehicle'[order'[o].vehicle].client = order'[o].client
    BY DEF OwnershipKept
  <2>1. /\ ~raced /\ Exists(order[o]) /\ order[o].vehicle \in Vehicles
        /\ order'[o].client = order[o].client /\ order'[o].vehicle = order[o].vehicle
    BY DEF OrdersStay, IInv, Typed, Exists
  <2>2. vehicle[order[o].vehicle].state # "none"
    BY <2>1 DEF IInv, Inserted, Exists
  <2>3. vehicle[order[o].vehicle].client = order[o].client
    BY <2>1 DEF IInv, OwnershipKept
  <2>q. QED BY <2>1, <2>2, <2>3 DEF VehiclesStay
<1>2. ASSUME NEW r \in Requests, req'[r] = req[r] PROVE InHand(r)' /\ Seen(r)' /\ Fresh(r)'
  <2>1. /\ InHand(r) /\ Seen(r) /\ Fresh(r) /\ req[r] \in RequestState
    BY DEF IInv, RequestOK, Typed
  <2>2. InHand(r)'
    BY <1>2, <2>1 DEF InHand
  <2>3. /\ req[r].vehicle \in Vehicles \cup {None}
        /\ \A v \in req[r].from \cup req[r].known : v \in Vehicles
    BY <2>1 DEF RequestState
  <2>4. Seen(r)'
    BY <1>2, <2>1, <2>3 DEF Seen, VehiclesStay
  <2>5. req[r].pc = "order" => req[r].vehicle \in Vehicles /\ vehicle[req[r].vehicle].state # "none"
    BY <2>1, ClientRecordsAssumption DEF InHand, Seen
  <2>6. Fresh(r)'
    BY <1>2, <2>1, <2>3, <2>5 DEF Fresh, Seen, VehiclesStay, OrdersStay
  <2>q. QED BY <2>2, <2>4, <2>6
<1>q. QED BY <1>1, <1>2

\* One client per phone among those of the bookings, as long as none is added.
LEMMA ShareKept ==
  ASSUME IInv, NoneBooked
  PROVE  /\ BookingsShareClient'
         /\ \A r \in Requests : req'[r] = req[r] => FirstOfPhone(r)'
<1>1. BookingsShareClient'
  BY DEF NoneBooked, Booked, IInv, BookingsShareClient
<1>2. ASSUME NEW r \in Requests, req'[r] = req[r] PROVE FirstOfPhone(r)'
  BY <1>2 DEF NoneBooked, Booked, IInv, RequestOK, FirstOfPhone
<1>q. QED BY <1>1, <1>2

\* A step that takes no row, adds no order and no client of a booking, leaves
\* the cleanup right, and whose request ends well.
LEMMA StepKeeps ==
  ASSUME IInv, Typed', PurgeOK', RowsStay, raced => raced', VehiclesStay, OrdersStay, NoneBooked,
         \A r \in Requests : req'[r] = req[r] \/ RequestOK(r)'
  PROVE  Kept
<1>1. \A r \in Requests : RequestOK(r)'
  BY OwnershipStays, ShareKept DEF RequestOK
<1>2. OnlyOldRowsGo
  BY DEF RowsStay, OnlyOldRowsGo
<1>3. \A o \in Orders : Exists(order[o]) => order[o].vehicle \in Vehicles
  BY DEF IInv, Typed
<1>4. Inserted'
  BY <1>3 DEF IInv, Inserted, RowsStay, OrdersStay
<1>q. QED BY <1>1, <1>2, <1>4, OwnershipStays, ShareKept DEF IInv, Kept

-----------------------------------------------------------------------------
(* Staff, and the passing of time *)

\* A client that staff create is theirs, not a booking's.
LEMMA CreateClientKeeps ==
  ASSUME IInv, NEW c \in Clients, NEW p \in Phones, CreateClient(c, p)
  PROVE  Kept
<1> DEFINE row == [state |-> "live", phone |-> p, by |-> "staff"]
<1>1. /\ client[c] = NoClient /\ client' = [client EXCEPT ![c] = row]
      /\ UNCHANGED <<vehicle, order, shop, req, cleanup, deletes, raced>>
  BY DEF CreateClient
<1>2. row \in ClientRow /\ Exists(row) /\ row.by # "booking"
  BY DEF ClientRow, RowStates, Exists
<1> HIDE DEF row
<1>3. Typed'
  BY <1>1, <1>2 DEF IInv, Typed
<1>4. VehiclesStay /\ OrdersStay
  BY <1>1 DEF VehiclesStay, OrdersStay
<1>5. NoneBooked /\ RowsStay
  BY <1>1, <1>2 DEF NoneBooked, Booked, RowsStay, IInv, Typed
<1>6. c \notin cleanup.clients
  BY <1>1 DEF IInv, PurgeOK, NoClient
<1>7. PurgeOK'
  BY <1>1, <1>6, PurgeKept DEF IInv, Typed, CleanupState
<1>q. QED BY <1>1, <1>3, <1>4, <1>5, <1>7, StepKeeps

\* A vehicle is added to a client that is there.
LEMMA CreateVehicleKeeps ==
  ASSUME IInv, NEW v \in Vehicles, NEW c \in Clients, NEW x \in Plates, CreateVehicle(v, c, x)
  PROVE  Kept
<1> DEFINE row == [state |-> "live", client |-> c, plate |-> x]
<1>1. /\ vehicle[v] = NoVehicle /\ vehicle' = [vehicle EXCEPT ![v] = row] /\ Exists(client[c])
      /\ UNCHANGED <<client, order, shop, req, cleanup, deletes, raced>>
  BY DEF CreateVehicle, Live, Exists
<1>2. row \in VehicleRow /\ row.client = c
  BY DEF VehicleRow, RowStates
<1> HIDE DEF row
<1>3. Typed'
  BY <1>1, <1>2 DEF IInv, Typed
<1>4. VehiclesStay /\ OrdersStay /\ NoneBooked
  BY <1>1 DEF VehiclesStay, OrdersStay, NoneBooked, Booked, NoVehicle, IInv, Typed
<1>5. RowsStay
  BY <1>1, <1>2 DEF RowsStay, Exists, NoVehicle, IInv, Typed
<1>6. v \notin cleanup.vehicles
  BY <1>1 DEF IInv, PurgeOK, NoVehicle
<1>7. PurgeOK'
  BY <1>1, <1>6, PurgeKept DEF IInv, Typed, CleanupState
<1>q. QED BY <1>1, <1>3, <1>4, <1>5, <1>7, StepKeeps

\* Rows that only change between live, deleted and old refer to what they did.
LEMMA StatesKeep ==
  ASSUME IInv, UNCHANGED <<req, raced>>, deletes' \in Nat, cleanup' \in CleanupState, PurgeOK',
         client' \in [Clients -> ClientRow], vehicle' \in [Vehicles -> VehicleRow],
         order' \in [Orders -> OrderRow], shop' \in [Shop -> RowStates], NoneBooked,
         \A c \in Clients : Exists(client'[c]) <=> Exists(client[c]),
         \A v \in Vehicles : /\ Exists(vehicle'[v]) <=> Exists(vehicle[v])
                             /\ vehicle'[v].state = "none" <=> vehicle[v].state = "none"
                             /\ vehicle'[v].client = vehicle[v].client,
         \A o \in Orders : /\ Exists(order'[o]) <=> Exists(order[o])
                           /\ order'[o].client = order[o].client
                           /\ order'[o].vehicle = order[o].vehicle
                           /\ order'[o].services = order[o].services,
         \A x \in Shop : shop'[x] = "purged" => shop[x] = "purged"
  PROVE  Kept
<1>1. Typed'
  BY DEF IInv, Typed
<1>2. VehiclesStay /\ OrdersStay /\ RowsStay
  BY DEF VehiclesStay, OrdersStay, RowsStay
<1>q. QED BY <1>1, <1>2, StepKeeps

\* Soft deletes, restores and aging; a restored client is the staff's.  What
\* the cleanup holds is old and locked: none of them touches it.
LEMMA StaffKeep == ASSUME IInv, SoftDelete \/ Restore \/ Age PROVE Kept
<1>1. UNCHANGED <<req, raced>> /\ deletes' \in Nat
  BY DEF SoftDelete, Restore, Age, IInv, Typed
<1>t. /\ client \in [Clients -> ClientRow] /\ vehicle \in [Vehicles -> VehicleRow]
      /\ order \in [Orders -> OrderRow] /\ shop \in [Shop -> RowStates]
      /\ cleanup \in CleanupState /\ PurgeOK
  BY DEF IInv, Typed
<1>s. /\ cleanup.orders \subseteq Orders /\ cleanup.lines \subseteq Orders
      /\ cleanup.vehicles \subseteq Vehicles /\ cleanup.clients \subseteq Clients
      /\ cleanup.shop \subseteq Shop
  BY <1>t DEF CleanupState
<1>2. ASSUME NEW c \in Clients, NEW s \in {"live", "deleted", "old"}, Exists(client[c]),
             c \notin cleanup.clients, UNCHANGED <<vehicle, order, shop, cleanup>>,
             \/ client' = [client EXCEPT ![c].state = s] /\ s # "live"
             \/ client' = [client EXCEPT ![c].state = s, ![c].by = "staff"]
      PROVE  Kept
  <2>1. /\ client' \in [Clients -> ClientRow]
        /\ \A d \in Clients : Exists(client'[d]) <=> Exists(client[d])
        /\ \A d \in Clients \ {c} : client'[d] = client[d]
    BY <1>2, <1>t DEF ClientRow, RowStates, Exists
  <2>2. NoneBooked
    BY <1>2, <1>t DEF NoneBooked, Booked, Live, ClientRow
  <2>3. PurgeOK'
    BY <1>2, <1>s, <1>t, <2>1, PurgeKept
  <2>q. QED BY <1>1, <1>2, <1>t, <2>1, <2>2, <2>3, StatesKeep
<1>3. ASSUME NEW v \in Vehicles, NEW s \in {"live", "deleted", "old"}, Exists(vehicle[v]),
             v \notin cleanup.vehicles, UNCHANGED <<client, order, shop, cleanup>>,
             vehicle' = [vehicle EXCEPT ![v].state = s]
      PROVE  Kept
  <2>1. /\ vehicle' \in [Vehicles -> VehicleRow]
        /\ \A u \in Vehicles : /\ Exists(vehicle'[u]) <=> Exists(vehicle[u])
                               /\ vehicle'[u].state = "none" <=> vehicle[u].state = "none"
                               /\ vehicle'[u].client = vehicle[u].client
        /\ \A u \in Vehicles \ {v} : vehicle'[u] = vehicle[u]
    BY <1>3, <1>t DEF VehicleRow, RowStates, Exists
  <2>2. NoneBooked
    BY <1>3 DEF NoneBooked, Booked
  <2>3. PurgeOK'
    BY <1>3, <1>s, <1>t, <2>1, PurgeKept
  <2>q. QED BY <1>1, <1>3, <1>t, <2>1, <2>2, <2>3, StatesKeep
<1>4. ASSUME NEW o \in Orders, NEW s \in {"live", "deleted", "old"}, Exists(order[o]),
             o \notin cleanup.orders, UNCHANGED <<client, vehicle, shop>>,
             order' = [order EXCEPT ![o].state = s],
             \/ cleanup' = cleanup /\ o \notin cleanup.lines \ cleanup.restored
             \/ cleanup' = [cleanup EXCEPT !.restored = @ \cup ({o} \cap cleanup.lines)]
      PROVE  Kept
  <2>1. /\ order' \in [Orders -> OrderRow]
        /\ \A p \in Orders : /\ Exists(order'[p]) <=> Exists(order[p])
                             /\ order'[p].client = order[p].client
                             /\ order'[p].vehicle = order[p].vehicle
                             /\ order'[p].services = order[p].services
        /\ \A p \in Orders \ {o} : order'[p] = order[p]
    BY <1>4, <1>t DEF OrderRow, RowStates, Exists
  <2>2. NoneBooked
    BY <1>4 DEF NoneBooked, Booked
  <2>3. CASE cleanup' = cleanup /\ o \notin cleanup.lines \ cleanup.restored
    <3>1. PurgeOK'
      BY <1>4, <1>s, <1>t, <2>1, <2>3, PurgeKept
    <3>q. QED BY <1>1, <1>4, <1>t, <2>1, <2>2, <2>3, <3>1, StatesKeep
  <2>4. CASE cleanup' = [cleanup EXCEPT !.restored = @ \cup ({o} \cap cleanup.lines)]
    <3>1. /\ cleanup' \in CleanupState /\ cleanup'.pc = cleanup.pc
          /\ cleanup'.orders = cleanup.orders /\ cleanup'.lines = cleanup.lines
          /\ cleanup'.vehicles = cleanup.vehicles /\ cleanup'.clients = cleanup.clients
          /\ cleanup'.shop = cleanup.shop
          /\ cleanup'.restored = cleanup.restored \cup ({o} \cap cleanup.lines)
      BY <1>s, <1>t, <2>4 DEF CleanupState
    <3>2. PurgeOK'
      BY <1>4, <1>s, <1>t, <2>1, <3>1 DEF PurgeOK, Referred
    <3>q. QED BY <1>1, <1>4, <1>t, <2>1, <2>2, <3>1, <3>2, StatesKeep
  <2>q. QED BY <1>4, <2>3, <2>4
<1>5. ASSUME NEW x \in Shop, NEW s \in {"live", "deleted", "old"}, x \notin cleanup.shop,
             UNCHANGED <<client, vehicle, order, cleanup>>, shop' = [shop EXCEPT ![x] = s]
      PROVE  Kept
  <2>1. /\ shop' \in [Shop -> RowStates]
        /\ \A y \in Shop \ {x} : shop'[y] = shop[y]
        /\ shop'[x] # "purged"
    BY <1>5, <1>t DEF RowStates
  <2>2. NoneBooked
    BY <1>5 DEF NoneBooked, Booked
  <2>3. PurgeOK'
    BY <1>5, <1>s, <1>t, <2>1, PurgeKept
  <2>q. QED BY <1>1, <1>5, <1>t, <2>1, <2>2, <2>3, StatesKeep
<1>6. CASE SoftDelete
  <2>1. UNCHANGED cleanup
    BY <1>6 DEF SoftDelete
  <2>2. ASSUME NEW c \in Clients, Live(client[c]), client' = [client EXCEPT ![c].state = "deleted"],
               UNCHANGED <<vehicle, order, shop>>
        PROVE  Kept
    BY <1>t, <1>2, <2>1, <2>2 DEF PurgeOK, Live, Exists
  <2>3. ASSUME NEW v \in Vehicles, Live(vehicle[v]), UNCHANGED <<client, order, shop>>,
               vehicle' = [vehicle EXCEPT ![v].state = "deleted"]
        PROVE  Kept
    BY <1>t, <1>3, <2>1, <2>3 DEF PurgeOK, Live, Exists
  <2>4. ASSUME NEW o \in Orders, Live(order[o]), order' = [order EXCEPT ![o].state = "deleted"],
               UNCHANGED <<client, vehicle, shop>>
        PROVE  Kept
    BY <1>t, <1>4, <2>1, <2>4 DEF PurgeOK, Live, Exists
  <2>5. ASSUME NEW x \in Shop, shop[x] = "live", shop' = [shop EXCEPT ![x] = "deleted"],
               UNCHANGED <<client, vehicle, order>>
        PROVE  Kept
    BY <1>t, <1>5, <2>1, <2>5 DEF PurgeOK
  <2>q. QED BY <1>6, <2>2, <2>3, <2>4, <2>5 DEF SoftDelete
<1>7. CASE Restore
  BY <1>7, <1>2, <1>3, <1>4, <1>5 DEF Restore, Exists, Held
<1>8. CASE Age
  <2>1. UNCHANGED cleanup
    BY <1>8 DEF Age
  <2>2. ASSUME NEW c \in Clients, client[c].state = "deleted",
               client' = [client EXCEPT ![c].state = "old"], UNCHANGED <<vehicle, order, shop>>
        PROVE  Kept
    BY <1>t, <1>2, <2>1, <2>2 DEF PurgeOK, Exists
  <2>3. ASSUME NEW v \in Vehicles, vehicle[v].state = "deleted",
               vehicle' = [vehicle EXCEPT ![v].state = "old"], UNCHANGED <<client, order, shop>>
        PROVE  Kept
    BY <1>t, <1>3, <2>1, <2>3 DEF PurgeOK, Exists
  <2>4. ASSUME NEW o \in Orders, order[o].state = "deleted",
               order' = [order EXCEPT ![o].state = "old"], UNCHANGED <<client, vehicle, shop>>
        PROVE  Kept
    BY <1>t, <1>4, <2>1, <2>4 DEF PurgeOK, Exists
  <2>5. ASSUME NEW x \in Shop, shop[x] = "deleted", shop' = [shop EXCEPT ![x] = "old"],
               UNCHANGED <<client, vehicle, order>>
        PROVE  Kept
    BY <1>t, <1>5, <2>1, <2>5 DEF PurgeOK
  <2>q. QED BY <1>8, <2>2, <2>3, <2>4, <2>5 DEF Age
<1>q. QED BY <1>6, <1>7, <1>8

-----------------------------------------------------------------------------
(* Requests that read *)

\* A request that moves without writing keeps the invariant when what it has
\* in hand is right.
LEMMA MoveKeeps ==
  ASSUME IInv, NEW r \in Requests, NEW s \in RequestState, req' = [req EXCEPT ![r] = s],
         UNCHANGED <<client, vehicle, order, shop, cleanup, deletes, raced>>, RequestOK(r)'
  PROVE  Kept
<1>1. Typed' /\ \A q \in Requests : req'[q] = req[q] \/ RequestOK(q)'
  BY DEF IInv, Typed
<1>2. VehiclesStay /\ OrdersStay /\ NoneBooked /\ RowsStay
  BY DEF VehiclesStay, OrdersStay, NoneBooked, Booked, RowsStay
<1>3. PurgeOK'
  BY PurgeKept DEF IInv
<1>q. QED BY <1>1, <1>2, <1>3, StepKeeps

\* A request that has ended holds nothing.
LEMMA EndKeeps ==
  ASSUME IInv, NEW r \in Requests, Ends(r),
         UNCHANGED <<client, vehicle, order, shop, cleanup, deletes, raced>>
  PROVE  Kept
<1>1. Ended \in RequestState /\ req' = [req EXCEPT ![r] = Ended] /\ Ended.pc = "done"
  BY DEF Ends, Ended, Idle, RequestState
<1>2. req'[r].pc = "done"
  BY <1>1 DEF IInv, Typed
<1>3. RequestOK(r)'
  BY <1>2 DEF RequestOK, InHand, Seen, Fresh, FirstOfPhone
<1>q. QED BY <1>1, <1>3, MoveKeeps

\* The booking's reads: without a client there is none of a booking with this
\* phone, and the vehicle that is found is there.
LEMMA BookingReadsKeeps ==
  ASSUME IInv, NEW r \in Requests, NEW p \in Phones, NEW x \in Plates, BookingReads(r, p, x)
  PROVE  Kept
<1> DEFINE found == {c \in Clients : Live(client[c]) /\ client[c].phone = p}
           cars(c) == {v \in Vehicles : Live(vehicle[v]) /\ vehicle[v].client = c
                                                         /\ vehicle[v].plate = x}
<1>1. PICK c \in IF found = {} THEN {None} ELSE found :
      \E v \in IF c = None \/ cars(c) = {} THEN {None} ELSE cars(c) :
        req' = [req EXCEPT ![r] = [Idle EXCEPT !.pc = "book", !.phone = p, !.plate = x,
                                               !.client = c, !.vehicle = v]]
  BY DEF BookingReads
<1>2. PICK v \in IF c = None \/ cars(c) = {} THEN {None} ELSE cars(c) :
        req' = [req EXCEPT ![r] = [Idle EXCEPT !.pc = "book", !.phone = p, !.plate = x,
                                               !.client = c, !.vehicle = v]]
  BY <1>1
<1> DEFINE s == [pc |-> "book", phone |-> p, plate |-> x, client |-> c, vehicle |-> v,
                 branch |-> None, services |-> {}, into |-> None, from |-> {}, known |-> {},
                 stale |-> FALSE]
<1>3. req' = [req EXCEPT ![r] = s] /\ UNCHANGED <<client, vehicle, order, shop, cleanup, deletes, raced>>
  BY ZenonT(60), <1>2 DEF Idle, BookingReads, rows
<1>4. /\ c \in Clients \cup {None} /\ v \in Vehicles \cup {None}
      /\ c = None => v = None /\ ~ \E d \in Clients : Live(client[d]) /\ client[d].phone = p
      /\ v # None => vehicle[v].state # "none"
  BY ClientRecordsAssumption DEF Live
<1>5. s \in RequestState
  BY <1>4 DEF RequestState
<1>6. req'[r] = s
  BY <1>3 DEF IInv, Typed
<1>7. RequestOK(r)'
  BY <1>3, <1>4, <1>6 DEF RequestOK, InHand, Seen, Fresh, FirstOfPhone
<1>q. QED BY <1>3, <1>5, <1>7, MoveKeeps

\* Staff pick rows that are live.
LEMMA StaffOrderKeeps ==
  ASSUME IInv, NEW r \in Requests, NEW c \in Clients, NEW v \in Vehicles, StaffOrder(r, c, v)
  PROVE  Kept
<1> DEFINE s == [Idle EXCEPT !.pc = "booked", !.client = c, !.vehicle = v]
<1>1. /\ Live(vehicle[v]) /\ req' = [req EXCEPT ![r] = s]
      /\ UNCHANGED <<client, vehicle, order, shop, cleanup, deletes, raced>>
  BY DEF StaffOrder, rows
<1>2. s \in RequestState /\ s.pc = "booked" /\ s.client = c /\ s.vehicle = v
  BY DEF RequestState, Idle
<1> HIDE DEF s
<1>3. req'[r] = s
  BY <1>1 DEF IInv, Typed
<1>4. RequestOK(r)'
  BY <1>1, <1>2, <1>3 DEF RequestOK, InHand, Seen, Fresh, FirstOfPhone, Live
<1>q. QED BY <1>1, <1>2, <1>4, MoveKeeps

\* validateClientVehicleOwnership: the vehicle is the client's when it is read.
LEMMA OrderReadsKeeps ==
  ASSUME IInv, NEW r \in Requests, OrderReads(r)
  PROVE  Kept
<1>1. req[r].pc = "booked" /\ UNCHANGED <<client, vehicle, order, shop, cleanup, deletes, raced>>
  BY DEF OrderReads, rows
<1>2. CASE Ends(r)
  BY <1>1, <1>2, EndKeeps
<1>3. ASSUME NEW b \in Branches, NEW list \in SUBSET Services,
             vehicle[req[r].vehicle].client = req[r].client,
             req' = [req EXCEPT ![r].pc = "order", ![r].branch = b, ![r].services = list,
                                ![r].stale = FALSE]
      PROVE  Kept
  <2> DEFINE s == [req[r] EXCEPT !.pc = "order", !.branch = b, !.services = list, !.stale = FALSE]
  <2>1. req[r] \in RequestState /\ InHand(r) /\ Seen(r)
    BY DEF IInv, Typed, RequestOK
  <2>2. /\ s \in RequestState /\ s.pc = "order" /\ s.stale = FALSE
        /\ s.client = req[r].client /\ s.vehicle = req[r].vehicle
    BY <2>1 DEF RequestState
  <2>3. req' = [req EXCEPT ![r] = s]
    BY <1>3 DEF IInv, Typed
  <2> HIDE DEF s
  <2>4. req'[r] = s
    BY <2>3 DEF IInv, Typed
  <2>5. RequestOK(r)'
    BY <1>1, <1>3, <2>1, <2>2, <2>4 DEF RequestOK, InHand, Seen, Fresh, FirstOfPhone
  <2>q. QED BY <1>1, <2>2, <2>3, <2>5, MoveKeeps
<1>q. QED BY <1>2, <1>3 DEF OrderReads

\* Merge reads the vehicles of both clients, and with them those of the orders
\* of the source.
LEMMA MergeReadsKeeps ==
  ASSUME IInv, NEW r \in Requests, NEW c \in Clients, NEW d \in Clients,
         NEW p \in Phones \cup {None}, MergeReads(r, c, d, p)
  PROVE  Kept
<1> DEFINE s == [Idle EXCEPT !.pc = "merge", !.phone = p, !.client = c, !.into = d,
                             !.from = CarsOf(c), !.known = CarsOf(d)]
<1>1. /\ c # d /\ req' = [req EXCEPT ![r] = s]
      /\ UNCHANGED <<client, vehicle, order, shop, cleanup, deletes, raced>>
  BY DEF MergeReads, rows
<1>2. /\ s \in RequestState /\ s.pc = "merge" /\ s.client = c /\ s.into = d
      /\ s.from = CarsOf(c) /\ s.known = CarsOf(d)
  <2>1. CarsOf(c) \subseteq Vehicles /\ CarsOf(d) \subseteq Vehicles
    BY DEF CarsOf
  <2>q. QED BY <2>1 DEF RequestState, Idle
<1> HIDE DEF s
<1>3. req'[r] = s
  BY <1>1 DEF IInv, Typed
<1>4. /\ \A v \in CarsOf(c) : v \in Vehicles /\ vehicle[v].client = c /\ vehicle[v].state # "none"
      /\ \A v \in CarsOf(d) : v \in Vehicles /\ vehicle[v].client = d /\ vehicle[v].state # "none"
  BY DEF CarsOf, Exists
<1>5. ~raced => \A o \in Orders : Exists(order[o]) /\ order[o].client = c
                                    => order[o].vehicle \in CarsOf(c)
  <2>1. \A o \in Orders : Exists(order[o]) =>
          order[o].vehicle \in Vehicles /\ Exists(vehicle[order[o].vehicle])
    BY DEF IInv, Typed, Inserted
  <2>q. QED BY <2>1 DEF CarsOf, Exists, IInv, OwnershipKept
<1>6. RequestOK(r)'
  <2>1. InHand(r)' /\ FirstOfPhone(r)'
    BY <1>1, <1>2, <1>3 DEF InHand, FirstOfPhone
  <2>2. Seen(r)'
    BY <1>1, <1>2, <1>3, <1>4 DEF Seen
  <2>3. Fresh(r)'
    BY <1>1, <1>2, <1>3, <1>4, <1>5 DEF Fresh
  <2>q. QED BY <2>1, <2>2, <2>3 DEF RequestOK
<1>q. QED BY <1>1, <1>2, <1>6, MoveKeeps

-----------------------------------------------------------------------------
(* Requests that write *)

\* The find-or-create commits: its client is the first of its phone, and every
\* other booking that missed the same row is stale from now on.
LEMMA BookingCommitsKeeps ==
  ASSUME IInv, NEW r \in Requests, BookingCommits(r)
  PROVE  Kept
<1>1. PICK c \in Clients, v \in Vehicles :
       /\ IF req[r].client = None
            THEN /\ client[c] = NoClient
                 /\ client' = [client EXCEPT ![c] = [state |-> "live", phone |-> req[r].phone,
                                                     by |-> "booking"]]
            ELSE c = req[r].client /\ UNCHANGED client
       /\ IF req[r].vehicle = None
            THEN /\ vehicle[v] = NoVehicle
                 /\ req[r].client # None => Exists(client[c]) /\ ~Held("clients", c)
                 /\ vehicle' = [vehicle EXCEPT ![v] = [state |-> "live", client |-> c,
                                                       plate |-> req[r].plate]]
            ELSE v = req[r].vehicle /\ UNCHANGED vehicle
       /\ req' = [q \in Requests |->
            IF q = r THEN [req[r] EXCEPT !.pc = "booked", !.client = c, !.vehicle = v]
            ELSE IF req[r].vehicle = None /\ Conflicts(r, q) THEN [req[q] EXCEPT !.stale = TRUE]
            ELSE req[q]]
  BY DEF BookingCommits
<1>2. /\ req[r].pc = "book" /\ ~req[r].stale /\ UNCHANGED <<order, shop, cleanup, deletes, raced>>
      /\ req[r] \in RequestState /\ InHand(r) /\ Seen(r) /\ FirstOfPhone(r)
      /\ client \in [Clients -> ClientRow] /\ vehicle \in [Vehicles -> VehicleRow]
  BY DEF BookingCommits, IInv, Typed, RequestOK
<1>3. /\ client' \in [Clients -> ClientRow]
      /\ \A d \in Clients \ {c} : client'[d] = client[d]
      /\ req[r].client # None => client' = client
      /\ req[r].client = None => client'[c].state = "live" /\ client'[c].phone = req[r].phone
      /\ \A d \in Clients : Exists(client[d]) => Exists(client'[d])
  BY <1>1, <1>2 DEF InHand, ClientRow, RowStates, Exists, NoClient
<1>4. /\ vehicle' \in [Vehicles -> VehicleRow]
      /\ \A u \in Vehicles : vehicle'[u].state # "none" =>
           \/ vehicle'[u] = vehicle[u]
           \/ /\ vehicle[u].state = "none" /\ vehicle'[u].client = c
              /\ Exists(client'[c])
      /\ vehicle'[v].state # "none"
      /\ VehiclesStay
      /\ \A u \in Vehicles : Exists(vehicle[u]) => Exists(vehicle'[u])
  BY <1>1, <1>2, <1>3 DEF InHand, Seen, VehicleRow, RowStates, Exists, NoVehicle, VehiclesStay
<1>5. OrdersStay /\ RowsStay /\ Inserted' /\ PurgeOK'
  <2>1. OrdersStay /\ RowsStay
    BY <1>2, <1>3, <1>4 DEF OrdersStay, RowsStay
  <2>2. Inserted'
    BY <1>2, <2>1 DEF RowsStay, IInv, Typed, Inserted
  <2>3. /\ \A d \in cleanup.clients : client'[d] = client[d]
        /\ \A u \in cleanup.vehicles : vehicle'[u] = vehicle[u]
    <3>1. cleanup.clients \subseteq Clients /\ cleanup.vehicles \subseteq Vehicles /\ PurgeOK
      BY DEF IInv, Typed, CleanupState
    <3>q. QED BY <1>1, <1>2, <3>1 DEF PurgeOK, NoClient, NoVehicle
  <2>4. PurgeOK'
    BY <1>2, <2>3, PurgeKept DEF IInv
  <2>q. QED BY <2>1, <2>2, <2>4
<1>6. /\ req' \in [Requests -> RequestState]
      /\ req'[r].pc = "booked" /\ req'[r].client = c /\ req'[r].vehicle = v
      /\ \A q \in Requests \ {r} :
           \/ req'[q] = req[q] /\ ~(req[r].vehicle = None /\ Conflicts(r, q))
           \/ req'[q] = [req[q] EXCEPT !.stale = TRUE] /\ req[q].pc = "book"
  <2>1. req \in [Requests -> RequestState]
    BY DEF IInv, Typed
  <2>2. [req[r] EXCEPT !.pc = "booked", !.client = c, !.vehicle = v] \in RequestState
    <3> DEFINE s == [req[r] EXCEPT !.pc = "booked", !.client = c, !.vehicle = v]
    <3>1. req[r] \in RequestState
      BY <2>1
    <3>2. s \in RequestState /\ s.pc = "booked" /\ s.client = c /\ s.vehicle = v
      BY <3>1 DEF RequestState
    <3>q. QED BY <3>2
  <2>3. \A q \in Requests : [req[q] EXCEPT !.stale = TRUE] \in RequestState
    <3> TAKE q \in Requests
    <3>1. req[q] \in RequestState
      BY <2>1
    <3> DEFINE s == [req[q] EXCEPT !.stale = TRUE]
    <3>2. s \in RequestState /\ s.stale = TRUE
      BY <3>1 DEF RequestState
    <3>q. QED BY <3>2
  <2>4. req' \in [Requests -> RequestState]
    BY <1>1, <2>1, <2>2, <2>3
  <2>5. req'[r].pc = "booked" /\ req'[r].client = c /\ req'[r].vehicle = v
    BY <1>1, <2>1 DEF RequestState
  <2>q. QED BY <1>1, <2>4, <2>5 DEF Conflicts
<1>7. Typed'
  BY <1>2, <1>3, <1>4, <1>6 DEF IInv, Typed, Exists
<1>8. BookingsShareClient'
  <2>1. CASE req[r].client # None
    BY <1>3, <2>1 DEF IInv, BookingsShareClient
  <2>2. CASE req[r].client = None
    BY <1>2, <1>3, <2>2 DEF IInv, BookingsShareClient, FirstOfPhone
  <2>q. QED BY <2>1, <2>2
<1>9. ASSUME NEW q \in Requests PROVE RequestOK(q)'
  <2>1. CASE q = r
    BY <1>4, <1>6, <2>1 DEF RequestOK, InHand, Seen, Fresh, FirstOfPhone
  <2>2. CASE q # r /\ req'[q] = [req[q] EXCEPT !.stale = TRUE] /\ req[q].pc = "book"
    <3>1. /\ req'[q].pc = "book" /\ req'[q].stale /\ req'[q].phone = req[q].phone
          /\ req'[q].plate = req[q].plate
          /\ req'[q].client = req[q].client /\ req'[q].vehicle = req[q].vehicle
          /\ req[q].vehicle \in Vehicles \cup {None}
      BY <2>2 DEF IInv, Typed, RequestState
    <3>2. InHand(q) /\ Seen(q)
      BY DEF IInv, RequestOK
    <3>q. QED
      BY <1>4, <2>2, <3>1, <3>2 DEF RequestOK, InHand, Seen, Fresh, FirstOfPhone, VehiclesStay
  <2>3. CASE q # r /\ req'[q] = req[q] /\ ~(req[r].vehicle = None /\ Conflicts(r, q))
    <3>1. InHand(q)' /\ Seen(q)' /\ Fresh(q)'
      BY <1>2, <1>4, <1>5, <2>3, OwnershipStays
    <3>2. FirstOfPhone(q)'
      <4>1. FirstOfPhone(q) /\ InHand(q)
        BY DEF IInv, RequestOK
      <4>2. CASE req[r].client # None
        BY <1>3, <2>3, <4>1, <4>2 DEF FirstOfPhone
      <4>3. CASE req[r].client = None
        <5>1. req[r].vehicle = None
          BY <1>2, <4>3 DEF InHand
        <5>2. req[q].pc = "book" /\ req[q].client = None => req[q].phone # req[r].phone
          BY <2>3, <4>1, <4>3, <5>1 DEF Conflicts, InHand
        <5>q. QED BY <1>3, <2>3, <4>1, <4>3, <5>2 DEF FirstOfPhone
      <4>q. QED BY <4>2, <4>3
    <3>q. QED BY <3>1, <3>2 DEF RequestOK
  <2>q. QED BY <1>6, <2>1, <2>2, <2>3
<1>10. OnlyOldRowsGo
  BY <1>5 DEF RowsStay, OnlyOldRowsGo
<1>q. QED BY <1>2, <1>4, <1>5, <1>7, <1>8, <1>9, <1>10, OwnershipStays DEF IInv, Kept

\* The order is inserted with a vehicle that is still its client's, unless
\* something has raced; a merge under way would not know of it.
LEMMA OrderCommitsKeeps ==
  ASSUME IInv, NEW r \in Requests, OrderCommits(r)
  PROVE  Kept
<1>1. /\ req[r].pc = "order" /\ req' = [req EXCEPT ![r] = Ended]
      /\ ~Held("clients", req[r].client) /\ ~Held("vehicles", req[r].vehicle)
      /\ UNCHANGED <<client, vehicle, shop, cleanup, deletes>>
  BY DEF OrderCommits, Ends
<1>2. CASE UNCHANGED <<order, raced>>
  BY <1>1, <1>2, EndKeeps DEF Ends
<1>3. CASE /\ Exists(client[req[r].client]) /\ Exists(vehicle[req[r].vehicle])
           /\ \E o \in Orders : /\ order[o] = NoOrder
                                /\ order' = [order EXCEPT ![o] =
                                     [state |-> "live", client |-> req[r].client,
                                      vehicle |-> req[r].vehicle, branch |-> req[r].branch,
                                      services |-> req[r].services]]
           /\ raced' = \/ raced \/ req[r].stale
                       \/ \E q \in Requests : req[q].pc = "merge" /\ req[q].client = req[r].client
  <2>1. PICK o \in Orders : /\ order[o] = NoOrder
                            /\ order' = [order EXCEPT ![o] =
                                 [state |-> "live", client |-> req[r].client,
                                  vehicle |-> req[r].vehicle, branch |-> req[r].branch,
                                      services |-> req[r].services]]
    BY <1>3
  <2>2. /\ req[r].client \in Clients /\ req[r].vehicle \in Vehicles
        /\ req[r].stale \in BOOLEAN /\ raced \in BOOLEAN
        /\ InHand(r) /\ Fresh(r) /\ req \in [Requests -> RequestState]
    BY <1>1 DEF IInv, RequestOK, InHand, Typed, RequestState
  <2>3. /\ order' \in [Orders -> OrderRow]
        /\ order'[o].client = req[r].client /\ order'[o].vehicle = req[r].vehicle
        /\ \A p \in Orders \ {o} : order'[p] = order[p]
    <3>1. /\ req[r].branch \in Branches \cup {None} /\ req[r].services \in SUBSET Services
      BY <2>2 DEF RequestState
    <3>q. QED BY <2>1, <2>2, <3>1 DEF IInv, Typed, OrderRow, RowStates
  <2>4. /\ raced' \in BOOLEAN
        /\ raced \/ req[r].stale => raced'
        /\ \A q \in Requests : req[q].pc = "merge" /\ req[q].client = req[r].client => raced'
    BY <1>3, <2>2
  <2>5. /\ Ended \in RequestState /\ Ended.pc = "done" /\ req' \in [Requests -> RequestState]
        /\ req'[r].pc = "done" /\ \A q \in Requests \ {r} : req'[q] = req[q]
    BY <1>1, <2>2 DEF Ended, Idle, RequestState
  <2>6. Typed'
    BY <1>1, <2>2, <2>3, <2>4, <2>5 DEF IInv, Typed
  <2>7. Inserted' /\ PurgeOK' /\ OnlyOldRowsGo
    <3>1. Inserted'
      BY <1>1, <1>3, <2>3 DEF IInv, Inserted
    <3>2. PurgeOK'
      <4>1. /\ o \notin cleanup.orders \cup (cleanup.lines \ cleanup.restored)
            /\ cleanup.orders \cup (cleanup.lines \ cleanup.restored) \subseteq Orders
        BY <2>1 DEF IInv, PurgeOK, NoOrder, Typed, CleanupState
      <4>q. QED BY <1>1, <2>3, <4>1, PurgeKept DEF IInv, Held
    <3>3. OnlyOldRowsGo
      BY <1>1, <2>1, <2>3 DEF OnlyOldRowsGo, NoOrder, Exists
    <3>q. QED BY <3>1, <3>2, <3>3
  <2>8. OwnershipKept'
    <3>1. ~raced' => vehicle[req[r].vehicle].client = req[r].client
      BY <1>1, <2>2, <2>4 DEF Fresh
    <3>q. QED BY <1>1, <2>3, <2>4, <3>1 DEF IInv, OwnershipKept
  <2>9. NoneBooked
    BY <1>1 DEF NoneBooked, Booked
  <2>10. ASSUME NEW q \in Requests PROVE RequestOK(q)'
    <3>1. CASE q = r
      BY <2>5, <3>1 DEF RequestOK, InHand, Seen, Fresh, FirstOfPhone
    <3>2. CASE q # r
      <4>1. req'[q] = req[q] /\ FirstOfPhone(q)' /\ InHand(q) /\ Seen(q) /\ Fresh(q)
        BY <2>5, <2>9, <3>2, ShareKept DEF IInv, RequestOK
      <4>2. InHand(q)' /\ Seen(q)'
        BY <1>1, <4>1 DEF InHand, Seen
      <4>3. Fresh(q)'
        BY <1>1, <2>3, <2>4, <4>1 DEF Fresh
      <4>q. QED BY <4>1, <4>2, <4>3 DEF RequestOK
    <3>q. QED BY <3>1, <3>2
  <2>q. QED BY <2>6, <2>7, <2>8, <2>9, <2>10, ShareKept DEF IInv, Kept
<1>q. QED BY <1>2, <1>3 DEF OrderCommits

\* What a merge does to a row that it moves or retires.
LEMMA MergedRows ==
  ASSUME IInv, NEW r \in Requests, req[r].pc = "merge", MergeRows(r),
         Exists(client[req[r].client]), Exists(client[req[r].into]),
         \A v \in req[r].from :
           /\ Exists(vehicle[v])
           /\ \A t \in Twin(r, v), o \in Orders :
                Exists(order[o]) /\ order[o].vehicle = v => Exists(vehicle[t])
  PROVE  /\ client' \in [Clients -> ClientRow] /\ vehicle' \in [Vehicles -> VehicleRow]
         /\ order' \in [Orders -> OrderRow] /\ NoneBooked
         /\ \A c \in Clients : Exists(client'[c]) <=> Exists(client[c])
         /\ \A v \in Vehicles :
              /\ Exists(vehicle'[v]) <=> Exists(vehicle[v])
              /\ vehicle'[v].state = "none" <=> vehicle[v].state = "none"
              /\ vehicle'[v].client = IF v \in req[r].from /\ Twin(r, v) = {} THEN req[r].into
                                      ELSE vehicle[v].client
         /\ \A c \in Clients \ {req[r].client} : client'[c].state = client[c].state
         /\ \A v \in Vehicles \ req[r].from : vehicle'[v].state = vehicle[v].state
         /\ \A o \in Orders :
              /\ order'[o].state = order[o].state /\ order'[o].services = order[o].services
              /\ ~Exists(order[o]) => /\ order'[o].client = order[o].client
                                      /\ order'[o].vehicle = order[o].vehicle
              /\ Exists(order[o]) =>
                   /\ order'[o].client = IF order[o].client = req[r].client THEN req[r].into
                                         ELSE order[o].client
                   /\ IF order[o].vehicle \in req[r].from /\ Twin(r, order[o].vehicle) # {}
                      THEN order'[o].vehicle \in Twin(r, order[o].vehicle)
                      ELSE order'[o].vehicle = order[o].vehicle
<1> DEFINE c == req[r].client
           d == req[r].into
           gone(v) == v \in req[r].from /\ Twin(r, v) # {}
<1>1. /\ c \in Clients /\ d \in Clients /\ c # d
      /\ req[r].from \subseteq Vehicles /\ req[r].known \subseteq Vehicles
      /\ client \in [Clients -> ClientRow] /\ vehicle \in [Vehicles -> VehicleRow]
      /\ order \in [Orders -> OrderRow]
      /\ \A o \in Orders : Exists(order[o]) => order[o].client \in Clients /\ order[o].vehicle \in Vehicles
  BY DEF IInv, RequestOK, InHand, Typed, RequestState, Exists
<1>2. \A v : Twin(r, v) \subseteq Vehicles
  BY <1>1 DEF Twin
<1>3. PICK twin \in [req[r].from -> Vehicles] :
        /\ \A v \in req[r].from : gone(v) => twin[v] \in Twin(r, v)
        /\ order' = [o \in Orders |->
             [order[o] EXCEPT !.vehicle = IF Exists(order[o]) /\ gone(@) THEN twin[@] ELSE @,
                              !.client = IF Exists(order[o]) /\ @ = c THEN d ELSE @]]
  BY DEF MergeRows
<1>4. /\ vehicle' = [v \in Vehicles |->
            IF gone(v) THEN [vehicle[v] EXCEPT !.state = "deleted"]
            ELSE IF v \in req[r].from THEN [vehicle[v] EXCEPT !.client = d]
            ELSE vehicle[v]]
      /\ client' = [client EXCEPT
           ![d] = IF req[r].phone \in {None, @.phone} THEN @
                  ELSE [@ EXCEPT !.phone = req[r].phone, !.by = "staff"],
           ![c].state = "deleted"]
  BY DEF MergeRows
<1>5. /\ client' \in [Clients -> ClientRow] /\ NoneBooked
      /\ \A x \in Clients : Exists(client'[x]) <=> Exists(client[x])
      /\ \A x \in Clients \ {c} : client'[x].state = client[x].state
  <2>0. req[r].phone \in Phones \cup {None} /\ client[c] \in ClientRow /\ client[d] \in ClientRow
    BY <1>1 DEF IInv, Typed, RequestState
  <2>1. /\ client'[c] = [client[c] EXCEPT !.state = "deleted"]
        /\ client'[d] = IF req[r].phone \in {None, client[d].phone} THEN client[d]
                        ELSE [client[d] EXCEPT !.phone = req[r].phone, !.by = "staff"]
        /\ \A x \in Clients \ {c, d} : client'[x] = client[x]
        /\ client' = [x \in Clients |-> client'[x]]
    BY <1>1, <1>4
  <2>2. /\ client'[c] \in ClientRow /\ client'[c].state = "deleted"
    BY <2>0, <2>1 DEF ClientRow, RowStates
  <2>3. /\ client'[d] \in ClientRow /\ client'[d].state = client[d].state
        /\ \/ client'[d] = client[d]
           \/ client'[d].by = "staff"
    <3>1. CASE req[r].phone \in {None, client[d].phone}
      BY <2>0, <2>1, <3>1
    <3>2. CASE req[r].phone \notin {None, client[d].phone}
      <4>1. client'[d] = [client[d] EXCEPT !.phone = req[r].phone, !.by = "staff"]
        BY <2>1, <3>2
      <4>q. QED BY <2>0, <4>1 DEF ClientRow
    <3>q. QED BY <3>1, <3>2
  <2>4. client' \in [Clients -> ClientRow]
    BY <1>1, <2>1, <2>2, <2>3
  <2>5. \A x \in Clients : Exists(client'[x]) <=> Exists(client[x])
    BY <1>1, <2>1, <2>2, <2>3 DEF Exists
  <2>6. NoneBooked
    BY <1>1, <2>1, <2>2, <2>3 DEF NoneBooked, Booked, Live
  <2>q. QED BY <1>1, <2>1, <2>3, <2>4, <2>5, <2>6
<1>6. ASSUME NEW v \in Vehicles
      PROVE  /\ vehicle'[v] \in VehicleRow
             /\ Exists(vehicle'[v]) <=> Exists(vehicle[v])
             /\ vehicle'[v].state = "none" <=> vehicle[v].state = "none"
             /\ v \notin req[r].from => vehicle'[v].state = vehicle[v].state
             /\ vehicle'[v].client = IF v \in req[r].from /\ Twin(r, v) = {} THEN d
                                     ELSE vehicle[v].client
  <2>0. vehicle[v] \in VehicleRow
    BY <1>1
  <2>1. CASE gone(v)
    <3>1. vehicle'[v] = [vehicle[v] EXCEPT !.state = "deleted"] /\ Exists(vehicle[v])
      BY <1>4, <2>1
    <3>2. /\ vehicle'[v] \in VehicleRow /\ vehicle'[v].state = "deleted"
          /\ vehicle'[v].client = vehicle[v].client
      BY <2>0, <3>1 DEF VehicleRow, RowStates
    <3>q. QED BY <2>1, <3>1, <3>2 DEF Exists
  <2>2. CASE ~gone(v) /\ v \in req[r].from
    <3>1. vehicle'[v] = [vehicle[v] EXCEPT !.client = d]
      BY <1>4, <2>2
    <3>2. /\ vehicle'[v] \in VehicleRow /\ vehicle'[v].state = vehicle[v].state
          /\ vehicle'[v].client = d
      BY <1>1, <2>0, <3>1 DEF VehicleRow
    <3>q. QED BY <2>2, <3>2 DEF Exists
  <2>3. CASE v \notin req[r].from
    BY <1>1, <1>4, <2>3 DEF VehicleRow, RowStates, Exists
  <2>q. QED BY <2>1, <2>2, <2>3
<1>7. vehicle' \in [Vehicles -> VehicleRow]
  BY <1>4, <1>6
<1>8. ASSUME NEW o \in Orders
      PROVE  /\ order'[o] \in OrderRow
             /\ order'[o].state = order[o].state /\ order'[o].services = order[o].services
             /\ ~Exists(order[o]) => /\ order'[o].client = order[o].client
                                     /\ order'[o].vehicle = order[o].vehicle
             /\ Exists(order[o]) =>
                  /\ order'[o].client = IF order[o].client = c THEN d ELSE order[o].client
                  /\ IF gone(order[o].vehicle)
                     THEN order'[o].vehicle \in Twin(r, order[o].vehicle)
                     ELSE order'[o].vehicle = order[o].vehicle
  <2> DEFINE w == IF Exists(order[o]) /\ gone(order[o].vehicle) THEN twin[order[o].vehicle]
                  ELSE order[o].vehicle
             x == IF Exists(order[o]) /\ order[o].client = c THEN d ELSE order[o].client
  <2>1. order[o] \in OrderRow /\ w \in Vehicles \cup {None} /\ x \in Clients \cup {None}
    BY <1>1, <1>3 DEF OrderRow
  <2>2. order'[o] = [order[o] EXCEPT !.vehicle = w, !.client = x]
    BY <1>1, <1>3 DEF OrderRow
  <2>3. ~Exists(order[o]) => w = order[o].vehicle /\ x = order[o].client
    OBVIOUS
  <2>4. Exists(order[o]) =>
          /\ x = IF order[o].client = c THEN d ELSE order[o].client
          /\ IF gone(order[o].vehicle) THEN w \in Twin(r, order[o].vehicle)
             ELSE w = order[o].vehicle
    BY <1>3
  <2> HIDE DEF w, x
  <2>5. /\ order'[o] \in OrderRow /\ order'[o].state = order[o].state
        /\ order'[o].services = order[o].services
        /\ order'[o].vehicle = w /\ order'[o].client = x
    BY <2>1, <2>2 DEF OrderRow
  <2>q. QED BY <2>3, <2>4, <2>5
<1>9. order' \in [Orders -> OrderRow]
  BY <1>3, <1>8
<1>q. QED BY <1>5, <1>6, <1>7, <1>8, <1>9

\* A merge that knew the rows it moves leaves every order with a vehicle of its
\* client: the source's orders and vehicles go together.
LEMMA MergeCommitsKeeps ==
  ASSUME IInv, NEW r \in Requests, MergeCommits(r)
  PROVE  Kept
<1>1. /\ req[r].pc = "merge" /\ UNCHANGED <<shop, cleanup, deletes>>
      /\ \A v \in req[r].from \cup req[r].known : v \notin cleanup.vehicles
      /\ req[r].client \notin cleanup.clients
  BY DEF MergeCommits, Held
<1>2. CASE Ends(r) /\ UNCHANGED <<rows, raced>>
  BY <1>1, <1>2, EndKeeps DEF rows
<1>3. CASE /\ Exists(client[req[r].client]) /\ Exists(client[req[r].into])
           /\ \A v \in req[r].from :
                /\ Exists(vehicle[v])
                /\ \A t \in Twin(r, v), o \in Orders :
                     Exists(order[o]) /\ order[o].vehicle = v => Exists(vehicle[t])
           /\ MergeRows(r)
           /\ raced' = (raced \/ req[r].stale)
           /\ req' = [q \in Requests |->
                IF q = r THEN Ended
                ELSE [req[q] EXCEPT !.stale = @ \/ req[q].pc \in {"order", "merge"}]]
  <2> DEFINE c == req[r].client
             d == req[r].into
  <2>1. /\ client' \in [Clients -> ClientRow] /\ vehicle' \in [Vehicles -> VehicleRow]
        /\ order' \in [Orders -> OrderRow] /\ NoneBooked
        /\ \A x \in Clients : Exists(client'[x]) <=> Exists(client[x])
        /\ \A v \in Vehicles :
             /\ Exists(vehicle'[v]) <=> Exists(vehicle[v])
             /\ vehicle'[v].state = "none" <=> vehicle[v].state = "none"
             /\ vehicle'[v].client = IF v \in req[r].from /\ Twin(r, v) = {} THEN d
                                     ELSE vehicle[v].client
        /\ \A x \in Clients \ {c} : client'[x].state = client[x].state
        /\ \A v \in Vehicles \ req[r].from : vehicle'[v].state = vehicle[v].state
        /\ \A o \in Orders :
             /\ order'[o].state = order[o].state /\ order'[o].services = order[o].services
             /\ ~Exists(order[o]) => /\ order'[o].client = order[o].client
                                     /\ order'[o].vehicle = order[o].vehicle
             /\ Exists(order[o]) =>
                  /\ order'[o].client = IF order[o].client = c THEN d ELSE order[o].client
                  /\ IF order[o].vehicle \in req[r].from /\ Twin(r, order[o].vehicle) # {}
                     THEN order'[o].vehicle \in Twin(r, order[o].vehicle)
                     ELSE order'[o].vehicle = order[o].vehicle
    BY <1>1, <1>3, MergedRows
  <2>2. /\ c \in Clients /\ d \in Clients /\ c # d /\ Fresh(r)
        /\ req[r].from \subseteq Vehicles /\ req[r].known \subseteq Vehicles
        /\ req[r].stale \in BOOLEAN /\ raced \in BOOLEAN /\ req \in [Requests -> RequestState]
        /\ \A o \in Orders : Exists(order[o]) =>
             order[o].client \in Clients /\ order[o].vehicle \in Vehicles
    BY <1>1 DEF IInv, RequestOK, InHand, Typed, RequestState
  <2>3. \A v : Twin(r, v) \subseteq req[r].known
    BY DEF Twin
  <2>4. \A o \in Orders : Exists(order'[o]) <=> Exists(order[o])
    BY <2>1 DEF Exists
  <2>5. ASSUME NEW q \in Requests
        PROVE  /\ req'[q] \in RequestState
               /\ q = r => req'[q].pc = "done"
               /\ q # r =>
                    /\ req'[q].pc = req[q].pc /\ req'[q].phone = req[q].phone
                    /\ req'[q].plate = req[q].plate /\ req'[q].client = req[q].client
                    /\ req'[q].vehicle = req[q].vehicle /\ req'[q].into = req[q].into
                    /\ req'[q].from = req[q].from /\ req'[q].known = req[q].known
                    /\ req'[q].stale <=> req[q].stale \/ req[q].pc \in {"order", "merge"}
    <3>1. CASE q = r
      BY <1>3, <3>1 DEF Ended, Idle, RequestState
    <3>2. CASE q # r
      <4> DEFINE b == req[q].stale \/ req[q].pc \in {"order", "merge"}
      <4>1. req'[q] = [req[q] EXCEPT !.stale = b] /\ req[q] \in RequestState /\ b \in BOOLEAN
        BY <1>3, <2>2, <3>2 DEF RequestState
      <4> HIDE DEF b
      <4>2. req'[q] \in RequestState /\ req'[q].stale = b /\ req'[q].pc = req[q].pc
        BY <4>1 DEF RequestState
      <4>3. /\ req'[q].phone = req[q].phone
            /\ req'[q].plate = req[q].plate /\ req'[q].client = req[q].client
            /\ req'[q].vehicle = req[q].vehicle /\ req'[q].into = req[q].into
            /\ req'[q].from = req[q].from /\ req'[q].known = req[q].known
        BY <4>1 DEF RequestState
      <4>q. QED BY <3>2, <4>2, <4>3 DEF b
    <3>q. QED BY <3>1, <3>2
  <2>6. Typed'
    <3>1. req' \in [Requests -> RequestState] /\ raced' \in BOOLEAN
      BY <1>3, <2>2, <2>5
    <3>2. \A v \in Vehicles : Exists(vehicle'[v]) => vehicle'[v].client \in Clients
      BY <2>1, <2>2 DEF IInv, Typed
    <3>3. \A o \in Orders : Exists(order'[o]) =>
            order'[o].client \in Clients /\ order'[o].vehicle \in Vehicles
      BY <2>1, <2>2, <2>3, <2>4
    <3>q. QED BY <1>1, <2>1, <3>1, <3>2, <3>3 DEF IInv, Typed
  <2>7. Inserted'
    <3> SUFFICES ASSUME NEW o \in Orders, Exists(order'[o])
                 PROVE  Exists(vehicle'[order'[o].vehicle])
      BY DEF Inserted
    <3>1. Exists(order[o]) /\ order[o].vehicle \in Vehicles /\ Exists(vehicle[order[o].vehicle])
      BY <2>2, <2>4 DEF IInv, Inserted
    <3>2. CASE order[o].vehicle \in req[r].from /\ Twin(r, order[o].vehicle) # {}
      BY <1>3, <2>1, <2>2, <2>3, <3>1, <3>2
    <3>3. CASE ~(order[o].vehicle \in req[r].from /\ Twin(r, order[o].vehicle) # {})
      BY <2>1, <3>1, <3>3
    <3>q. QED BY <3>2, <3>3
  <2>8. PurgeOK'
    <3>1. /\ cleanup.clients \subseteq Clients /\ cleanup.vehicles \subseteq Vehicles
          /\ cleanup.orders \cup (cleanup.lines \ cleanup.restored) \subseteq Orders
      BY DEF IInv, Typed, CleanupState
    <3>q. QED BY <1>1, <2>1, <2>3, <2>4, <3>1, PurgeKept DEF IInv
  <2>9. OwnershipKept'
    <3> SUFFICES ASSUME ~raced', NEW o \in Orders, Exists(order'[o])
                 PROVE  vehicle'[order'[o].vehicle].client = order'[o].client
      BY DEF OwnershipKept
    <3> DEFINE v == order[o].vehicle
    <3>1. ~raced /\ ~req[r].stale /\ Exists(order[o]) /\ v \in Vehicles /\ order[o].client \in Clients
      BY <1>3, <2>2, <2>4 DEF Exists
    <3>2. vehicle[v].client = order[o].client
      BY <3>1 DEF IInv, OwnershipKept
    <3>3. /\ \A u \in req[r].from : vehicle[u].client = c
          /\ \A u \in req[r].known : vehicle[u].client = d
          /\ order[o].client = c => v \in req[r].from
      BY <1>1, <2>2, <3>1 DEF Fresh
    <3>4. CASE v \in req[r].from /\ Twin(r, v) # {}
      <4>1. order'[o].vehicle \in req[r].known /\ order'[o].vehicle \in Vehicles
        BY <2>1, <2>2, <2>3, <3>1, <3>4
      <4>2. vehicle'[order'[o].vehicle].client = d
        BY <2>1, <3>3, <4>1
      <4>3. order'[o].client = d
        BY <2>1, <3>1, <3>2, <3>3, <3>4
      <4>q. QED BY <4>2, <4>3
    <3>5. CASE ~(v \in req[r].from /\ Twin(r, v) # {})
      BY <2>1, <2>2, <3>1, <3>2, <3>3, <3>5
    <3>q. QED BY <3>4, <3>5
  <2>10. ASSUME NEW q \in Requests PROVE RequestOK(q)'
    <3>1. CASE q = r
      BY <2>5, <3>1 DEF RequestOK, InHand, Seen, Fresh, FirstOfPhone
    <3>2. CASE q # r
      <4>1. InHand(q) /\ Seen(q) /\ FirstOfPhone(q) /\ req[q] \in RequestState
        BY <2>2 DEF IInv, RequestOK
      <4>2. /\ req[q].vehicle \in Vehicles \cup {None}
            /\ \A v \in req[q].from \cup req[q].known : v \in Vehicles
        BY <4>1 DEF RequestState
      <4>3. InHand(q)' /\ Fresh(q)'
        BY <2>5, <3>2, <4>1 DEF InHand, Fresh
      <4>4. Seen(q)'
        BY <2>1, <2>5, <3>2, <4>1, <4>2 DEF Seen
      <4>5. FirstOfPhone(q)'
        BY <2>1, <2>5, <3>2, <4>1 DEF FirstOfPhone, NoneBooked, Booked
      <4>q. QED BY <4>3, <4>4, <4>5 DEF RequestOK
    <3>q. QED BY <3>1, <3>2
  <2>11. OnlyOldRowsGo
    BY <1>1, <2>1, <2>4 DEF OnlyOldRowsGo
  <2>q. QED BY <2>1, <2>6, <2>7, <2>8, <2>9, <2>10, <2>11, ShareKept DEF IInv, Kept
<1>q. QED BY <1>2, <1>3 DEF MergeCommits

-----------------------------------------------------------------------------
(* The cleanup *)

\* Statements that have not committed change only what the cleanup holds: it
\* takes old rows, and a vehicle only when no order that stays refers to it.
LEMMA CleanupHoldsKeeps ==
  ASSUME IInv,
         \/ CleanupLines \/ CleanupOrders \/ CleanupVehicles \/ CleanupClients
         \/ CleanupServices \/ CleanupFails \/ CleanupStops
  PROVE  Kept
<1>1. UNCHANGED <<client, vehicle, order, shop, req, deletes, raced>>
  BY DEF CleanupLines, CleanupOrders, CleanupVehicles, CleanupClients, CleanupServices,
         CleanupFails, CleanupStops, rows
<1>2. cleanup \in CleanupState /\ PurgeOK
  BY DEF IInv, Typed
<1>3. /\ OldOrders \subseteq Orders /\ \A o \in Orders : o \in OldOrders <=> order[o].state = "old"
      /\ OldVehicles \subseteq Vehicles /\ \A v \in OldVehicles : vehicle[v].state = "old"
      /\ OldClients \subseteq Clients /\ \A c \in OldClients : client[c].state = "old"
      /\ OldShop \subseteq Shop /\ \A x \in OldShop : shop[x] = "old"
  BY DEF OldOrders, OldVehicles, OldClients, OldShop
<1>4. cleanup' \in CleanupState /\ PurgeOK'
  <2>0. CASE cleanup' = NoCleanup
    BY <2>0 DEF NoCleanup, CleanupState, PurgeOK
  <2>1. CASE CleanupLines
    <3>1. /\ cleanup' \in CleanupState /\ cleanup'.pc = "orders" /\ cleanup'.lines = OldOrders
          /\ cleanup'.orders = {} /\ cleanup'.vehicles = {} /\ cleanup'.clients = {}
          /\ cleanup'.shop = {}
      BY <1>3, <2>1 DEF CleanupLines, CleanupState, NoCleanup
    <3>q. QED BY <1>1, <1>3, <3>1 DEF PurgeOK
  <2>2. CASE CleanupOrders
    <3>1. /\ cleanup.pc = "orders" /\ cleanup' \in CleanupState /\ cleanup'.pc = "vehicles"
          /\ cleanup'.lines = cleanup.lines /\ cleanup'.restored = cleanup.restored
          /\ cleanup'.orders = OldOrders /\ cleanup'.vehicles = cleanup.vehicles
          /\ cleanup'.clients = cleanup.clients /\ cleanup'.shop = cleanup.shop
      BY <1>2, <1>3, <2>2 DEF CleanupOrders, CleanupState
    <3>2. cleanup.lines \subseteq Orders
      BY <1>2 DEF CleanupState
    <3>q. QED BY <1>1, <1>2, <1>3, <3>1, <3>2 DEF PurgeOK
  <2>3. CASE CleanupVehicles
    <3>1. /\ cleanup.pc = "vehicles" /\ cleanup' \in CleanupState /\ cleanup'.pc = "clients"
          /\ cleanup'.lines = cleanup.lines /\ cleanup'.restored = cleanup.restored
          /\ cleanup'.orders = cleanup.orders /\ cleanup'.vehicles = OldVehicles
          /\ cleanup'.clients = cleanup.clients /\ cleanup'.shop = cleanup.shop
          /\ \A v \in OldVehicles : ~Referred(v)
      BY <1>2, <1>3, <2>3 DEF CleanupVehicles, CleanupState
    <3>q. QED BY <1>1, <1>2, <1>3, <3>1 DEF PurgeOK, Referred
  <2>4. CASE CleanupClients
    <3>1. /\ cleanup.pc = "clients" /\ cleanup' \in CleanupState /\ cleanup'.pc = "services"
          /\ cleanup'.lines = cleanup.lines /\ cleanup'.restored = cleanup.restored
          /\ cleanup'.orders = cleanup.orders /\ cleanup'.vehicles = cleanup.vehicles
          /\ cleanup'.clients = OldClients /\ cleanup'.shop = cleanup.shop
      BY <1>2, <1>3, <2>4 DEF CleanupClients, CleanupState
    <3>q. QED BY <1>1, <1>2, <1>3, <3>1 DEF PurgeOK, Referred
  <2>5. CASE CleanupServices
    <3>1. /\ cleanup.pc = "services" /\ cleanup' \in CleanupState /\ cleanup'.pc = "branches"
          /\ cleanup'.lines = cleanup.lines /\ cleanup'.restored = cleanup.restored
          /\ cleanup'.orders = cleanup.orders /\ cleanup'.vehicles = cleanup.vehicles
          /\ cleanup'.clients = cleanup.clients /\ cleanup'.shop = OldShop \cap Services
      BY <1>2, <1>3, <2>5 DEF CleanupServices, CleanupState
    <3>q. QED BY <1>1, <1>2, <1>3, <3>1 DEF PurgeOK, Referred
  <2>q. QED BY <2>0, <2>1, <2>2, <2>3, <2>4, <2>5 DEF CleanupFails, CleanupStops
<1>5. VehiclesStay /\ OrdersStay /\ NoneBooked /\ RowsStay
  BY <1>1 DEF VehiclesStay, OrdersStay, NoneBooked, Booked, RowsStay
<1>6. Typed'
  BY <1>1, <1>4 DEF IInv, Typed
<1>q. QED BY <1>1, <1>4, <1>5, <1>6, StepKeeps

\* The commit: what goes was held, so it is old; of the orders that stay only
\* the restored ones lose their lines, and none refers to a vehicle that goes.
LEMMA CleanupBranchesKeeps == ASSUME IInv, CleanupBranches PROVE Kept
<1>1. /\ cleanup.pc = "branches"
      /\ order' = [o \in Orders |->
            IF o \in cleanup.orders THEN [order[o] EXCEPT !.state = "purged"]
            ELSE [order[o] EXCEPT !.services = IF o \in cleanup.lines THEN {} ELSE @]]
      /\ vehicle' = [v \in Vehicles |->
            IF v \in cleanup.vehicles THEN [vehicle[v] EXCEPT !.state = "purged"] ELSE vehicle[v]]
      /\ client' = [c \in Clients |->
            IF c \in cleanup.clients THEN [client[c] EXCEPT !.state = "purged"] ELSE client[c]]
      /\ shop' = [x \in Shop |->
            IF x \in cleanup.shop \cup (OldShop \ Services) THEN "purged" ELSE shop[x]]
      /\ cleanup' = NoCleanup /\ UNCHANGED <<req, deletes, raced>>
  BY DEF CleanupBranches
<1>2. /\ client \in [Clients -> ClientRow] /\ vehicle \in [Vehicles -> VehicleRow]
      /\ order \in [Orders -> OrderRow] /\ shop \in [Shop -> RowStates] /\ Typed /\ PurgeOK
  BY DEF IInv, Typed
<1>3. ASSUME NEW o \in Orders
      PROVE  /\ order'[o] \in OrderRow
             /\ order'[o].client = order[o].client /\ order'[o].vehicle = order[o].vehicle
             /\ order'[o].state = IF o \in cleanup.orders THEN "purged" ELSE order[o].state
             /\ o \notin cleanup.lines => order'[o].services = order[o].services
  <2>1. order[o] \in OrderRow
    BY <1>2
  <2>2. CASE o \in cleanup.orders
    <3>1. order'[o] = [order[o] EXCEPT !.state = "purged"]
      BY <1>1, <2>2
    <3>q. QED BY <2>1, <2>2, <3>1 DEF OrderRow, RowStates
  <2>3. CASE o \notin cleanup.orders
    <3> DEFINE l == IF o \in cleanup.lines THEN {} ELSE order[o].services
    <3>1. order'[o] = [order[o] EXCEPT !.services = l] /\ l \in SUBSET Services
      BY <1>1, <2>1, <2>3 DEF OrderRow
    <3>2. o \notin cleanup.lines => l = order[o].services
      OBVIOUS
    <3> HIDE DEF l
    <3>q. QED BY <2>1, <2>3, <3>1, <3>2 DEF OrderRow, RowStates
  <2>q. QED BY <2>2, <2>3
<1>4. ASSUME NEW v \in Vehicles
      PROVE  /\ vehicle'[v] \in VehicleRow /\ vehicle'[v].client = vehicle[v].client
             /\ vehicle'[v].state = IF v \in cleanup.vehicles THEN "purged" ELSE vehicle[v].state
  BY <1>1, <1>2 DEF VehicleRow, RowStates
<1>5. ASSUME NEW c \in Clients
      PROVE  /\ client'[c] \in ClientRow /\ client'[c].phone = client[c].phone
             /\ client'[c].by = client[c].by
             /\ client'[c].state = IF c \in cleanup.clients THEN "purged" ELSE client[c].state
  BY <1>1, <1>2 DEF ClientRow, RowStates
<1>6. /\ client' \in [Clients -> ClientRow] /\ vehicle' \in [Vehicles -> VehicleRow]
      /\ order' \in [Orders -> OrderRow] /\ shop' \in [Shop -> RowStates]
  BY <1>1, <1>2, <1>3, <1>4, <1>5 DEF RowStates
<1>7. NoCleanup \in CleanupState /\ PurgeOK'
  BY <1>1 DEF NoCleanup, CleanupState, PurgeOK
<1>8. /\ \A o \in Orders : Exists(order'[o]) => o \notin cleanup.orders /\ Exists(order[o])
      /\ \A v \in Vehicles : Exists(vehicle'[v]) <=> v \notin cleanup.vehicles /\ Exists(vehicle[v])
  BY <1>3, <1>4 DEF Exists
<1>9. Inserted'
  <2> SUFFICES ASSUME NEW o \in Orders, Exists(order'[o])
               PROVE  Exists(vehicle'[order'[o].vehicle])
    BY DEF Inserted
  <2>1. /\ o \in Orders \ cleanup.orders /\ Exists(order[o]) /\ order[o].vehicle \in Vehicles
        /\ Exists(vehicle[order[o].vehicle])
    BY <1>2, <1>8 DEF Typed, IInv, Inserted
  <2>2. order[o].vehicle \notin cleanup.vehicles
    BY <1>2, <2>1 DEF PurgeOK, Referred
  <2>q. QED BY <1>3, <1>8, <2>1, <2>2
<1>10. OnlyOldRowsGo
  <2>1. ASSUME NEW o \in Orders, Exists(order[o])
        PROVE  /\ ~Exists(order'[o]) => order[o].state = "old"
               /\ Exists(order'[o]) /\ order'[o].services # order[o].services
                    => o \in cleanup.restored
    BY <1>1, <1>2, <1>3, <1>8, <2>1 DEF PurgeOK, Exists
  <2>2. \A v \in Vehicles : Exists(vehicle[v]) /\ ~Exists(vehicle'[v]) => vehicle[v].state = "old"
    BY <1>2, <1>8 DEF PurgeOK
  <2>3. \A c \in Clients : Exists(client[c]) /\ ~Exists(client'[c]) => client[c].state = "old"
    BY <1>2, <1>5 DEF PurgeOK, Exists
  <2>4. \A x \in Shop : shop[x] # "purged" /\ shop'[x] = "purged" => shop[x] = "old"
    BY <1>1, <1>2 DEF PurgeOK, OldShop
  <2>q. QED BY <2>1, <2>2, <2>3, <2>4 DEF OnlyOldRowsGo
<1>11. VehiclesStay /\ OrdersStay /\ NoneBooked
  BY <1>3, <1>4, <1>5, <1>8 DEF VehiclesStay, OrdersStay, NoneBooked, Booked, Live
<1>12. Typed'
  <2>1. \A o \in Orders : Exists(order'[o]) =>
          order'[o].client \in Clients /\ order'[o].vehicle \in Vehicles
    BY <1>2, <1>3, <1>8 DEF Typed
  <2>2. \A v \in Vehicles : Exists(vehicle'[v]) => vehicle'[v].client \in Clients
    BY <1>2, <1>4, <1>8 DEF Typed
  <2>q. QED BY <1>1, <1>2, <1>6, <1>7, <2>1, <2>2 DEF Typed
<1>q. QED BY <1>1, <1>7, <1>9, <1>10, <1>11, <1>12, OwnershipStays, ShareKept
             DEF IInv, RequestOK, Kept

\* Every step keeps the invariant, and takes only old rows.
LEMMA NextKeeps == IInv /\ [Next]_vars => Kept
<1> SUFFICES ASSUME IInv, [Next]_vars PROVE Kept
  OBVIOUS
<1>1. CASE Staff \/ Age
  BY <1>1, CreateClientKeeps, CreateVehicleKeeps, StaffKeep DEF Staff
<1>2. CASE Cleanup \/ CleanupStops
  BY <1>2, CleanupHoldsKeeps, CleanupBranchesKeeps DEF Cleanup
<1>3. ASSUME NEW r \in Requests, Request(r) PROVE Kept
  <2>1. ASSUME BookingFails(r) PROVE Kept
    BY <2>1, EndKeeps DEF BookingFails, rows
  <2>q. QED
    BY <1>3, <2>1, BookingReadsKeeps, BookingCommitsKeeps, StaffOrderKeeps, OrderReadsKeeps,
       OrderCommitsKeeps, MergeReadsKeeps, MergeCommitsKeeps DEF Request
<1>4. CASE UNCHANGED vars
  <2>1. Typed' /\ VehiclesStay /\ OrdersStay /\ NoneBooked /\ RowsStay
    BY <1>4 DEF vars, IInv, Typed, VehiclesStay, OrdersStay, NoneBooked, Booked, RowsStay
  <2>2. PurgeOK'
    BY <1>4 DEF vars, IInv, PurgeOK, Referred
  <2>q. QED BY <1>4, <2>1, <2>2, StepKeeps DEF vars
<1>q. QED BY <1>1, <1>2, <1>3, <1>4 DEF Next

LEMMA NextIInv == IInv /\ [Next]_vars => IInv'
BY NextKeeps DEF Kept

-----------------------------------------------------------------------------

\* Restored rows survive: statements of the hard delete that interleave with
\* restores, bookings and merges take only rows that are old to the end, and of
\* the orders that stay only a restored one has lost its lines.
THEOREM RestoresHold == Spec => RestoreHolds
<1>1. IInv /\ [Next]_vars => OnlyOldRowsGo
  BY NextKeeps DEF Kept
<1>q. QED BY InitIInv, NextIInv, <1>1, PTL DEF Spec, RestoreHolds

\* Bookings with one phone number that overlap share one client: of two that
\* miss it only one commits (serializable find-or-create).
THEOREM OneClientPerPhone == Spec => []BookingsShareClient
<1>1. IInv => BookingsShareClient
  BY DEF IInv
<1>q. QED BY InitIInv, NextIInv, <1>1, PTL DEF Spec

\* An order's vehicle belongs to its client through merges and purges, as long
\* as no order or merge has committed on what another merge had moved.
THEOREM VehicleIsTheClients == Spec => []OwnershipKept
<1>1. IInv => OwnershipKept
  BY DEF IInv
<1>q. QED BY InitIInv, NextIInv, <1>1, PTL DEF Spec

=============================================================================
