---------------------------- MODULE ClientRecords ----------------------------
(***************************************************************************)
(* Clients, their vehicles and the orders that refer to both: find-or-     *)
(* create by a public booking (public-booking.service.ts), creation of the *)
(* order (orders.service.ts), merge, soft delete and restore (clients,     *)
(* vehicles, orders and what the shop offers), and the nightly hard delete *)
(* (cleanup.service.ts).                                                   *)
(*                                                                         *)
(* A transaction reads first and writes at its commit; between the two     *)
(* other transactions commit.  Serializable transactions conflict only     *)
(* with one another, and merge and cleanup are not serializable.  The      *)
(* cleanup's deletes are separate statements and hold the rows they touch. *)
(***************************************************************************)
EXTENDS Integers, FiniteSets

CONSTANTS
  Clients, Vehicles, Orders,    \* row ids
  Services, Posts, Branches,    \* row ids of what the shop offers
  BranchOf,                     \* the branch of each post
  Phones, Plates,
  Requests,                     \* requests, each made at most once
  MaxDeletes,                   \* bound on soft deletes
  None

ASSUME ClientRecordsAssumption ==
  /\ None \notin Clients \cup Vehicles \cup Branches \cup Phones \cup {"staff", "booking"}
  /\ BranchOf \in [Posts -> Branches]

VARIABLES
  client,     \* client[c] = [state, phone, by]; by: who put it among the live ones
  vehicle,    \* vehicle[v] = [state, client, plate]
  order,      \* order[o] = [state, client, vehicle, branch, services]; services: its lines
  shop,       \* shop[x]: the state of a service, a work post or a branch
  req,        \* req[r]: the request, what it read and where it is
  cleanup,    \* the cleanup transaction: where it is and what it has deleted
  deletes,
  raced       \* history: something committed on what a merge had moved

vars == <<client, vehicle, order, shop, req, cleanup, deletes, raced>>
rows == <<client, vehicle, order, shop>>

Shop == Services \cup Posts \cup Branches

\* A row is not there yet, live, soft-deleted, soft-deleted before the cutoff,
\* or hard-deleted; ids are not used again.
Exists(row) == row.state \notin {"none", "purged"}
Live(row)   == row.state = "live"

NoClient  == [state |-> "none", phone |-> None, by |-> None]
NoVehicle == [state |-> "none", client |-> None, plate |-> None]
NoOrder   == [state |-> "none", client |-> None, vehicle |-> None, branch |-> None,
              services |-> {}]

\* restored: history, the orders restored after their lines were deleted.
NoCleanup == [pc |-> "idle", lines |-> {}, orders |-> {}, vehicles |-> {}, clients |-> {},
              shop |-> {}, restored |-> {}]
Idle == [pc |-> "idle", phone |-> None, plate |-> None, client |-> None, vehicle |-> None,
         branch |-> None, services |-> {}, into |-> None, from |-> {}, known |-> {},
         stale |-> FALSE]
Ended == [Idle EXCEPT !.pc = "done"]

Init ==
  /\ client = [c \in Clients |-> NoClient] /\ vehicle = [v \in Vehicles |-> NoVehicle]
  /\ order = [o \in Orders |-> NoOrder] /\ shop = [x \in Shop |-> "live"]
  /\ req = [r \in Requests |-> Idle]
  /\ cleanup = NoCleanup /\ deletes = 0 /\ raced = FALSE

Ends(r) == req' = [req EXCEPT ![r] = Ended]

\* Rows that the cleanup has deleted and not yet committed are locked.
Held(table, id) == id \in cleanup[table]

-----------------------------------------------------------------------------
\* Staff: create, soft delete, restore.

CreateClient(c, p) ==
  /\ client[c] = NoClient
  /\ client' = [client EXCEPT ![c] = [state |-> "live", phone |-> p, by |-> "staff"]]
  /\ UNCHANGED <<vehicle, order, shop, req, cleanup, deletes, raced>>

\* VehiclesService.create: the client is looked up without the deleted ones.
CreateVehicle(v, c, x) ==
  /\ vehicle[v] = NoVehicle /\ Live(client[c]) /\ ~Held("clients", c)
  /\ vehicle' = [vehicle EXCEPT ![v] = [state |-> "live", client |-> c, plate |-> x]]
  /\ UNCHANGED <<client, order, shop, req, cleanup, deletes, raced>>

SoftDelete ==
  /\ deletes < MaxDeletes /\ deletes' = deletes + 1
  /\ \/ \E c \in Clients : /\ Live(client[c])
                           /\ client' = [client EXCEPT ![c].state = "deleted"]
                           /\ UNCHANGED <<vehicle, order, shop>>
     \/ \E v \in Vehicles : /\ Live(vehicle[v])
                            /\ vehicle' = [vehicle EXCEPT ![v].state = "deleted"]
                            /\ UNCHANGED <<client, order, shop>>
     \/ \E o \in Orders : /\ Live(order[o])
                          /\ order' = [order EXCEPT ![o].state = "deleted"]
                          /\ UNCHANGED <<client, vehicle, shop>>
     \/ \E x \in Shop : /\ shop[x] = "live" /\ shop' = [shop EXCEPT ![x] = "deleted"]
                        /\ UNCHANGED <<client, vehicle, order>>
  /\ UNCHANGED <<req, cleanup, raced>>

Restore ==
  /\ \/ \E c \in Clients : /\ client[c].state \in {"deleted", "old"} /\ ~Held("clients", c)
                           /\ client' = [client EXCEPT ![c].state = "live", ![c].by = "staff"]
                           /\ UNCHANGED <<vehicle, order, shop, cleanup>>
     \/ \E v \in Vehicles : /\ vehicle[v].state \in {"deleted", "old"} /\ ~Held("vehicles", v)
                            /\ vehicle' = [vehicle EXCEPT ![v].state = "live"]
                            /\ UNCHANGED <<client, order, shop, cleanup>>
     \/ \E o \in Orders : /\ order[o].state \in {"deleted", "old"} /\ ~Held("orders", o)
                          /\ order' = [order EXCEPT ![o].state = "live"]
                          /\ cleanup' = [cleanup EXCEPT !.restored = @ \cup ({o} \cap cleanup.lines)]
                          /\ UNCHANGED <<client, vehicle, shop>>
     \/ \E x \in Shop : /\ shop[x] \in {"deleted", "old"} /\ ~Held("shop", x)
                        /\ shop' = [shop EXCEPT ![x] = "live"]
                        /\ UNCHANGED <<client, vehicle, order, cleanup>>
  /\ UNCHANGED <<req, deletes, raced>>

\* retentionDays have passed.
Age ==
  /\ cleanup.pc = "idle"
  /\ \/ \E c \in Clients : /\ client[c].state = "deleted"
                           /\ client' = [client EXCEPT ![c].state = "old"]
                           /\ UNCHANGED <<vehicle, order, shop>>
     \/ \E v \in Vehicles : /\ vehicle[v].state = "deleted"
                            /\ vehicle' = [vehicle EXCEPT ![v].state = "old"]
                            /\ UNCHANGED <<client, order, shop>>
     \/ \E o \in Orders : /\ order[o].state = "deleted"
                          /\ order' = [order EXCEPT ![o].state = "old"]
                          /\ UNCHANGED <<client, vehicle, shop>>
     \/ \E x \in Shop : /\ shop[x] = "deleted" /\ shop' = [shop EXCEPT ![x] = "old"]
                        /\ UNCHANGED <<client, vehicle, order>>
  /\ UNCHANGED <<req, cleanup, deletes, raced>>

-----------------------------------------------------------------------------
\* createBookingInternal: the serializable find-or-create ...

BookingReads(r, p, x) ==
  /\ req[r] = Idle
  /\ LET found == {c \in Clients : Live(client[c]) /\ client[c].phone = p}
         cars(c) == {v \in Vehicles : Live(vehicle[v]) /\ vehicle[v].client = c
                                                       /\ vehicle[v].plate = x}
     IN  \E c \in IF found = {} THEN {None} ELSE found :
         \E v \in IF c = None \/ cars(c) = {} THEN {None} ELSE cars(c) :
           req' = [req EXCEPT ![r] = [Idle EXCEPT !.pc = "book", !.phone = p, !.plate = x,
                                                  !.client = c, !.vehicle = v]]
  /\ UNCHANGED <<rows, cleanup, deletes, raced>>

\* Both transactions looked for a row that was not there and inserted it.
Conflicts(r, q) ==
  /\ q # r /\ req[q].pc = "book" /\ req[q].vehicle = None
  /\ req[q].client = req[r].client
  /\ req[r].client = None => req[q].phone = req[r].phone
  /\ req[r].client # None => req[q].plate = req[r].plate

\* Mutant of BookingCommits: the find-or-create runs at the default isolation.
BookingCommitsReadCommitted(r) ==
  /\ req[r].pc = "book"
  /\ \E c \in Clients, v \in Vehicles :
       /\ IF req[r].client = None
            THEN /\ client[c] = NoClient
                 /\ client' = [client EXCEPT ![c] = [state |-> "live", phone |-> req[r].phone,
                                                     by |-> "booking"]]
            ELSE c = req[r].client /\ UNCHANGED client
       /\ IF req[r].vehicle = None
            THEN /\ vehicle[v] = NoVehicle
                 /\ vehicle' = [vehicle EXCEPT ![v] = [state |-> "live", client |-> c,
                                                       plate |-> req[r].plate]]
            ELSE v = req[r].vehicle /\ UNCHANGED vehicle
       /\ req' = [req EXCEPT ![r].pc = "booked", ![r].client = c, ![r].vehicle = v]
  /\ UNCHANGED <<order, shop, cleanup, deletes, raced>>

\* ... commits, unless a concurrent one has inserted what it missed or its
\* client is gone; the loser is not tried again.
BookingCommits(r) ==
  /\ req[r].pc = "book" /\ ~req[r].stale
  /\ \E c \in Clients, v \in Vehicles :
       /\ IF req[r].client = None
            THEN /\ client[c] = NoClient
                 /\ client' = [client EXCEPT ![c] = [state |-> "live", phone |-> req[r].phone,
                                                     by |-> "booking"]]
            ELSE c = req[r].client /\ UNCHANGED client
       /\ IF req[r].vehicle = None
            THEN /\ vehicle[v] = NoVehicle
                 /\ req[r].client # None => Exists(client[c]) /\ ~Held("clients", c)
                 /\ vehicle' = [vehicle EXCEPT ![v] = [state |-> "live", client |-> c,
                                                       plate |-> req[r].plate]]
            ELSE v = req[r].vehicle /\ UNCHANGED vehicle
       /\ req' = [q \in Requests |->
            IF q = r THEN [req[r] EXCEPT !.pc = "booked", !.client = c, !.vehicle = v]
            ELSE IF req[r].vehicle = None /\ Conflicts(r, q) THEN [req[q] EXCEPT !.stale = TRUE]
            ELSE req[q]]
  /\ UNCHANGED <<order, shop, cleanup, deletes, raced>>

BookingFails(r) ==
  /\ req[r].pc = "book"
  /\ \/ req[r].stale
     \/ req[r].vehicle = None /\ req[r].client # None /\ ~Exists(client[req[r].client])
  /\ Ends(r)
  /\ UNCHANGED <<rows, cleanup, deletes, raced>>

\* Staff choose a client and one of the vehicles on the form.
StaffOrder(r, c, v) ==
  /\ req[r] = Idle /\ Live(client[c]) /\ Live(vehicle[v])
  /\ req' = [req EXCEPT ![r] = [Idle EXCEPT !.pc = "booked", !.client = c, !.vehicle = v]]
  /\ UNCHANGED <<rows, cleanup, deletes, raced>>

\* Mutant of OrderReads: the vehicle's owner is not compared.
OrderReadsAnyOwner(r) ==
  /\ req[r].pc = "booked"
  /\ \/ /\ Live(client[req[r].client]) /\ Live(vehicle[req[r].vehicle])
        /\ \E b \in Branches, list \in SUBSET Services :
             req' = [req EXCEPT ![r].pc = "order", ![r].branch = b, ![r].services = list,
                                ![r].stale = FALSE]
     \/ Ends(r)
  /\ UNCHANGED <<rows, cleanup, deletes, raced>>

\* OrdersService.create: validateClientVehicleOwnership, the services and the
\* branch; the request ends when one of them is not there (or, which this
\* module leaves open, when nothing is free at that time).
OrderReads(r) ==
  /\ req[r].pc = "booked"
  /\ \/ /\ Live(client[req[r].client]) /\ Live(vehicle[req[r].vehicle])
        /\ vehicle[req[r].vehicle].client = req[r].client
        /\ \E b \in Branches, list \in SUBSET Services \ {{}} :
             /\ shop[b] = "live" /\ \A x \in list : shop[x] = "live"
             /\ req' = [req EXCEPT ![r].pc = "order", ![r].branch = b, ![r].services = list,
                                   ![r].stale = FALSE]
     \/ Ends(r)
  /\ UNCHANGED <<rows, cleanup, deletes, raced>>

\* The order is inserted, with its lines; the foreign keys are checked here.
OrderCommits(r) ==
  LET uses == {req[r].branch} \cup req[r].services
      there == /\ Exists(client[req[r].client]) /\ Exists(vehicle[req[r].vehicle])
               /\ \A x \in uses : shop[x] # "purged"
  IN  /\ req[r].pc = "order"
      /\ ~Held("clients", req[r].client) /\ ~Held("vehicles", req[r].vehicle)
      /\ \A x \in uses : ~Held("shop", x)
      /\ \/ /\ there
            /\ \E o \in Orders : /\ order[o] = NoOrder
                                 /\ order' = [order EXCEPT ![o] =
                                      [state |-> "live", client |-> req[r].client,
                                       vehicle |-> req[r].vehicle, branch |-> req[r].branch,
                                       services |-> req[r].services]]
            /\ raced' = \/ raced \/ req[r].stale
                        \/ \E q \in Requests : req[q].pc = "merge" /\ req[q].client = req[r].client
         \/ ~there /\ UNCHANGED <<order, raced>>
      /\ Ends(r)
      /\ UNCHANGED <<client, vehicle, shop, cleanup, deletes>>

-----------------------------------------------------------------------------
\* ClientsService.merge: both clients are live, and their vehicles, deleted
\* ones included, are read ...

CarsOf(c) == {v \in Vehicles : Exists(vehicle[v]) /\ vehicle[v].client = c}

\* p: the phone picked for the target in fieldOverrides, or None.
MergeReads(r, c, d, p) ==
  /\ req[r] = Idle /\ c # d /\ Live(client[c]) /\ Live(client[d])
  /\ req' = [req EXCEPT ![r] = [Idle EXCEPT !.pc = "merge", !.phone = p, !.client = c, !.into = d,
                                            !.from = CarsOf(c), !.known = CarsOf(d)]]
  /\ UNCHANGED <<rows, cleanup, deletes, raced>>

\* The target's vehicle with the same plate, if any.
Twin(r, v) == {t \in req[r].known : vehicle[t].plate = vehicle[v].plate}

\* ClientsRepository.merge.
MergeRows(r) ==
  LET c == req[r].client  d == req[r].into
      gone(v) == v \in req[r].from /\ Twin(r, v) # {}
  IN  /\ \E twin \in [req[r].from -> Vehicles] :
           /\ \A v \in req[r].from : gone(v) => twin[v] \in Twin(r, v)
           /\ order' = [o \in Orders |->
                [order[o] EXCEPT
                   !.vehicle = IF Exists(order[o]) /\ gone(@) THEN twin[@] ELSE @,
                   !.client = IF Exists(order[o]) /\ @ = c THEN d ELSE @]]
      /\ vehicle' = [v \in Vehicles |->
           IF gone(v) THEN [vehicle[v] EXCEPT !.state = "deleted"]
           ELSE IF v \in req[r].from THEN [vehicle[v] EXCEPT !.client = d]
           ELSE vehicle[v]]
      /\ client' = [client EXCEPT
           ![d] = IF req[r].phone \in {None, @.phone} THEN @
                  ELSE [@ EXCEPT !.phone = req[r].phone, !.by = "staff"],
           ![c].state = "deleted"]

\* ... and ClientsRepository.merge moves or retires them, moves the orders and
\* deletes the source.  A row that is gone fails the transaction.  Every
\* other transaction that has read what is moved is now stale.
MergeCommits(r) ==
  /\ req[r].pc = "merge"
  /\ ~Held("clients", req[r].client) /\ ~Held("clients", req[r].into)
  /\ \A v \in req[r].from \cup req[r].known : ~Held("vehicles", v)
  /\ \A o \in Orders : ~Held("orders", o)
  /\ LET there == /\ Exists(client[req[r].client]) /\ Exists(client[req[r].into])
                  /\ \A v \in req[r].from :
                       /\ Exists(vehicle[v])
                       /\ \A t \in Twin(r, v), o \in Orders :
                            Exists(order[o]) /\ order[o].vehicle = v => Exists(vehicle[t])
     IN  IF there
           THEN /\ MergeRows(r)
                /\ raced' = (raced \/ req[r].stale)
                /\ req' = [q \in Requests |->
                     IF q = r THEN Ended
                     ELSE [req[q] EXCEPT !.stale = @ \/ req[q].pc \in {"order", "merge"}]]
           ELSE Ends(r) /\ UNCHANGED <<rows, raced>>
  /\ UNCHANGED <<shop, cleanup, deletes>>

-----------------------------------------------------------------------------
\* handleHardDeleteCleanup: one transaction.  Every statement looks for old rows
\* anew (READ COMMITTED); rows deleted by an earlier one are gone for the later
\* ones.  A foreign key of a row that stays refuses the statement, and with it
\* everything.

OldOrders   == {o \in Orders : order[o].state = "old"}
OldVehicles == {v \in Vehicles : vehicle[v].state = "old"}
OldClients  == {c \in Clients : client[c].state = "old"}
OldShop     == {x \in Shop : shop[x] = "old"}

\* What refers, with a Restrict key, to a vehicle, a client, a service, a branch.
\* (The profiles of employees who are not purged hold up a branch like its posts.)
Referred(v) == \E o \in Orders \ cleanup.orders : Exists(order[o]) /\ order[o].vehicle = v
Owned(c) == \/ \E v \in Vehicles \ cleanup.vehicles : Exists(vehicle[v]) /\ vehicle[v].client = c
            \/ \E o \in Orders \ cleanup.orders : Exists(order[o]) /\ order[o].client = c
Sold(s) == \E o \in Orders \ (cleanup.orders \cup cleanup.lines) :
             Exists(order[o]) /\ s \in order[o].services
Open(b) == \/ \E p \in Posts : BranchOf[p] = b /\ shop[p] \notin {"old", "purged"}
           \/ \E o \in Orders \ cleanup.orders : Exists(order[o]) /\ order[o].branch = b

\* Mutant of CleanupLines: it returns early when no order is old.
CleanupLinesForOrders ==
  /\ cleanup.pc = "idle" /\ OldOrders # {}
  /\ cleanup' = [NoCleanup EXCEPT !.pc = "orders", !.lines = OldOrders]
  /\ UNCHANGED <<rows, req, deletes, raced>>

\* Statements 1 and 2: the lines and the payments of the old orders.
CleanupLines ==
  /\ cleanup.pc = "idle" /\ OldOrders \cup OldVehicles \cup OldClients \cup OldShop # {}
  /\ cleanup' = [NoCleanup EXCEPT !.pc = "orders", !.lines = OldOrders]
  /\ UNCHANGED <<rows, req, deletes, raced>>

\* Mutant of CleanupOrders: the orders are those whose lines were deleted.
CleanupOrdersById ==
  /\ cleanup.pc = "orders"
  /\ cleanup' = [cleanup EXCEPT !.pc = "vehicles", !.orders = cleanup.lines]
  /\ UNCHANGED <<rows, req, deletes, raced>>

\* Statement 3: the old orders.
CleanupOrders ==
  /\ cleanup.pc = "orders"
  /\ cleanup' = [cleanup EXCEPT !.pc = "vehicles", !.orders = OldOrders]
  /\ UNCHANGED <<rows, req, deletes, raced>>

\* Statement 4: the old vehicles.  Statements 5 and 6, old users and their
\* profiles, touch nothing here: the keys of orders to them are SetNull.
CleanupVehicles ==
  /\ cleanup.pc = "vehicles" /\ \A v \in OldVehicles : ~Referred(v)
  /\ cleanup' = [cleanup EXCEPT !.pc = "clients", !.vehicles = OldVehicles]
  /\ UNCHANGED <<rows, req, deletes, raced>>

\* Statement 7: the old clients.  Only Cascade and SetNull keys refer to the
\* roles of statements 8 and 9.
CleanupClients ==
  /\ cleanup.pc = "clients" /\ \A c \in OldClients : ~Owned(c)
  /\ cleanup' = [cleanup EXCEPT !.pc = "services", !.clients = OldClients]
  /\ UNCHANGED <<rows, req, deletes, raced>>

\* Statement 10: the old services.
CleanupServices ==
  /\ cleanup.pc = "services" /\ \A s \in OldShop \cap Services : ~Sold(s)
  /\ cleanup' = [cleanup EXCEPT !.pc = "branches", !.shop = OldShop \cap Services]
  /\ UNCHANGED <<rows, req, deletes, raced>>

\* Statements 11 to 13: the old work posts (orders lose the post), the old
\* branches and the audit log; then the commit.
CleanupBranches ==
  /\ cleanup.pc = "branches" /\ \A b \in OldShop \cap Branches : ~Open(b)
  /\ order' = [o \in Orders |->
        IF o \in cleanup.orders THEN [order[o] EXCEPT !.state = "purged"]
        ELSE [order[o] EXCEPT !.services = IF o \in cleanup.lines THEN {} ELSE @]]
  /\ vehicle' = [v \in Vehicles |->
        IF v \in cleanup.vehicles THEN [vehicle[v] EXCEPT !.state = "purged"] ELSE vehicle[v]]
  /\ client' = [c \in Clients |->
        IF c \in cleanup.clients THEN [client[c] EXCEPT !.state = "purged"] ELSE client[c]]
  /\ shop' = [x \in Shop |->
        IF x \in cleanup.shop \cup (OldShop \ Services) THEN "purged" ELSE shop[x]]
  /\ cleanup' = NoCleanup
  /\ UNCHANGED <<req, deletes, raced>>

\* A statement is refused: everything is rolled back, until the next night.
Refuses ==
  \/ cleanup.pc = "vehicles" /\ \E v \in OldVehicles : Referred(v)
  \/ cleanup.pc = "clients" /\ \E c \in OldClients : Owned(c)
  \/ cleanup.pc = "services" /\ \E s \in OldShop \cap Services : Sold(s)
  \/ cleanup.pc = "branches" /\ \E b \in OldShop \cap Branches : Open(b)

CleanupFails ==
  /\ Refuses /\ cleanup' = NoCleanup
  /\ UNCHANGED <<rows, req, deletes, raced>>

\* The transaction times out, is a deadlock's victim or loses its connection,
\* with nothing refused.
CleanupStops ==
  /\ cleanup.pc # "idle" /\ ~Refuses /\ cleanup' = NoCleanup
  /\ UNCHANGED <<rows, req, deletes, raced>>

-----------------------------------------------------------------------------

Staff ==
  \/ \E c \in Clients, p \in Phones : CreateClient(c, p)
  \/ \E v \in Vehicles, c \in Clients, x \in Plates : CreateVehicle(v, c, x)
  \/ SoftDelete \/ Restore

Request(r) ==
  \/ \E p \in Phones, x \in Plates : BookingReads(r, p, x)
  \/ BookingCommits(r) \/ BookingFails(r)
  \/ \E c \in Clients, v \in Vehicles : StaffOrder(r, c, v)
  \/ OrderReads(r) \/ OrderCommits(r)
  \/ \E c, d \in Clients, p \in Phones \cup {None} : MergeReads(r, c, d, p)
  \/ MergeCommits(r)

Cleanup == CleanupLines \/ CleanupOrders \/ CleanupVehicles \/ CleanupClients
             \/ CleanupServices \/ CleanupBranches \/ CleanupFails

Next == Staff \/ Age \/ Cleanup \/ CleanupStops \/ \E r \in Requests : Request(r)

Spec == Init /\ [][Next]_vars

\* The cron job runs every night.
FairSpec == Spec /\ WF_vars(Cleanup)

-----------------------------------------------------------------------------
\* Properties.

\* What a step of the purge takes was still deleted; what it leaves stays whole,
\* but for orders restored in between.
OnlyOldRowsGo ==
  /\ \A o \in Orders :
       Exists(order[o]) =>
         /\ ~Exists(order'[o]) => order[o].state = "old"
         /\ Exists(order'[o]) /\ order'[o].services # order[o].services => o \in cleanup.restored
  /\ \A v \in Vehicles : Exists(vehicle[v]) /\ ~Exists(vehicle'[v]) => vehicle[v].state = "old"
  /\ \A c \in Clients : Exists(client[c]) /\ ~Exists(client'[c]) => client[c].state = "old"
  /\ \A x \in Shop : shop[x] # "purged" /\ shop'[x] = "purged" => shop[x] = "old"

\* A restore that got through is not undone: the purge takes only rows that
\* are still deleted when it commits, although its statements look for them one
\* after the other while others commit (handleHardDeleteCleanup).  An order
\* that stays keeps its lines, unless it was restored after the first statement
\* had deleted them: then it stays without.
RestoreHolds == [][OnlyOldRowsGo]_vars

\* Bookings with one phone number share one client, however they overlap with
\* one another, with merges and with deletions; staff may still create or
\* restore a second one, or give a client another phone while merging ("to
\* prevent race conditions with concurrent bookings").
BookingsShareClient ==
  \A c, d \in Clients :
    /\ Live(client[c]) /\ client[c].by = "booking"
    /\ Live(client[d]) /\ client[d].by = "booking"
    /\ client[c].phone = client[d].phone
    => c = d

\* An order's vehicle belongs to the order's client, through merges, retired
\* duplicates and purges, unless the order was inserted while a merge of its
\* client was under way, or two merges overlapped (validateClientVehicleOwnership, ClientsRepository.merge).
OwnershipKept ==
  ~raced =>
    \A o \in Orders : Exists(order[o]) => vehicle[order[o].vehicle].client = order[o].client

\* A row past retention that something kept still refers to: a service that an
\* order was sold, or a branch with a post, is enough.
Blocked ==
  \/ \E o \in Orders \ OldOrders :
       /\ Exists(order[o])
       /\ \/ order[o].vehicle \in OldVehicles \/ order[o].client \in OldClients
          \/ ({order[o].branch} \cup order[o].services) \cap OldShop # {}
  \/ \E v \in Vehicles \ OldVehicles : Exists(vehicle[v]) /\ vehicle[v].client \in OldClients
  \/ \E p \in Posts : shop[p] \in {"live", "deleted"} /\ BranchOf[p] \in OldShop

\* Clients past retention are purged, as long as no row past retention is still
\* referred to by one that is kept and the transaction is not stopped: a single
\* such row, of any table, holds up every purge, since they are one transaction.
PurgedUnlessBlocked ==
  <>[]~Blocked /\ <>[][~CleanupStops]_vars
    => \A c \in Clients : client[c].state = "old" ~> client[c].state # "old"

=============================================================================
