----------------------------- MODULE OrderForms -----------------------------
(***************************************************************************)
(* What the two forms for a new order share (frontend/src/features/orders, *)
(* CreateOrderPage): the choices they offer, the link that opened them and *)
(* the clients and vehicles the server knows.                              *)
(*                                                                         *)
(* A slot is a start, with the post that offers it.  Permissions, names,   *)
(* plates, prices, notes and wording are left out.                         *)
(***************************************************************************)
EXTENDS Naturals, FiniteSets, FiniteSetsExt

CONSTANTS
  Branches, Dates, Clients, Vehicles, Services, Slots, Posts,
  Duration,   \* durationMin of a service
  Known,      \* the clients that exist at first
  Links,      \* query strings of the page: branch, date, time and post, each or None
  MaxFlight,  \* bound on the POST /orders at a time
  None

ASSUME FormsAssumption ==
  /\ Slots \subseteq Nat
  /\ Duration \in [Services -> Nat \ {0}]
  /\ Links \subseteq [branch : Branches \cup {None}, date : Dates \cup {None},
                      slot : Slots \cup {None}, post : Posts \cup {None}]
  /\ Known \subseteq Clients
  /\ None \notin Branches \cup Dates \cup Clients \cup Vehicles \cup Slots \cup Posts

VARIABLES
  link,     \* useSearchParams of the page
  clients,  \* clients the server has
  owner     \* owner[v]: the client of vehicle v, None when there is no such v

desk == <<link, clients, owner>>

\* The desk opens the page by a link or from the menu.
DeskInit ==
  /\ link \in Links
  /\ clients = Known
  /\ owner = [v \in Vehicles |-> None]

\* The sum of durationMin over the services of ss.
TotalDuration(ss) == MapThenSumSet(LAMBDA s : Duration[s], ss)

\* POST /clients and POST /vehicles.
ClientAdded(c) == c \notin clients /\ clients' = clients \cup {c}
VehicleAdded(v, c) == owner[v] = None /\ owner' = [owner EXCEPT ![v] = c]
==============================================================================
