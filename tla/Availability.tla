---------------------------- MODULE Availability ----------------------------
(***************************************************************************)
(* The slots offered for a day (SchedulingService.checkAvailability)       *)
(* against what a reservation accepts (reserveSlot, reserveEmployee).      *)
(*                                                                         *)
(* checkAvailability fetches the day's orders in two range queries and     *)
(* decides every slot in memory; a reservation asks the database about     *)
(* one interval.  The state is what both read: the active orders of the    *)
(* day, the booking settings and the employee profiles.  Reservations are  *)
(* one step here; OrderReservation has their interleavings.                *)
(*                                                                         *)
(* Time is counted in ticks from local midnight of one working day within  *)
(* the booking horizon, in a branch without offset changes on that day.    *)
(***************************************************************************)
EXTENDS Integers, FiniteSets

CONSTANTS
  Posts, Employees, Null,
  Day,          \* ticks of the day
  Durations,    \* durations that are asked for
  Settings,     \* [open, close, buffer]: booking settings that can be saved
  Profiles,     \* [worker, active, from, to]: profiles that can be saved
  MaxOrders     \* bound on the active orders

ASSUME AvailabilityAssumption ==
  /\ IsFiniteSet(Posts) /\ IsFiniteSet(Employees) /\ Null \notin Employees
  /\ Day \in Nat /\ Durations \subseteq Nat \ {0} /\ MaxOrders \in Nat
  /\ Settings \subseteq [open: 0 .. Day, close: 0 .. Day, buffer: Nat]
  /\ Profiles \subseteq [worker: BOOLEAN, active: BOOLEAN,
                         from: 0 .. Day \cup {Null}, to: 0 .. Day \cup {Null}]

VARIABLES
  orders,     \* the active orders: [post, emp, start, end]
  settings,   \* resolveBookingSettings of the branch
  profile     \* profile[e]: the employee profile

avars == <<orders, settings, profile>>

AInit ==
  /\ orders = {}
  /\ settings \in Settings
  /\ profile \in [Employees -> Profiles]

-----------------------------------------------------------------------------
(* checkAvailability *)

Smaller(a, b) == IF a < b THEN a ELSE b

Overlaps(o, s, d) ==
  /\ o.start < s + d + settings.buffer
  /\ o.end > s - settings.buffer

\* while (cursor + slotDuration <= dayEnd)
Slots(d) ==
  { s \in 0 .. Day : /\ s >= settings.open /\ s + d <= settings.close
                     /\ (s - settings.open) % d = 0 }

\* findOrdersForWorkPostsInRange: the working hours, without the buffer.
PostOrders ==
  { o \in orders : o.start < settings.close /\ o.end > settings.open }

AvailablePosts(s, d) ==
  { p \in Posts : ~\E o \in PostOrders : o.post = p /\ Overlaps(o, s, d) }

Candidates ==
  { e \in Employees : /\ profile[e].worker /\ profile[e].active
                      /\ profile[e].from # Null /\ profile[e].to # Null }

\* Mutant of EmployeeOrders: the range of the work posts' query.
EmployeeOrdersUnbuffered ==
  { o \in orders : o.start < settings.close /\ o.end > settings.open }

\* Fetched with the buffer on both sides of the working hours.
EmployeeOrders ==
  { o \in orders : /\ o.start < settings.close + settings.buffer
                   /\ o.end > settings.open - settings.buffer }

AvailableEmployees(s, d) ==
  { e \in Candidates :
      /\ profile[e].from <= s /\ profile[e].to >= s + d
      /\ ~\E o \in EmployeeOrders : o.emp = e /\ Overlaps(o, s, d) }

\* countProfilesForBranch > 0
ProfilesConfigured ==
  \E e \in Employees : profile[e].active /\ profile[e].from # Null

\* Mutant of Capacity: the cap applies to every branch.
CapacityAlwaysCapped(s, d, want) ==
  Smaller(Cardinality(AvailablePosts(s, d)), Cardinality(AvailableEmployees(s, d)))

\* effectiveCapacity: how many of the available posts are offered.
Capacity(s, d, want) ==
  LET posts == Cardinality(AvailablePosts(s, d))
      emps  == AvailableEmployees(s, d)
  IN  IF want # Null THEN IF want \in emps THEN posts ELSE 0
      ELSE IF ProfilesConfigured THEN Smaller(posts, Cardinality(emps))
      ELSE posts

-----------------------------------------------------------------------------
(* The reservation *)

\* reserveSlot
PostFree(p, s, d) == ~\E o \in orders : o.post = p /\ Overlaps(o, s, d)

\* employeeEligibilityWhere
Eligible(e, s, d) ==
  /\ profile[e].worker /\ profile[e].active
  /\ profile[e].from # Null /\ profile[e].to # Null
  /\ profile[e].from <= s /\ profile[e].to >= s + d
  /\ ~\E o \in orders : o.emp = e /\ Overlaps(o, s, d)

\* Whom reserveEmployee may assign: the employee who was asked for, any
\* eligible one, or nobody in a branch without profiles.
Assignable(want, s, d) ==
  IF want # Null THEN {e \in {want} : Eligible(e, s, d)}
  ELSE IF ProfilesConfigured THEN {e \in Employees : Eligible(e, s, d)}
  ELSE {Null}

-----------------------------------------------------------------------------

\* create; the working hours do not restrict what staff may book.
Book(p, want, s, d) ==
  /\ Cardinality(orders) < MaxOrders
  /\ PostFree(p, s, d)
  /\ \E e \in Assignable(want, s, d) :
       orders' = orders \cup {[post |-> p, emp |-> e, start |-> s, end |-> s + d]}
  /\ UNCHANGED <<settings, profile>>

\* An order is completed, cancelled, a no-show or deleted.
Release(o) ==
  /\ orders' = orders \ {o}
  /\ UNCHANGED <<settings, profile>>

\* updateBookingSettings
ChangeSettings ==
  /\ settings' \in Settings \ {settings}
  /\ UNCHANGED <<orders, profile>>

\* EmployeeProfileService.update
ChangeProfile(e) ==
  /\ \E f \in Profiles \ {profile[e]} : profile' = [profile EXCEPT ![e] = f]
  /\ UNCHANGED <<orders, settings>>

ANext ==
  \/ \E p \in Posts, w \in Employees \cup {Null}, d \in Durations :
       \E s \in 0 .. Day - d : Book(p, w, s, d)
  \/ \E o \in orders : Release(o)
  \/ ChangeSettings
  \/ \E e \in Employees : ChangeProfile(e)

ASpec == AInit /\ [][ANext]_avars

-----------------------------------------------------------------------------
(* Properties *)

Bookable(s, d) == {p \in Posts : PostFree(p, s, d)}

\* How many orders a reservation would accept at s, one after the other.
BookableTogether(s, d, want) ==
  LET posts == Cardinality(Bookable(s, d))
      emps  == Assignable(want, s, d)
  IN  IF emps = {} THEN 0
      ELSE IF want # Null \/ emps = {Null} THEN posts
      ELSE Smaller(posts, Cardinality(emps))

\* The preview and the reservation agree (checkAvailability, reserveSlot,
\* reserveEmployee): at every slot on the employees who can take it, and
\* further than the buffer from opening and closing time also on the posts and
\* on how many orders can still be placed.
OffersWhatIsBookable ==
  \A d \in Durations : \A s \in Slots(d) :
    /\ AvailableEmployees(s, d) = {e \in Employees : Eligible(e, s, d)}
    /\ s - settings.buffer >= settings.open /\ s + d + settings.buffer <= settings.close
         => /\ AvailablePosts(s, d) = Bookable(s, d)
            /\ \A w \in Employees \cup {Null} :
                 Capacity(s, d, w) = BookableTogether(s, d, w)

\* At every slot of the day, whoever could be assigned is offered: no slot that
\* a reservation accepts is hidden.
HidesNothingBookable ==
  \A d \in Durations, w \in Employees \cup {Null} : \A s \in Slots(d) :
    Capacity(s, d, w) >= BookableTogether(s, d, w)
=============================================================================
