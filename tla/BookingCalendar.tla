--------------------------- MODULE BookingCalendar ---------------------------
(***************************************************************************)
(* What the reservation of orders promises to its callers, without         *)
(* transactions, locks, retries or timeouts: a calendar in which every     *)
(* active order holds a slot, and requests that each take effect in one    *)
(* step or not at all.                                                     *)
(*                                                                         *)
(* A slot is an interval on a post and an employee, kept apart from every  *)
(* other slot on them.  A request is answered "done" in the very step that *)
(* changes the calendar, and a request that is declined changed nothing.   *)
(* OrderReservation implements this module (its property                   *)
(* ImplementsCalendar); the constants are those of that module.            *)
(***************************************************************************)
EXTENDS Integers

CONSTANTS
  Req,        \* callers
  Orders,     \* order ids
  None,       \* no post, or no employee
  AutoAssign, \* the caller leaves the choice to the service
  Keep,       \* the caller wants what the order has
  Ops         \* what callers may ask for (records of OrderReservation.Op)

VARIABLES
  calendar,  \* calendar[x]: the slot of order x; held says whether x has it
  asked,     \* asked[r]: what caller r asks for, or NothingAsked
  reply      \* reply[r]: "none", "done" or "declined"

cvars == <<calendar, asked, reply>>

NothingAsked == [kind |-> "none"]

\* Two slots compete for a post or an employee.
Compete(s, t) ==
  ({s.post, s.emp} \cap {t.post, t.emp}) \ {None} # {}

\* The buffer between two bookings may have changed since the first one was
\* made; the smaller one is kept.
KeptApart(s, t) ==
  LET b == IF s.buf <= t.buf THEN s.buf ELSE t.buf
  IN  s.end + b <= t.start \/ t.end + b <= s.start

\* Nobody but x holds anything that slot s needs.
FreeFor(x, s) ==
  \A y \in {z \in DOMAIN calendar : calendar[z].held} \ {x} :
    Compete(s, calendar[y]) => KeptApart(s, calendar[y])

-----------------------------------------------------------------------------
(* The effect of a request on the calendar, c being the calendar after it *)

OnlyChanges(x, c) == \A y \in DOMAIN calendar \ {x} : c[y] = calendar[y]

\* A new order takes the interval asked for, on what was asked for.
Booked(o, c) ==
  /\ o.kind = "create"
  /\ ~calendar[o.row].held
  /\ c[o.row].held /\ ~c[o.row].started
  /\ c[o.row].start = o.start /\ c[o.row].end = o.start + o.dur
  /\ o.post # AutoAssign => c[o.row].post = o.post
  /\ o.emp # AutoAssign => c[o.row].emp = o.emp
  /\ FreeFor(o.row, c[o.row])

\* An order that has not started moves; it keeps its length.
Moved(o, c) ==
  LET old == calendar[o.row]
      new == c[o.row]
  IN  /\ o.kind = "reschedule"
      /\ old.held /\ ~old.started
      /\ new.held /\ ~new.started
      /\ new.start = o.start /\ new.end - new.start = old.end - old.start
      /\ new.post = IF o.post = Keep THEN old.post ELSE o.post
      /\ new.emp = IF o.emp = Keep THEN old.emp ELSE o.emp
      /\ FreeFor(o.row, new)

\* A deleted order comes back to the slot it had, if that is free; an order
\* that was finished or cancelled comes back without one.
Restored(o, c) ==
  LET old == calendar[o.row]
      new == c[o.row]
  IN  /\ o.kind = "restore"
      /\ ~old.held
      /\ \/ new = old
         \/ /\ new = [old EXCEPT !.held = TRUE, !.buf = new.buf]
            /\ FreeFor(o.row, new)

\* A status change keeps the slot or gives it up, and a wash starts once.
Changed(o, c) ==
  LET old == calendar[o.row]
      new == c[o.row]
  IN  /\ o.kind = "updateStatus"
      /\ old.held
      /\ new = [old EXCEPT !.held = new.held, !.started = new.started]
      /\ old.started /\ new.held => new.started

\* Deleting an order gives its slot up.  The confirmation timeout does so
\* only while the order has not started.
Released(o, c) ==
  LET old == calendar[o.row]
      given == [old EXCEPT !.held = FALSE]
  IN  \/ o.kind = "softDelete" /\ c[o.row] = given
      \/ /\ o.kind = "confirmationTimeout"
         /\ c[o.row] = old \/ (~old.started /\ c[o.row] = given)

\* Administrators' writes do not touch the calendar.
Untouched(o, c) ==
  /\ o.kind \notin {"create", "reschedule", "restore", "updateStatus",
                    "softDelete", "confirmationTimeout"}
  /\ c = calendar

-----------------------------------------------------------------------------

CInit ==
  /\ \A x, y \in DOMAIN calendar :
       x # y /\ calendar[x].held /\ calendar[y].held
         /\ Compete(calendar[x], calendar[y])
         => KeptApart(calendar[x], calendar[y])
  /\ asked = [r \in Req |-> NothingAsked]
  /\ reply = [r \in Req |-> "none"]

Ask(r) ==
  /\ asked[r] = NothingAsked
  /\ \E o \in Ops : asked' = [asked EXCEPT ![r] = o]
  /\ UNCHANGED <<calendar, reply>>

\* The request takes effect and is answered, in one step.
Serve(r) ==
  /\ asked[r] # NothingAsked /\ reply[r] = "none"
  /\ reply' = [reply EXCEPT ![r] = "done"]
  /\ LET o == asked[r]
     IN  /\ \/ Booked(o, calendar') \/ Moved(o, calendar') \/ Restored(o, calendar')
            \/ Changed(o, calendar') \/ Released(o, calendar')
            \/ Untouched(o, calendar')
         /\ OnlyChanges(o.row, calendar')
  /\ UNCHANGED asked

\* The request is refused, or given up after its attempts; nothing changes.
Decline(r) ==
  /\ asked[r] # NothingAsked /\ reply[r] = "none"
  /\ reply' = [reply EXCEPT ![r] = "declined"]
  /\ UNCHANGED <<calendar, asked>>

CNext == \E r \in Req : Ask(r) \/ Serve(r) \/ Decline(r)

CSpec == CInit /\ [][CNext]_cvars
==============================================================================
