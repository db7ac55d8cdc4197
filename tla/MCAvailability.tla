--------------------------- MODULE MCAvailability ---------------------------
(***************************************************************************)
(* Instances of Availability for TLC: a day of eight ticks, two posts and  *)
(* two employees.                                                          *)
(***************************************************************************)
EXTENDS Availability, TLC

SomeSettings ==
  { [open |-> 1, close |-> 7, buffer |-> 1], [open |-> 2, close |-> 8, buffer |-> 0] }

\* The whole day, a short shift, off duty, no worker, and no end time.
SomeProfiles ==
  { [worker |-> TRUE,  active |-> TRUE,  from |-> 0, to |-> 8],
    [worker |-> TRUE,  active |-> TRUE,  from |-> 2, to |-> 5],
    [worker |-> TRUE,  active |-> FALSE, from |-> 0, to |-> 8],
    [worker |-> FALSE, active |-> TRUE,  from |-> 0, to |-> Null] }

Perms == Permutations(Posts) \cup Permutations(Employees)
=============================================================================
