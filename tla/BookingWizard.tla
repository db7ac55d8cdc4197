---------------------------- MODULE BookingWizard ----------------------------
(***************************************************************************)
(* The public booking page: PublicBookingPage of the site (frontend) and   *)
(* BookingPage of the embedded widget (frontend-booking), both on top of   *)
(* useBookingSelection (utils/booking-selection.ts, one file in each).     *)
(*                                                                         *)
(* A person picks a branch, services, a date and a slot, enters contact    *)
(* data and confirms.  Around them the query cache changes on its own:     *)
(* availability is fetched per branch, date and duration, answers come     *)
(* late, fail or are fetched again, services get other durations and leave *)
(* the list that the site offers.                                          *)
(* Form validation is awaited, so the code after it runs in a closure of   *)
(* an older render.                                                        *)
(*                                                                         *)
(* A click runs its handler and renders in one step; a change of the cache *)
(* is seen by the page only when Rerender has run.  selection stands for   *)
(* the state and the ref of that name, which differ only inside a step.    *)
(* The tenant, prices, contact data and wording are left out.              *)
(***************************************************************************)
EXTENDS Integers, FiniteSets, FiniteSetsExt

CONSTANTS
  Branches, Dates, Times, Services,
  Catalogs,    \* what the services query may answer: duration of each service listed
  None,        \* nothing chosen, or no duration
  Jobs,        \* validations that may be awaited at a time
  MaxAnswers,  \* bound on the availability answers
  MaxOutside   \* bound on refetches, catalog changes and slots that pass

ASSUME WizardAssumption ==
  /\ \A cat \in Catalogs : DOMAIN cat \subseteq Services /\ cat \in [DOMAIN cat -> Nat \ {0}]
  /\ None \notin Branches \cup Dates \cup (Dates \X Times) \cup Nat

VARIABLES
  layout,     \* which of the two pages: "site" or "widget"
  form,       \* branchId, serviceIds and scheduledStart of the form
  date,       \* selectedDate
  step,       \* index of the step shown
  selection,  \* BookingSelection: context and start, or None
  view,       \* what the last render computed and its handlers captured
  screen,     \* the form, the receipt of a booking, or the page has gone
  job,        \* job[j]: a handler that awaits validation, or its POST /book
  avail,      \* availability queries of the cache, by key
  catalog,    \* services query of the cache
  past,       \* starts that are no longer in the future
  answers, outside

page == <<layout, form, date, step, selection, view, screen, job>>
vars == <<page, avail, catalog, past, answers, outside>>

Starts == Dates \X Times
On(d) == {s \in Starts : s[1] = d}

\* step === 1 of the site and step === 0 of the widget hold calendar and slots.
ScheduleStep == IF layout = "site" THEN 1 ELSE 0
ContactStep == ScheduleStep + 1
ReviewStep == ScheduleStep + 2

\* The chosen services that the list still has; the form keeps the others.
Listed(ss, cat) == ss \cap DOMAIN cat

\* totalDuration || undefined: of the chosen services that are listed.
Total(ss, cat) == MapThenSumSet(LAMBDA s : cat[s], ss)
Duration(ss, cat) == IF Listed(ss, cat) = {} THEN None ELSE Total(Listed(ss, cat), cat)

\* durationMin ?? null.
Minutes(s, cat) == IF s \in DOMAIN cat THEN cat[s] ELSE None

\* bookingContext, and the query key of usePublicAvailability.
Context(b, d, ss, cat) ==
  [branch |-> b, date |-> d, services |-> {<<s, Minutes(s, cat)>> : s \in ss}]
Key(b, d, ss, cat) == [branch |-> b, date |-> d, dur |-> Duration(ss, cat)]

Keys == [branch : Branches, date : Dates,
         dur : {Duration(ss, cat) : ss \in SUBSET Services, cat \in Catalogs}]

Enabled(k) == k.branch # None /\ k.date # None

\* A query the cache does not have.
NoQuery == [status |-> "none", fetching |-> FALSE, slots |-> {}]
Query(k, a) == IF Enabled(k) THEN a[k] ELSE NoQuery

NoJob == [kind |-> "none", context |-> None, key |-> None, data |-> None,
          same |-> FALSE, edited |-> FALSE]

\* committedContext holds a context.
Mounted == screen # "gone"

-----------------------------------------------------------------------------
(* booking-selection.ts *)

\* isBookingSelectionCurrent.
IsCurrent(sel, ctx, start, q) ==
  /\ sel # None /\ sel.context = ctx /\ sel.start = start
  /\ start \notin past
  /\ q.status = "success" /\ ~q.fetching /\ start \in q.slots

\* Mutant of HasCurrentSelection: everything is read again, and the closure's
\* context is not compared with the committed one.
HasCurrentSelectionAnyRender(v, same, data) ==
  /\ Mounted /\ data = form
  /\ IsCurrent(selection, Context(form.branch, v.context.date, form.services, catalog),
               data.start, Query(Key(form.branch, v.context.date, form.services, catalog), avail))

\* Mutant of HasCurrentSelection: it trusts the durations of the render.
HasCurrentSelectionOldCatalog(v, same, data) ==
  /\ Mounted /\ same /\ data = form
  /\ IsCurrent(selection, v.context, data.start, Query(v.key, avail))

\* hasCurrentSelection, called by a handler that captured render v; same says
\* that the context of that render is still the committed one.
HasCurrentSelection(v, same, data) ==
  /\ Mounted /\ same /\ data = form
  /\ IsCurrent(selection, Context(form.branch, v.context.date, form.services, catalog),
               data.start, Query(v.key, avail))

\* The slot buttons: none while the query is fetching.
Shown(q) == IF q.fetching THEN {} ELSE q.slots

\* isPending of the booking mutation.
Pending == \E j \in Jobs : job[j].kind = "posted"

\* Whether a render that observes key fetches it: a query that becomes
\* observed is fetched unless its answer is fresh (staleTime).
Fetches(key) ==
  IF ~Enabled(key) \/ key = view.key THEN {FALSE}
  ELSE IF avail[key].fetching THEN {FALSE}
  ELSE IF avail[key].status = "success" THEN BOOLEAN ELSE {TRUE}

\* The page renders with form f, date d and selection sel.  A context other
\* than the rendered one is a new contextVersion: the selection goes, and the
\* handlers of earlier renders are no longer current.
Render(f, d, sel, jobs) ==
  LET ctx == Context(f.branch, d, f.services, catalog)
      key == Key(f.branch, d, f.services, catalog)
      old == ctx = view.context
      keep == IF old THEN sel ELSE None
  IN  /\ form' = f /\ date' = d /\ selection' = keep
      /\ \E fetch \in Fetches(key) :
           avail' = IF fetch THEN [avail EXCEPT ![key].fetching = TRUE] ELSE avail
      /\ job' = [j \in Jobs |-> [jobs[j] EXCEPT !.same = @ /\ old]]
      /\ view' = [context |-> ctx, key |-> key,
                  shown |-> Shown(Query(key, avail')), pending |-> Pending,
                  listed |-> DOMAIN catalog,
                  hasSelectedSlot |-> /\ f.services # {}
                                      /\ IsCurrent(keep, ctx, f.start, Query(key, avail'))]

Cleared(f) == [f EXCEPT !.start = None]

-----------------------------------------------------------------------------
(* The page *)

\* An empty form, with the services' first answer in the cache.
Init ==
  /\ layout \in {"site", "widget"}
  /\ form = [branch |-> None, services |-> {}, start |-> None]
  /\ date = None /\ step = 0
  /\ selection = None /\ screen = "form"
  /\ job = [j \in Jobs |-> NoJob]
  /\ avail = [k \in Keys |-> NoQuery]
  /\ catalog \in Catalogs /\ past = {} /\ answers = 0 /\ outside = 0
  /\ view = [context |-> Context(form.branch, None, form.services, catalog),
             key |-> Key(form.branch, None, form.services, catalog),
             shown |-> {}, pending |-> FALSE, listed |-> DOMAIN catalog,
             hasSelectedSlot |-> FALSE]

\* The person clicks on something the page shows.
Click ==
  /\ screen = "form"
  /\ UNCHANGED <<layout, screen, catalog, past, answers, outside>>

\* The handlers that await validation are for a form that has been edited.
Edited == [j \in Jobs |-> [job[j] EXCEPT !.edited = @ \/ job[j].kind # "none"]]

\* The branch selector: clearSelectedSlot, then setValue.  With one branch the
\* widget makes this choice by itself.
ChooseBranch(b) ==
  /\ Click /\ step = 0 /\ b # form.branch
  /\ Render([Cleared(form) EXCEPT !.branch = b], date, None, Edited)
  /\ UNCHANGED step

\* Only a service that the page lists has a button.
ToggleService(s) ==
  /\ Click /\ step = 0 /\ s \in view.listed
  /\ Render([Cleared(form) EXCEPT !.services = IF s \in @ THEN @ \ {s} ELSE @ \cup {s}],
            date, None, Edited)
  /\ UNCHANGED step

SelectDate(d) ==
  /\ Click /\ step = ScheduleStep
  /\ IF d # date THEN Render(Cleared(form), d, None, Edited)
                 ELSE Render(form, d, selection, job)
  /\ UNCHANGED step

\* selectSlot on a slot button that the last render shows: the cache is read
\* again, and the click is lost if it does not have the slot any more.
SelectSlot(s) ==
  /\ Click /\ step = ScheduleStep
  /\ s \in view.shown
  /\ IF IsCurrent([context |-> view.context, start |-> s], view.context, s,
                  Query(view.key, avail))
       THEN Render([form EXCEPT !.start = s], date,
                   [context |-> view.context, start |-> s], job)
       ELSE Render(form, date, selection, job)
  /\ UNCHANGED step

\* The site's first Continue button, Back, and the alert's button.
Navigate(n) ==
  /\ Click
  /\ \/ n = step - 1
     \/ n = ScheduleStep /\ step > ScheduleStep /\ ~view.hasSelectedSlot
     \/ /\ layout = "site" /\ step = 0 /\ n = 1
        /\ form.branch # None /\ form.services # {}
  /\ step' = n
  /\ Render(form, date, selection, job)

\* proceedWithSlot in render v: go on, or back to the calendar.
ProceedWithSlot(n, v, same, jobs) ==
  IF HasCurrentSelection(v, same, form)
  THEN step' = n /\ Render(form, date, selection, jobs)
  ELSE step' = ScheduleStep /\ Render(Cleared(form), date, None, jobs)

Continue ==
  /\ Click /\ step = ScheduleStep /\ view.hasSelectedSlot
  /\ ProceedWithSlot(ContactStep, view, TRUE, job)

Awaiting(k) ==
  [kind |-> k, context |-> view.context, key |-> view.key, data |-> form,
   same |-> TRUE, edited |-> FALSE]

\* Review and Confirm await the validation of the form.
StartReview(j) ==
  /\ Click /\ step = ContactStep /\ job[j] = NoJob
  /\ job' = [job EXCEPT ![j] = Awaiting("review")]
  /\ UNCHANGED <<form, date, step, selection, view, avail>>

StartSubmit(j) ==
  /\ Click /\ step = ReviewStep /\ job[j] = NoJob
  /\ view.hasSelectedSlot /\ ~view.pending
  /\ job' = [job EXCEPT ![j] = Awaiting("submit")]
  /\ UNCHANGED <<form, date, step, selection, view, avail>>

Ended(j) == [job EXCEPT ![j] = NoJob]

\* A field is invalid, or the page has gone: nothing happens.
Invalid(j) ==
  /\ job[j].kind \in {"review", "submit"}
  /\ job' = Ended(j)
  /\ UNCHANGED <<layout, form, date, step, selection, view, screen, avail, catalog,
                 past, answers, outside>>

Review(j) ==
  /\ Mounted /\ job[j].kind = "review"
  /\ ProceedWithSlot(ReviewStep, job[j], job[j].same, Ended(j))
  /\ UNCHANGED <<layout, screen, catalog, past, answers, outside>>

\* onSubmit: book, or back to the calendar.
OnSubmit(j) ==
  /\ Mounted /\ job[j].kind = "submit"
  /\ IF HasCurrentSelection(job[j], job[j].same, job[j].data)
       THEN /\ Render(form, date, selection, [job EXCEPT ![j].kind = "posted"])
            /\ UNCHANGED step
       ELSE /\ step' = ScheduleStep
            /\ Render(Cleared(form), date, None, Ended(j))
  /\ UNCHANGED <<layout, screen, catalog, past, answers, outside>>

\* POST /book fails: a toast, and the page stays as it is.
BookingRefused(j) ==
  /\ Mounted /\ job[j].kind = "posted"
  /\ job' = Ended(j)
  /\ UNCHANGED <<layout, form, date, step, selection, view, screen, avail, catalog,
                 past, answers, outside>>

\* The booking is made: the receipt replaces the form.
BookingConfirmed(j) ==
  /\ Mounted /\ job[j].kind = "posted"
  /\ screen' = "receipt"
  /\ job' = Ended(j)
  /\ UNCHANGED <<layout, form, date, step, selection, view, avail, catalog, past,
                 answers, outside>>

\* The person navigates away: the refs are cleared, handlers still wait.
LeavePage ==
  /\ Mounted
  /\ screen' = "gone" /\ selection' = None
  /\ job' = [j \in Jobs |-> [job[j] EXCEPT !.same = FALSE]]
  /\ UNCHANGED <<layout, form, date, step, view, avail, catalog, past, answers, outside>>

-----------------------------------------------------------------------------
(* The query cache and the clock *)

\* The page learns of what changed in the cache or in the mutation.
Rerender ==
  /\ Mounted
  /\ Render(form, date, selection, job)
  /\ UNCHANGED <<layout, step, screen, catalog, past, answers, outside>>

\* The answer arrives, with whatever slots the server had when it was asked,
\* or the request and its retry have failed.
Settle(k) ==
  /\ Mounted /\ avail[k].fetching
  /\ answers < MaxAnswers /\ answers' = answers + 1
  /\ \/ \E free \in SUBSET On(k.date) :
          avail' = [avail EXCEPT ![k] = [status |-> "success", fetching |-> FALSE,
                                         slots |-> free]]
     \/ avail' = [avail EXCEPT ![k].status = "error", ![k].fetching = FALSE]
  /\ UNCHANGED <<page, catalog, past, outside>>

\* What a page that has gone would see is of no interest.
Outside == Mounted /\ outside < MaxOutside /\ outside' = outside + 1

\* The connection comes back: the observed query is fetched again.
Refetch ==
  /\ Outside /\ Enabled(view.key) /\ ~avail[view.key].fetching
  /\ avail' = [avail EXCEPT ![view.key].fetching = TRUE]
  /\ UNCHANGED <<page, catalog, past, answers>>

\* The services query settles: services have other durations, left the list
\* because they were switched off, or came back to it.
CatalogArrives(c) ==
  /\ Outside /\ c # catalog
  /\ catalog' = c
  /\ UNCHANGED <<page, avail, past, answers>>

TimePasses(s) ==
  /\ Outside /\ s \notin past
  /\ past' = past \cup {s}
  /\ UNCHANGED <<page, avail, catalog, answers>>

-----------------------------------------------------------------------------

Person ==
  \/ \E b \in Branches : ChooseBranch(b)
  \/ \E s \in Services : ToggleService(s)
  \/ \E d \in Dates : SelectDate(d)
  \/ \E s \in Starts : SelectSlot(s)
  \/ \E n \in 0 .. ReviewStep : Navigate(n)
  \/ Continue
  \/ \E j \in Jobs : StartReview(j) \/ StartSubmit(j)

Handlers == \E j \in Jobs : Invalid(j) \/ Review(j) \/ OnSubmit(j) \/ BookingRefused(j)
                          \/ BookingConfirmed(j)

Next ==
  \/ Person \/ Handlers \/ LeavePage \/ Rerender
  \/ \E k \in Keys : Settle(k)
  \/ Refetch
  \/ \E c \in Catalogs : CatalogArrives(c)
  \/ \E s \in Starts : TimePasses(s)

Spec == Init /\ [][Next]_vars

-----------------------------------------------------------------------------
(* Properties *)

\* What the form holds is offered now: the newest answer for its branch, its
\* date and the durations of its services in the cache's list has its start,
\* nothing newer is on its way, and the start is still to come.  A chosen
\* service that has left the list adds nothing to what is asked, though it is
\* posted with the others: the server refuses such a booking.
Offered(f) ==
  /\ f.branch # None /\ f.start # None
  /\ f.start \notin past
  /\ LET q == avail[Key(f.branch, f.start[1], f.services, catalog)]
     IN  q.status = "success" /\ ~q.fetching /\ f.start \in q.slots

PostsBooking(j) == job[j].kind # "posted" /\ job'[j].kind = "posted"

\* The page goes on to the contact data or the review, and posts a booking,
\* only with a slot that is offered at that moment, whatever the cache, the
\* clock and the person did while validation was awaited ("read the cache and
\* form again at the action boundary").
MovesOnWithOfferedSlot ==
  [][/\ step' > step /\ step' > ScheduleStep => Offered(form)
     /\ \A j \in Jobs : PostsBooking(j) =>
          /\ job[j].data = form /\ form.services # {} /\ Offered(form)]_vars

\* A confirmation is good for the choice it was given for: once the person has
\* changed the branch, the services or the date, also back to what they were,
\* the pending handler posts nothing ("A new context gets a distinct lifetime,
\* including navigation back to the same values").
EditCancelsConfirmation ==
  [][\A j \in Jobs : PostsBooking(j) => ~job[j].edited]_vars
==============================================================================
