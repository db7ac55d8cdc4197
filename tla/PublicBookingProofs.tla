------------------------- MODULE PublicBookingProofs -------------------------
(***************************************************************************)
(* The two sides of a public booking.  The slots that checkAvailability    *)
(* offers are those a reservation accepts (Availability), for any branch,  *)
(* any orders, posts and employees, any duration and any settings and      *)
(* profiles that can be saved.  The page goes on, and posts a booking,     *)
(* only with a slot that is offered to it at that moment, and never on a   *)
(* confirmation that was given for another choice (BookingWizard), for any *)
(* branches, dates, services and catalogs and any number of handlers that  *)
(* wait.                                                                   *)
(***************************************************************************)
EXTENDS Availability, BookingWizard, FiniteSetTheorems, TLAPS

-----------------------------------------------------------------------------
(* The offer and the reservation *)

\* What the two range queries and the reservation read is well typed.
DayTyped ==
  /\ orders \subseteq [post : Posts, emp : Employees \cup {Null}, start : Int, end : Int]
  /\ settings \in Settings
  /\ profile \in [Employees -> Profiles]

LEMMA SettingsTyped ==
  ASSUME DayTyped
  PROVE  settings.open \in Int /\ settings.close \in Int /\ settings.buffer \in Nat
BY AvailabilityAssumption DEF DayTyped

LEMMA OrderTyped ==
  ASSUME DayTyped, NEW o \in orders
  PROVE  o.start \in Int /\ o.end \in Int
BY DEF DayTyped

LEMMA SlotTyped ==
  ASSUME NEW d \in Durations, NEW s \in Slots(d)
  PROVE  /\ s \in Int /\ d \in Nat \ {0}
         /\ s >= settings.open /\ s + d <= settings.close
BY AvailabilityAssumption DEF Slots

-----------------------------------------------------------------------------
(* The queries *)

\* The query for the employees' orders is wide enough: what overlaps a slot of
\* the working hours, with the buffer, was fetched.
LEMMA EmployeeQueryWide ==
  ASSUME DayTyped, NEW d \in Durations, NEW s \in Slots(d),
         NEW o \in orders, Overlaps(o, s, d)
  PROVE  o \in EmployeeOrders
BY SettingsTyped, OrderTyped, SlotTyped DEF EmployeeOrders, Overlaps

\* The query for the posts' orders is wide enough for the slots that are
\* further than the buffer from opening and closing time.
LEMMA PostQueryWide ==
  ASSUME DayTyped, NEW d \in Durations, NEW s \in Slots(d),
         s - settings.buffer >= settings.open,
         s + d + settings.buffer <= settings.close,
         NEW o \in orders, Overlaps(o, s, d)
  PROVE  o \in PostOrders
BY SettingsTyped, OrderTyped, SlotTyped DEF PostOrders, Overlaps

\* The employees who are counted for a slot are those a reservation accepts.
LEMMA SameEmployees ==
  ASSUME DayTyped, NEW d \in Durations, NEW s \in Slots(d)
  PROVE  AvailableEmployees(s, d) = {e \in Employees : Eligible(e, s, d)}
<1>1. EmployeeOrders \subseteq orders
  BY DEF EmployeeOrders
<1>2. \A e : (\E o \in EmployeeOrders : o.emp = e /\ Overlaps(o, s, d))
               <=> (\E o \in orders : o.emp = e /\ Overlaps(o, s, d))
  BY <1>1, EmployeeQueryWide
<1>q. QED BY <1>2 DEF AvailableEmployees, Candidates, Eligible

\* No post that a reservation accepts is missing from the offer.
LEMMA NoPostHidden == \A s, d : Bookable(s, d) \subseteq AvailablePosts(s, d)
<1>1. PostOrders \subseteq orders
  BY DEF PostOrders
<1>q. QED BY <1>1 DEF Bookable, AvailablePosts, PostFree

\* Further than the buffer from opening and closing time, the posts agree.
LEMMA SamePosts ==
  ASSUME DayTyped, NEW d \in Durations, NEW s \in Slots(d),
         s - settings.buffer >= settings.open,
         s + d + settings.buffer <= settings.close
  PROVE  AvailablePosts(s, d) = Bookable(s, d)
<1>1. AvailablePosts(s, d) \subseteq Bookable(s, d)
  BY PostQueryWide DEF AvailablePosts, Bookable, PostFree
<1>q. QED BY <1>1, NoPostHidden

-----------------------------------------------------------------------------
(* The counts *)

\* What is counted can be counted.
LEMMA Countable ==
  ASSUME NEW s, NEW d
  PROVE  /\ Cardinality(AvailablePosts(s, d)) \in Nat
         /\ Cardinality(Bookable(s, d)) \in Nat
         /\ Cardinality({e \in Employees : Eligible(e, s, d)}) \in Nat
         /\ Cardinality(Bookable(s, d)) <= Cardinality(AvailablePosts(s, d))
<1>1. IsFiniteSet(Posts) /\ IsFiniteSet(Employees)
  BY AvailabilityAssumption
<1>2. IsFiniteSet(AvailablePosts(s, d))
  <2>1. AvailablePosts(s, d) \subseteq Posts
    BY DEF AvailablePosts
  <2>q. QED BY <1>1, <2>1, FS_Subset
<1>3. /\ IsFiniteSet(Bookable(s, d))
      /\ Cardinality(Bookable(s, d)) <= Cardinality(AvailablePosts(s, d))
  BY <1>2, NoPostHidden, FS_Subset
<1>4. IsFiniteSet({e \in Employees : Eligible(e, s, d)})
  <2>1. {e \in Employees : Eligible(e, s, d)} \subseteq Employees
    OBVIOUS
  <2>q. QED BY <1>1, <2>1, FS_Subset
<1>q. QED BY <1>2, <1>3, <1>4, FS_CardinalityType

\* The offer of a slot and what a reservation accepts differ by the posts only.
LEMMA CapacityByPosts ==
  ASSUME DayTyped, NEW d \in Durations, NEW s \in Slots(d), NEW w \in Employees \cup {Null}
  PROVE  /\ Capacity(s, d, w) >= BookableTogether(s, d, w)
         /\ AvailablePosts(s, d) = Bookable(s, d)
              => Capacity(s, d, w) = BookableTogether(s, d, w)
<1> DEFINE E == {e \in Employees : Eligible(e, s, d)}
           offered == Cardinality(AvailablePosts(s, d))
           accepted == Cardinality(Bookable(s, d))
<1>1. AvailableEmployees(s, d) = E
  BY SameEmployees
<1>2. /\ offered \in Nat /\ accepted \in Nat /\ Cardinality(E) \in Nat
      /\ accepted <= offered
  BY Countable
<1>3. AvailablePosts(s, d) = Bookable(s, d) => offered = accepted
  OBVIOUS
<1>4. Null \notin E /\ (E = {} => Cardinality(E) = 0)
  BY FS_EmptySet, AvailabilityAssumption
\* Somebody was asked for: he is offered exactly when he is accepted.
<1>5. CASE w # Null
  <2>1. CASE w \in E
    <3>1. Assignable(w, s, d) = {w}
      BY <1>5, <2>1 DEF Assignable
    <3>2. Capacity(s, d, w) = offered /\ BookableTogether(s, d, w) = accepted
      BY <1>1, <1>5, <2>1, <3>1 DEF Capacity, BookableTogether
    <3>q. QED BY <1>2, <1>3, <3>2
  <2>2. CASE w \notin E
    <3>1. Assignable(w, s, d) = {}
      BY <1>5, <2>2 DEF Assignable
    <3>2. Capacity(s, d, w) = 0 /\ BookableTogether(s, d, w) = 0
      BY <1>1, <1>5, <2>2, <3>1 DEF Capacity, BookableTogether
    <3>q. QED BY <3>2
  <2>q. QED BY <2>1, <2>2
\* A branch with profiles: the smaller of the two counts.
<1>6. CASE w = Null /\ ProfilesConfigured
  <2>1. Assignable(w, s, d) = E
    BY <1>6 DEF Assignable
  <2>2. Capacity(s, d, w) = Smaller(offered, Cardinality(E))
    BY <1>1, <1>6 DEF Capacity
  <2>3. CASE E = {}
    <3>1. BookableTogether(s, d, w) = 0 /\ Capacity(s, d, w) = 0
      BY <1>2, <1>4, <2>1, <2>2, <2>3 DEF BookableTogether, Smaller
    <3>q. QED BY <3>1
  <2>4. CASE E # {}
    <3>1. BookableTogether(s, d, w) = Smaller(accepted, Cardinality(E))
      BY <1>4, <1>6, <2>1, <2>4 DEF BookableTogether
    <3>q. QED BY <1>2, <1>3, <2>2, <3>1 DEF Smaller
  <2>q. QED BY <2>3, <2>4
\* A branch without profiles: nobody is assigned and the posts count.
<1>7. CASE w = Null /\ ~ProfilesConfigured
  <2>1. Assignable(w, s, d) = {Null}
    BY <1>7 DEF Assignable
  <2>2. Capacity(s, d, w) = offered /\ BookableTogether(s, d, w) = accepted
    BY <1>7, <2>1 DEF Capacity, BookableTogether
  <2>q. QED BY <1>2, <1>3, <2>2
<1>q. QED BY <1>5, <1>6, <1>7

-----------------------------------------------------------------------------
(* The steps *)

LEMMA BookTyped ==
  ASSUME DayTyped, NEW p \in Posts, NEW w \in Employees \cup {Null}, NEW d \in Durations,
         NEW s \in 0 .. Day - d, Book(p, w, s, d)
  PROVE  DayTyped'
<1>1. PICK e \in Assignable(w, s, d) :
        orders' = orders \cup {[post |-> p, emp |-> e, start |-> s, end |-> s + d]}
  BY DEF Book
<1>2. e \in Employees \cup {Null}
  BY DEF Assignable
<1>3. s \in Int /\ d \in Int /\ s + d \in Int
  BY AvailabilityAssumption
<1>4. [post |-> p, emp |-> e, start |-> s, end |-> s + d]
        \in [post : Posts, emp : Employees \cup {Null}, start : Int, end : Int]
  BY <1>2, <1>3
<1>q. QED BY <1>1, <1>4 DEF Book, DayTyped

LEMMA DayInit == AInit => DayTyped
BY DEF AInit, DayTyped

LEMMA DayStep == DayTyped /\ [ANext]_avars => DayTyped'
<1> SUFFICES ASSUME DayTyped, [ANext]_avars PROVE DayTyped'
  OBVIOUS
<1>1. ASSUME NEW p \in Posts, NEW w \in Employees \cup {Null}, NEW d \in Durations,
             NEW s \in 0 .. Day - d, Book(p, w, s, d)
      PROVE  DayTyped'
  BY <1>1, BookTyped
<1>2. ASSUME NEW o \in orders, Release(o) PROVE DayTyped'
  BY <1>2 DEF Release, DayTyped
<1>3. CASE ChangeSettings
  BY <1>3 DEF ChangeSettings, DayTyped
<1>4. ASSUME NEW e \in Employees, ChangeProfile(e) PROVE DayTyped'
  BY <1>4 DEF ChangeProfile, DayTyped
<1>5. CASE UNCHANGED avars
  BY <1>5 DEF avars, DayTyped
<1>q. QED BY <1>1, <1>2, <1>3, <1>4, <1>5 DEF ANext

LEMMA AlwaysDayTyped == ASpec => []DayTyped
<1>q. QED BY DayInit, DayStep, PTL DEF ASpec

\* The slots that checkAvailability offers are those that reserveSlot and
\* reserveEmployee accept: on the employees at every slot, and on the posts and
\* the number of orders further than the buffer from opening and closing time.
THEOREM OfferIsAccepted == ASpec => []OffersWhatIsBookable
<1>1. DayTyped => OffersWhatIsBookable
  BY SameEmployees, SamePosts, CapacityByPosts DEF OffersWhatIsBookable
<1>q. QED BY <1>1, AlwaysDayTyped, PTL

\* checkAvailability never offers fewer places at a slot than a reservation
\* would accept, also next to opening and closing time.
THEOREM NothingIsHidden == ASpec => []HidesNothingBookable
<1>1. DayTyped => HidesNothingBookable
  BY CapacityByPosts DEF HidesNothingBookable
<1>q. QED BY <1>1, AlwaysDayTyped, PTL

-----------------------------------------------------------------------------
(* The booking page *)

Forms == [branch : Branches \cup {None}, services : SUBSET Services,
          start : Starts \cup {None}]
Pairs == Services \X ((Nat \ {0}) \cup {None})
Contexts == [branch : Branches \cup {None}, date : Dates \cup {None}, services : SUBSET Pairs]
ViewKeys == [branch : Branches \cup {None}, date : Dates \cup {None},
             dur : {Duration(ss, cat) : ss \in SUBSET Services, cat \in Catalogs}]
Queries == [status : {"none", "success", "error"}, fetching : BOOLEAN, slots : SUBSET Starts]
JobKinds == {"none", "review", "submit", "posted"}
Handling == [kind : JobKinds, context : Contexts \cup {None}, key : ViewKeys \cup {None},
             data : Forms \cup {None}, same : BOOLEAN, edited : BOOLEAN]

Typed ==
  /\ step \in Nat /\ form \in Forms /\ date \in Dates \cup {None} /\ catalog \in Catalogs
  /\ avail \in [Keys -> Queries] /\ job \in [Jobs -> Handling]

\* The cache holds slots of the day that was asked for.
SlotsOfDay == \A k \in Keys : avail[k].slots \subseteq On(k.date)

\* The last render was of the choice that the form still holds, with durations
\* that the services query has had.
ViewOfForm ==
  /\ \E cat \in Catalogs : /\ view.context = Context(form.branch, date, form.services, cat)
                           /\ view.key = Key(form.branch, date, form.services, cat)
  /\ view.hasSelectedSlot => form.services # {}

\* A selection is of the context that is rendered.
SelectionOfView == selection # None => selection.context = view.context

\* A handler that waits is of the rendered context as long as it is current, it
\* was confirmed with services chosen, and an edit ends its lifetime.
JobOK(j) ==
  /\ job[j].kind \in {"review", "submit"} /\ job[j].same
       => job[j].context = view.context /\ job[j].key = view.key
  /\ job[j].kind = "submit" => job[j].data.services # {}
  /\ job[j].edited => ~job[j].same

IInv ==
  /\ Typed /\ SlotsOfDay /\ ViewOfForm /\ SelectionOfView
  /\ \A j \in Jobs : JobOK(j)

\* What a step may do: go on, or post, with a slot that is offered and on a
\* confirmation that is still good.
StepOK ==
  /\ step' > step /\ step' > ScheduleStep => Offered(form)
  /\ \A j \in Jobs : PostsBooking(j) =>
       job[j].data = form /\ form.services # {} /\ Offered(form) /\ ~job[j].edited

-----------------------------------------------------------------------------
(* Contexts and query keys *)

\* What a context says of a chosen service tells whether it is listed, and how
\* long it takes if it is.
LEMMA MinutesTell ==
  ASSUME NEW c1 \in Catalogs, NEW c2 \in Catalogs, NEW s, Minutes(s, c1) = Minutes(s, c2)
  PROVE  /\ s \in DOMAIN c1 <=> s \in DOMAIN c2
         /\ s \in DOMAIN c1 => c1[s] = c2[s]
BY WizardAssumption DEF Minutes

\* A sum depends on the durations of its services only.
LEMMA TotalLocal ==
  ASSUME NEW ss, NEW c1, NEW c2, \A s \in ss : c1[s] = c2[s]
  PROVE  Total(ss, c1) = Total(ss, c2)
<1> DEFINE pick(t) == CHOOSE x \in t : TRUE
           step1(iter, t) == IF t = {} THEN 0 ELSE c1[pick(t)] + iter[t \ {pick(t)}]
           step2(iter, t) == IF t = {} THEN 0 ELSE c2[pick(t)] + iter[t \ {pick(t)}]
           body1(iter) == [t \in SUBSET ss |-> step1(iter, t)]
           body2(iter) == [t \in SUBSET ss |-> step2(iter, t)]
<1>1. ASSUME NEW iter, NEW t \in SUBSET ss PROVE step1(iter, t) = step2(iter, t)
  <2>1. t # {} => pick(t) \in ss
    OBVIOUS
  <2>q. QED BY <2>1
<1> HIDE DEF step1, step2
<1>2. ASSUME NEW iter PROVE body1(iter) = body2(iter)
  BY <1>1
<1> HIDE DEF body1, body2
<1>3. (CHOOSE iter : iter = body1(iter)) = (CHOOSE iter : iter = body2(iter))
  BY <1>2
<1>4. /\ Total(ss, c1) = (CHOOSE iter : iter = body1(iter))[ss]
      /\ Total(ss, c2) = (CHOOSE iter : iter = body2(iter))[ss]
  BY DEF Total, MapThenSumSet, MapThenFoldSet, body1, body2, step1, step2
<1>q. QED BY <1>3, <1>4

\* The duration of a choice depends on its listed services and their durations.
LEMMA DurationLocal ==
  ASSUME NEW ss \in SUBSET Services, NEW c1 \in Catalogs, NEW c2 \in Catalogs,
         \A s \in ss : Minutes(s, c1) = Minutes(s, c2)
  PROVE  Duration(ss, c1) = Duration(ss, c2)
<1>1. Listed(ss, c1) = Listed(ss, c2)
  BY MinutesTell DEF Listed
<1>2. \A s \in Listed(ss, c1) : c1[s] = c2[s]
  BY MinutesTell DEF Listed
<1>3. Total(Listed(ss, c1), c1) = Total(Listed(ss, c1), c2)
  BY <1>2, TotalLocal
<1>q. QED BY <1>1, <1>3 DEF Duration

\* A context is the choice together with the durations of its services, so it
\* determines the key of the availability query.
LEMMA ContextDetermines ==
  ASSUME NEW b1, NEW d1, NEW s1 \in SUBSET Services, NEW c1 \in Catalogs,
         NEW b2, NEW d2, NEW s2 \in SUBSET Services, NEW c2 \in Catalogs,
         Context(b1, d1, s1, c1) = Context(b2, d2, s2, c2)
  PROVE  /\ b1 = b2 /\ d1 = d2 /\ s1 = s2
         /\ Key(b1, d1, s1, c1) = Key(b2, d2, s2, c2)
<1>1. b1 = b2 /\ d1 = d2 /\ {<<s, Minutes(s, c1)>> : s \in s1} = {<<s, Minutes(s, c2)>> : s \in s2}
  BY DEF Context
<1>2. ASSUME NEW s \in s1 PROVE s \in s2 /\ Minutes(s, c1) = Minutes(s, c2)
  <2>1. <<s, Minutes(s, c1)>> \in {<<u, Minutes(u, c2)>> : u \in s2}
    BY <1>1
  <2>2. PICK u \in s2 : <<s, Minutes(s, c1)>> = <<u, Minutes(u, c2)>>
    BY <2>1
  <2>q. QED BY <2>2
<1>3. ASSUME NEW s \in s2 PROVE s \in s1
  <2>1. <<s, Minutes(s, c2)>> \in {<<u, Minutes(u, c1)>> : u \in s1}
    BY <1>1
  <2>2. PICK u \in s1 : <<s, Minutes(s, c2)>> = <<u, Minutes(u, c1)>>
    BY <2>1
  <2>q. QED BY <2>2
<1>4. s1 = s2
  BY <1>2, <1>3
<1>5. Duration(s1, c1) = Duration(s2, c2)
  BY <1>2, <1>4, DurationLocal
<1>q. QED BY <1>1, <1>4, <1>5 DEF Key

\* Contexts and keys of a choice are well typed.
LEMMA ContextTyped ==
  ASSUME NEW b \in Branches \cup {None}, NEW d \in Dates \cup {None},
         NEW ss \in SUBSET Services, NEW cat \in Catalogs
  PROVE  /\ Context(b, d, ss, cat) \in Contexts /\ Key(b, d, ss, cat) \in ViewKeys
         /\ Context(b, d, ss, cat).date = d
         /\ Key(b, d, ss, cat).branch = b /\ Key(b, d, ss, cat).date = d
         /\ Enabled(Key(b, d, ss, cat)) => Key(b, d, ss, cat) \in Keys
<1>1. {<<s, Minutes(s, cat)>> : s \in ss} \in SUBSET Pairs
  BY WizardAssumption DEF Pairs, Minutes
<1>2. Context(b, d, ss, cat) \in Contexts
  BY <1>1 DEF Context, Contexts
<1>3. Key(b, d, ss, cat) \in ViewKeys
  BY DEF Key, ViewKeys
<1>4. Context(b, d, ss, cat).date = d
  BY DEF Context
<1>5. Key(b, d, ss, cat).branch = b /\ Key(b, d, ss, cat).date = d
  BY DEF Key
<1>6. ASSUME Enabled(Key(b, d, ss, cat)) PROVE Key(b, d, ss, cat) \in Keys
  <2>1. b \in Branches /\ d \in Dates
    BY <1>5, <1>6 DEF Enabled
  <2>q. QED BY <2>1 DEF Key, Keys
<1>q. QED BY <1>2, <1>3, <1>4, <1>5, <1>6

\* What the last render computed.
LEMMA ViewFacts ==
  ASSUME IInv
  PROVE  /\ view.context \in Contexts /\ view.key \in ViewKeys
         /\ view.context.date = date
         /\ Enabled(view.key) => view.key \in Keys
         /\ form.branch \in Branches \cup {None} /\ form.services \in SUBSET Services
<1>1. form.branch \in Branches \cup {None} /\ form.services \in SUBSET Services
  BY DEF IInv, Typed, Forms
<1>2. PICK cat \in Catalogs :
        /\ view.context = Context(form.branch, date, form.services, cat)
        /\ view.key = Key(form.branch, date, form.services, cat)
  BY DEF IInv, ViewOfForm
<1>3. date \in Dates \cup {None}
  BY DEF IInv, Typed
<1>q. QED BY <1>1, <1>2, <1>3, ContextTyped

\* A render whose context is that of the last one observes the same query.
LEMMA SameContextSameKey ==
  ASSUME IInv, NEW b, NEW d, NEW ss \in SUBSET Services,
         Context(b, d, ss, catalog) = view.context
  PROVE  /\ Key(b, d, ss, catalog) = view.key
         /\ b = form.branch /\ d = date /\ ss = form.services
<1>1. form.services \in SUBSET Services /\ catalog \in Catalogs
  BY ViewFacts DEF IInv, Typed
<1>q. QED BY <1>1, ContextDetermines DEF IInv, ViewOfForm

-----------------------------------------------------------------------------
(* hasCurrentSelection *)

\* A handler of the rendered context that finds its selection current acts on a
\* slot that is offered now.
LEMMA CurrentIsOffered ==
  ASSUME IInv, NEW v, NEW same, v.context = view.context, v.key = view.key,
         HasCurrentSelection(v, same, form)
  PROVE  Offered(form)
<1> DEFINE q == Query(v.key, avail)
           k == Key(form.branch, date, form.services, catalog)
<1>1. /\ selection # None /\ form.start \notin past
      /\ selection.context = Context(form.branch, view.context.date, form.services, catalog)
      /\ q.status = "success" /\ ~q.fetching /\ form.start \in q.slots
  BY DEF HasCurrentSelection, IsCurrent
<1>2. Enabled(view.key) /\ q = avail[view.key]
  BY <1>1 DEF Query, NoQuery
<1>3. view.key = k
  BY <1>1, ViewFacts, SameContextSameKey DEF IInv, SelectionOfView
<1>4. view.key \in Keys /\ form.start \in On(view.key.date)
  BY <1>1, <1>2, ViewFacts DEF IInv, SlotsOfDay
<1>5. form.start \in Starts /\ form.start[1] = date
  BY <1>3, <1>4 DEF On, Key
<1>6. form.branch # None /\ form.start # None
  BY <1>2, <1>3, <1>5, WizardAssumption DEF Enabled, Key, Starts
<1>q. QED BY <1>1, <1>2, <1>3, <1>5, <1>6 DEF Offered

-----------------------------------------------------------------------------
(* Rendering *)

\* What the handlers may look like before a render of form f and date d: those
\* whose choice was edited get a context other than the rendered one.
Ready(h, f, d) ==
  /\ h.kind \in {"review", "submit"} /\ h.same
       => h.context = view.context /\ h.key = view.key
  /\ h.kind = "submit" => h.data.services # {}
  /\ h.edited /\ h.same => Context(f.branch, d, f.services, catalog) # view.context

LEMMA RenderKeeps ==
  ASSUME IInv, NEW f \in Forms, NEW d \in Dates \cup {None},
         NEW sel, sel # None => sel.context = view.context,
         NEW jobs \in [Jobs -> Handling], \A j \in Jobs : Ready(jobs[j], f, d),
         Render(f, d, sel, jobs), step' \in Nat, catalog' = catalog
  PROVE  /\ IInv'
         /\ \A j \in Jobs : job'[j].kind = jobs[j].kind
<1> DEFINE ctx == Context(f.branch, d, f.services, catalog)
           key == Key(f.branch, d, f.services, catalog)
           old == ctx = view.context
<1>1. /\ form' = f /\ date' = d /\ selection' = IF old THEN sel ELSE None
      /\ job' = [j \in Jobs |-> [jobs[j] EXCEPT !.same = @ /\ old]]
      /\ view'.context = ctx /\ view'.key = key
      /\ view'.hasSelectedSlot => f.services # {}
  BY DEF Render
<1>2. PICK fetch \in Fetches(key) :
        avail' = IF fetch THEN [avail EXCEPT ![key].fetching = TRUE] ELSE avail
  BY DEF Render
<1>3. f.services \in SUBSET Services /\ catalog \in Catalogs
  BY DEF Forms, IInv, Typed
<1>4. old => key = view.key
  BY <1>3, SameContextSameKey
<1>5. ASSUME NEW k \in Keys
      PROVE  avail'[k] \in Queries /\ avail'[k].slots = avail[k].slots
  <2>1. avail \in [Keys -> Queries]
    BY DEF IInv, Typed
  <2>2. avail'[k] = avail[k] \/ avail'[k] = [avail[k] EXCEPT !.fetching = TRUE]
    BY <1>2, <2>1
  <2>q. QED BY <2>1, <2>2 DEF Queries
<1>6. avail' \in [Keys -> Queries]
  <2>1. avail = [k \in Keys |-> avail[k]]
    BY DEF IInv, Typed
  <2>2. avail' = [k \in Keys |-> avail'[k]]
    BY <1>2, <2>1
  <2>q. QED BY <1>5, <2>2
<1>7. ASSUME NEW j \in Jobs
      PROVE  /\ job'[j] \in Handling /\ job'[j].kind = jobs[j].kind
             /\ job'[j].context = jobs[j].context /\ job'[j].key = jobs[j].key
             /\ job'[j].data = jobs[j].data /\ job'[j].edited = jobs[j].edited
             /\ job'[j].same <=> jobs[j].same /\ old
  BY <1>1 DEF Handling
<1>8. job' \in [Jobs -> Handling]
  BY <1>1, <1>7
<1>9. Typed'
  BY <1>1, <1>3, <1>6, <1>8 DEF Typed
<1>10. SlotsOfDay'
  BY <1>5 DEF IInv, SlotsOfDay
<1>11. ViewOfForm'
  BY <1>1, <1>3 DEF ViewOfForm
<1>12. SelectionOfView'
  <2>1. CASE old
    BY <1>1, <2>1 DEF SelectionOfView
  <2>2. CASE ~old
    BY <1>1, <2>2 DEF SelectionOfView
  <2>q. QED BY <2>1, <2>2
<1>13. ASSUME NEW j \in Jobs PROVE JobOK(j)'
  <2>1. Ready(jobs[j], f, d)
    OBVIOUS
  <2>2. /\ job'[j].kind \in {"review", "submit"} /\ job'[j].same
             => job'[j].context = view'.context /\ job'[j].key = view'.key
    BY <1>1, <1>4, <1>7, <2>1 DEF Ready
  <2>3. job'[j].kind = "submit" => job'[j].data.services # {}
    BY <1>7, <2>1 DEF Ready
  <2>4. job'[j].edited => ~job'[j].same
    BY <1>7, <2>1 DEF Ready
  <2>q. QED BY <2>2, <2>3, <2>4 DEF JobOK
<1>q. QED BY <1>7, <1>9, <1>10, <1>11, <1>12, <1>13 DEF IInv

\* A render that neither goes on nor posts does what it may.
LEMMA QuietStep ==
  ASSUME ~(step' > step /\ step' > ScheduleStep),
         \A j \in Jobs : job'[j].kind = "posted" => job[j].kind = "posted"
  PROVE  StepOK
BY DEF StepOK, PostsBooking

\* The steps of the page are numbers, and the form stays a form.
LEMMA StepsTyped ==
  /\ ScheduleStep \in Nat /\ ContactStep \in Nat /\ ReviewStep \in Nat
BY DEF ScheduleStep, ContactStep, ReviewStep

LEMMA ClearedTyped ==
  ASSUME NEW f \in Forms
  PROVE  /\ Cleared(f) \in Forms /\ Cleared(f).branch = f.branch
         /\ Cleared(f).services = f.services
BY DEF Cleared, Forms

\* Handlers that no edit touches are ready for any render.
LEMMA JobsReady ==
  ASSUME IInv, NEW f, NEW d
  PROVE  /\ job \in [Jobs -> Handling] /\ NoJob \in Handling
         /\ \A j \in Jobs : Ready(job[j], f, d)
         /\ Ready(NoJob, f, d) /\ NoJob.kind = "none"
<1>1. NoJob \in Handling /\ NoJob.kind = "none" /\ ~NoJob.edited
  BY DEF NoJob, Handling, JobKinds
<1>2. job \in [Jobs -> Handling]
  BY DEF IInv, Typed
<1>3. ASSUME NEW j \in Jobs PROVE Ready(job[j], f, d)
  BY DEF IInv, JobOK, Ready
<1>q. QED BY <1>1, <1>2, <1>3 DEF Ready

LEMMA EndedReady ==
  ASSUME IInv, NEW f, NEW d, NEW j \in Jobs
  PROVE  /\ Ended(j) \in [Jobs -> Handling]
         /\ \A i \in Jobs : Ready(Ended(j)[i], f, d)
         /\ \A i \in Jobs : Ended(j)[i].kind = "posted" => job[i].kind = "posted"
<1>1. \A i \in Jobs : Ended(j)[i] = NoJob \/ Ended(j)[i] = job[i]
  BY JobsReady DEF Ended
<1>2. Ended(j) \in [Jobs -> Handling]
  BY JobsReady DEF Ended
<1>q. QED BY <1>1, <1>2, JobsReady

\* Going on with a handler's slot, or back to the calendar.
LEMMA ProceedKeeps ==
  ASSUME IInv, NEW n \in Nat, NEW v, NEW same, NEW jobs \in [Jobs -> Handling],
         ProceedWithSlot(n, v, same, jobs),
         HasCurrentSelection(v, same, form) => Offered(form),
         \A f, d : \A j \in Jobs : Ready(jobs[j], f, d),
         \A j \in Jobs : jobs[j].kind = "posted" => job[j].kind = "posted",
         catalog' = catalog
  PROVE  IInv' /\ StepOK
<1>1. form \in Forms /\ date \in Dates \cup {None}
  BY DEF IInv, Typed
<1>2. CASE HasCurrentSelection(v, same, form)
  <2>1. step' = n /\ Render(form, date, selection, jobs) /\ Offered(form)
    BY <1>2 DEF ProceedWithSlot
  <2>2. IInv' /\ \A j \in Jobs : job'[j].kind = jobs[j].kind
    BY <1>1, <2>1, RenderKeeps DEF IInv, SelectionOfView
  <2>q. QED BY <2>1, <2>2 DEF StepOK, PostsBooking
<1>3. CASE ~HasCurrentSelection(v, same, form)
  <2>1. step' = ScheduleStep /\ Render(Cleared(form), date, None, jobs)
    BY <1>3 DEF ProceedWithSlot
  <2>2. Cleared(form) \in Forms /\ step' \in Nat
    BY <1>1, <2>1, ClearedTyped, StepsTyped
  <2>3. IInv' /\ \A j \in Jobs : job'[j].kind = jobs[j].kind
    BY <1>1, <2>1, <2>2, RenderKeeps
  <2>4. ~(step' > step /\ step' > ScheduleStep)
    BY <2>1, StepsTyped
  <2>q. QED BY <2>3, <2>4, QuietStep
<1>q. QED BY <1>2, <1>3

-----------------------------------------------------------------------------
(* The person's clicks *)

\* An edit renders another context, so that every handler that waits for a
\* confirmation of the old one is no longer current.
LEMMA EditKeeps ==
  ASSUME IInv, NEW f \in Forms, NEW d \in Dates \cup {None},
         Render(f, d, None, Edited), step' = step, catalog' = catalog,
         f.branch # form.branch \/ d # date \/ f.services # form.services
  PROVE  IInv' /\ StepOK
<1>1. Context(f.branch, d, f.services, catalog) # view.context
  BY SameContextSameKey DEF Forms
<1>2. job \in [Jobs -> Handling]
  BY DEF IInv, Typed
<1>3. ASSUME NEW j \in Jobs
      PROVE  /\ Edited[j] \in Handling /\ Edited[j].kind = job[j].kind
             /\ Edited[j].context = job[j].context /\ Edited[j].key = job[j].key
             /\ Edited[j].data = job[j].data /\ Edited[j].same = job[j].same
  BY <1>2 DEF Edited, Handling
<1>4. Edited \in [Jobs -> Handling]
  BY <1>3 DEF Edited
<1>5. ASSUME NEW j \in Jobs PROVE Ready(Edited[j], f, d)
  BY <1>1, <1>3 DEF Ready, IInv, JobOK
<1>6. step' \in Nat
  BY DEF IInv, Typed
<1>7. IInv' /\ \A j \in Jobs : job'[j].kind = Edited[j].kind
  BY <1>4, <1>5, <1>6, RenderKeeps
<1>q. QED BY <1>3, <1>6, <1>7, QuietStep

LEMMA ChooseBranchKeeps ==
  ASSUME IInv, NEW b \in Branches, ChooseBranch(b)
  PROVE  IInv' /\ StepOK
<1> DEFINE f == [Cleared(form) EXCEPT !.branch = b]
<1>1. form \in Forms /\ date \in Dates \cup {None}
  BY DEF IInv, Typed
<1>2. f \in Forms /\ f.branch = b
  BY <1>1, ClearedTyped DEF Forms
<1>3. Render(f, date, None, Edited) /\ b # form.branch /\ step' = step /\ catalog' = catalog
  BY DEF ChooseBranch, Click
<1> HIDE DEF f
<1>q. QED BY <1>1, <1>2, <1>3, EditKeeps

LEMMA ToggleServiceKeeps ==
  ASSUME IInv, NEW s \in Services, ToggleService(s)
  PROVE  IInv' /\ StepOK
<1> DEFINE ss == IF s \in form.services THEN form.services \ {s} ELSE form.services \cup {s}
           f == [Cleared(form) EXCEPT !.services = ss]
<1>1. form \in Forms /\ date \in Dates \cup {None}
  BY DEF IInv, Typed
<1>2. ss \in SUBSET Services /\ ss # form.services
  BY <1>1 DEF Forms
<1>3. Render(f, date, None, Edited) /\ step' = step /\ catalog' = catalog
  BY <1>1, ClearedTyped DEF ToggleService, Click
<1> HIDE DEF ss
<1>4. f \in Forms /\ f.services = ss
  BY <1>1, <1>2, ClearedTyped DEF Forms
<1> HIDE DEF f
<1>q. QED BY <1>1, <1>2, <1>3, <1>4, EditKeeps

\* A render with the choice and the handlers as they are.
LEMMA SameChoiceKeeps ==
  ASSUME IInv, NEW f \in Forms, NEW sel,
         sel = None \/ sel = selection \/ sel.context = view.context,
         Render(f, date, sel, job), step' \in Nat, catalog' = catalog,
         ~(step' > step /\ step' > ScheduleStep)
  PROVE  IInv' /\ StepOK
<1>1. date \in Dates \cup {None} /\ (sel # None => sel.context = view.context)
  BY DEF IInv, Typed, SelectionOfView
<1>2. IInv' /\ \A j \in Jobs : job'[j].kind = job[j].kind
  BY <1>1, JobsReady, RenderKeeps
<1>q. QED BY <1>2, QuietStep

LEMMA SelectDateKeeps ==
  ASSUME IInv, NEW d \in Dates, SelectDate(d)
  PROVE  IInv' /\ StepOK
<1>1. form \in Forms /\ date \in Dates \cup {None} /\ step \in Nat
  BY DEF IInv, Typed
<1>2. step' = step /\ catalog' = catalog
  BY DEF SelectDate, Click
<1>3. CASE d # date
  BY <1>1, <1>2, <1>3, ClearedTyped, EditKeeps DEF SelectDate
<1>4. CASE d = date
  BY <1>1, <1>2, <1>4, SameChoiceKeeps DEF SelectDate
<1>q. QED BY <1>3, <1>4

LEMMA SelectSlotKeeps ==
  ASSUME IInv, NEW s \in Starts, SelectSlot(s)
  PROVE  IInv' /\ StepOK
<1> DEFINE f == [form EXCEPT !.start = s]
           sel == [context |-> view.context, start |-> s]
<1>1. form \in Forms /\ f \in Forms /\ step \in Nat
  BY DEF IInv, Typed, Forms
<1>2. step' = step /\ catalog' = catalog
  BY DEF SelectSlot, Click
<1>3. sel.context = view.context
  OBVIOUS
<1>4. Render(f, date, sel, job) \/ Render(form, date, selection, job)
  BY DEF SelectSlot
<1> HIDE DEF f, sel
<1>q. QED BY <1>1, <1>2, <1>3, <1>4, SameChoiceKeeps

LEMMA NavigateKeeps ==
  ASSUME IInv, NEW n \in 0 .. ReviewStep, Navigate(n)
  PROVE  IInv' /\ StepOK
<1>1. form \in Forms /\ step \in Nat /\ n \in Nat
  BY StepsTyped DEF IInv, Typed
<1>2. step' = n /\ catalog' = catalog /\ Render(form, date, selection, job)
  BY DEF Navigate, Click
<1>3. ~(n > step /\ n > ScheduleStep)
  BY <1>1, StepsTyped DEF Navigate, ScheduleStep
<1>q. QED BY <1>1, <1>2, <1>3, SameChoiceKeeps

LEMMA ContinueKeeps == ASSUME IInv, Continue PROVE IInv' /\ StepOK
<1>1. ProceedWithSlot(ContactStep, view, TRUE, job) /\ catalog' = catalog
  BY DEF Continue, Click
<1>2. HasCurrentSelection(view, TRUE, form) => Offered(form)
  BY CurrentIsOffered
<1>q. QED BY <1>1, <1>2, StepsTyped, JobsReady, ProceedKeeps

\* A handler starts to wait in the rendered context.
LEMMA AwaitKeeps ==
  ASSUME IInv, NEW k \in {"review", "submit"}, NEW j \in Jobs,
         job' = [job EXCEPT ![j] = Awaiting(k)], k = "submit" => form.services # {},
         UNCHANGED <<form, date, step, selection, view, avail, catalog>>
  PROVE  IInv' /\ StepOK
<1>1. form \in Forms /\ view.context \in Contexts /\ view.key \in ViewKeys
  BY ViewFacts DEF IInv, Typed
<1>2. /\ Awaiting(k) \in Handling /\ Awaiting(k).kind = k /\ Awaiting(k).data = form
      /\ Awaiting(k).context = view.context /\ Awaiting(k).key = view.key
      /\ ~Awaiting(k).edited
  BY <1>1 DEF Awaiting, Handling, JobKinds
<1>3. /\ job'[j] = Awaiting(k) /\ job' \in [Jobs -> Handling]
      /\ \A i \in Jobs \ {j} : job'[i] = job[i]
  BY <1>2 DEF IInv, Typed
<1>4. Typed' /\ SlotsOfDay' /\ ViewOfForm' /\ SelectionOfView'
  BY <1>3 DEF IInv, Typed, SlotsOfDay, ViewOfForm, SelectionOfView
<1>5. JobOK(j)'
  BY <1>2, <1>3 DEF JobOK
<1>6. \A i \in Jobs \ {j} : JobOK(i)'
  BY <1>3 DEF JobOK, IInv
<1>7. StepOK
  BY <1>2, <1>3, QuietStep DEF IInv, Typed
<1>q. QED BY <1>4, <1>5, <1>6, <1>7 DEF IInv

LEMMA StartKeeps ==
  ASSUME IInv, NEW j \in Jobs, StartReview(j) \/ StartSubmit(j)
  PROVE  IInv' /\ StepOK
<1>1. CASE StartReview(j)
  BY <1>1, AwaitKeeps DEF StartReview, Click
<1>2. CASE StartSubmit(j)
  <2>1. form.services # {}
    BY <1>2 DEF StartSubmit, IInv, ViewOfForm
  <2>q. QED BY <1>2, <2>1, AwaitKeeps DEF StartSubmit, Click
<1>q. QED BY <1>1, <1>2

-----------------------------------------------------------------------------
(* The handlers that wait *)

\* A handler is over; the rest stays as it is.
LEMMA EndKeeps ==
  ASSUME IInv, NEW j \in Jobs, job' = Ended(j),
         UNCHANGED <<form, date, step, selection, view, avail, catalog>>
  PROVE  IInv' /\ StepOK
<1>1. job' \in [Jobs -> Handling] /\ \A i \in Jobs : job'[i] = NoJob \/ job'[i] = job[i]
  BY JobsReady DEF Ended
<1>2. Typed' /\ SlotsOfDay' /\ ViewOfForm' /\ SelectionOfView'
  BY <1>1 DEF IInv, Typed, SlotsOfDay, ViewOfForm, SelectionOfView
<1>3. \A i \in Jobs : JobOK(i)'
  BY <1>1 DEF JobOK, IInv, NoJob
<1>4. step \in Nat /\ step' = step
  BY DEF IInv, Typed
<1>5. StepOK
  BY <1>1, <1>4, QuietStep DEF NoJob
<1>q. QED BY <1>2, <1>3, <1>5 DEF IInv

LEMMA HandlerEndsKeeps ==
  ASSUME IInv, NEW j \in Jobs, Invalid(j) \/ BookingRefused(j) \/ BookingConfirmed(j)
  PROVE  IInv' /\ StepOK
BY EndKeeps DEF Invalid, BookingRefused, BookingConfirmed

\* What a handler that is still current captured is what is rendered.
LEMMA WaitingIsCurrent ==
  ASSUME IInv, NEW j \in Jobs, job[j].kind \in {"review", "submit"},
         HasCurrentSelection(job[j], job[j].same, form)
  PROVE  Offered(form) /\ ~job[j].edited
<1>1. job[j].same
  BY DEF HasCurrentSelection
<1>2. job[j].context = view.context /\ job[j].key = view.key /\ ~job[j].edited
  BY <1>1 DEF IInv, JobOK
<1>q. QED BY <1>2, CurrentIsOffered

LEMMA ReviewKeeps == ASSUME IInv, NEW j \in Jobs, Review(j) PROVE IInv' /\ StepOK
<1>1. /\ ProceedWithSlot(ReviewStep, job[j], job[j].same, Ended(j))
      /\ job[j].kind = "review" /\ catalog' = catalog
  BY DEF Review
<1>2. HasCurrentSelection(job[j], job[j].same, form) => Offered(form)
  BY <1>1, WaitingIsCurrent
<1>q. QED BY <1>1, <1>2, StepsTyped, EndedReady, ProceedKeeps

LEMMA OnSubmitKeeps == ASSUME IInv, NEW j \in Jobs, OnSubmit(j) PROVE IInv' /\ StepOK
<1>1. job[j].kind = "submit" /\ catalog' = catalog /\ Mounted
  BY DEF OnSubmit
<1>2. form \in Forms /\ date \in Dates \cup {None} /\ step \in Nat
  BY DEF IInv, Typed
<1>3. CASE HasCurrentSelection(job[j], job[j].same, job[j].data)
  <2> DEFINE jobs == [job EXCEPT ![j].kind = "posted"]
  <2>1. Render(form, date, selection, jobs) /\ step' = step
    BY <1>3 DEF OnSubmit
  <2>2. job[j].data = form
    BY <1>3 DEF HasCurrentSelection
  <2>3. Offered(form) /\ ~job[j].edited
    BY <1>1, <1>3, <2>2, WaitingIsCurrent
  <2>4. form.services # {}
    BY <1>1, <2>2 DEF IInv, JobOK
  <2>5. job[j] \in Handling
    BY DEF IInv, Typed
  <2>6. [job[j] EXCEPT !.kind = "posted"] \in Handling
    BY <2>5 DEF Handling, JobKinds
  <2>7. /\ jobs \in [Jobs -> Handling] /\ jobs[j].kind = "posted"
        /\ jobs[j].edited = job[j].edited
        /\ \A i \in Jobs \ {j} : jobs[i] = job[i]
    BY <2>5, <2>6 DEF IInv, Typed, Handling
  <2> HIDE DEF jobs
  <2>8. ASSUME NEW i \in Jobs PROVE Ready(jobs[i], form, date)
    BY <2>3, <2>7, JobsReady DEF Ready
  <2>9. IInv' /\ \A i \in Jobs : job'[i].kind = jobs[i].kind
    BY <1>1, <1>2, <2>1, <2>7, <2>8, RenderKeeps DEF IInv, SelectionOfView
  <2>10. \A i \in Jobs : PostsBooking(i) => i = j
    BY <2>7, <2>9 DEF PostsBooking
  <2>q. QED BY <1>2, <2>1, <2>2, <2>3, <2>4, <2>9, <2>10 DEF StepOK
<1>4. CASE ~HasCurrentSelection(job[j], job[j].same, job[j].data)
  <2>1. step' = ScheduleStep /\ Render(Cleared(form), date, None, Ended(j))
    BY <1>4 DEF OnSubmit
  <2>2. Cleared(form) \in Forms /\ step' \in Nat
    BY <1>2, <2>1, ClearedTyped, StepsTyped
  <2>3. IInv' /\ \A i \in Jobs : job'[i].kind = Ended(j)[i].kind
    BY <1>1, <1>2, <2>1, <2>2, EndedReady, RenderKeeps
  <2>4. ~(step' > step /\ step' > ScheduleStep)
    BY <2>1, StepsTyped
  <2>q. QED BY <2>3, <2>4, EndedReady, QuietStep
<1>q. QED BY <1>3, <1>4

-----------------------------------------------------------------------------
(* The page goes, the query cache and the clock *)

LEMMA LeavePageKeeps == ASSUME IInv, LeavePage PROVE IInv' /\ StepOK
<1>1. /\ selection' = None /\ job' = [j \in Jobs |-> [job[j] EXCEPT !.same = FALSE]]
      /\ UNCHANGED <<form, date, step, view, avail, catalog>>
  BY DEF LeavePage
<1>2. step \in Nat /\ job \in [Jobs -> Handling]
  BY DEF IInv, Typed
<1>3. ASSUME NEW j \in Jobs
      PROVE  /\ job'[j] \in Handling /\ job'[j].kind = job[j].kind /\ ~job'[j].same
             /\ job'[j].data = job[j].data
  BY <1>1, <1>2 DEF Handling
<1>4. job' \in [Jobs -> Handling]
  BY <1>1, <1>3
<1>5. Typed' /\ SlotsOfDay' /\ ViewOfForm' /\ SelectionOfView'
  BY <1>1, <1>4 DEF IInv, Typed, SlotsOfDay, ViewOfForm, SelectionOfView
<1>6. \A j \in Jobs : JobOK(j)'
  BY <1>3 DEF IInv, JobOK
<1>7. StepOK
  BY <1>1, <1>2, <1>3, QuietStep
<1>q. QED BY <1>5, <1>6, <1>7 DEF IInv

LEMMA RerenderKeeps == ASSUME IInv, Rerender PROVE IInv' /\ StepOK
<1>1. form \in Forms /\ step \in Nat
  BY DEF IInv, Typed
<1>2. Render(form, date, selection, job) /\ step' = step /\ catalog' = catalog
  BY DEF Rerender
<1>q. QED BY <1>1, <1>2, SameChoiceKeeps

\* Whatever the cache comes to hold, its slots are of the day that was asked for.
LEMMA CacheKeeps ==
  ASSUME IInv, UNCHANGED page, avail' \in [Keys -> Queries], catalog' \in Catalogs,
         \A k \in Keys : avail'[k].slots \subseteq On(k.date)
  PROVE  IInv' /\ StepOK
<1>1. Typed' /\ SlotsOfDay' /\ ViewOfForm' /\ SelectionOfView'
  BY DEF page, IInv, Typed, SlotsOfDay, ViewOfForm, SelectionOfView
<1>2. \A j \in Jobs : JobOK(j)'
  BY DEF page, IInv, JobOK
<1>3. StepOK
  BY QuietStep DEF page, IInv, Typed
<1>q. QED BY <1>1, <1>2, <1>3 DEF IInv

LEMMA SettleKeeps == ASSUME IInv, NEW k \in Keys, Settle(k) PROVE IInv' /\ StepOK
<1>1. UNCHANGED page /\ catalog' = catalog /\ catalog \in Catalogs /\ avail \in [Keys -> Queries]
  BY DEF Settle, IInv, Typed
<1>2. \E q : /\ avail' = [avail EXCEPT ![k] = q] /\ q \in Queries
             /\ q.slots \subseteq On(k.date)
  <2>1. CASE avail' = [avail EXCEPT ![k].status = "error", ![k].fetching = FALSE]
    <3> DEFINE m == [avail[k] EXCEPT !.status = "error"]
               q == [m EXCEPT !.fetching = FALSE]
    <3>1. avail' = [avail EXCEPT ![k] = q]
      BY <2>1, <1>1
    <3>2. m \in Queries /\ m.slots = avail[k].slots
      BY <1>1 DEF Queries
    <3>3. q \in Queries /\ q.slots = avail[k].slots
      BY <3>2 DEF Queries
    <3> HIDE DEF m, q
    <3>q. QED BY <3>1, <3>3 DEF IInv, SlotsOfDay
  <2>2. ASSUME NEW free \in SUBSET On(k.date),
               avail' = [avail EXCEPT ![k] = [status |-> "success", fetching |-> FALSE,
                                              slots |-> free]]
        PROVE  \E q : /\ avail' = [avail EXCEPT ![k] = q] /\ q \in Queries
                      /\ q.slots \subseteq On(k.date)
    <3> DEFINE q == [status |-> "success", fetching |-> FALSE, slots |-> free]
    <3>1. q \in Queries /\ q.slots \subseteq On(k.date)
      BY DEF Queries, On
    <3>2. avail' = [avail EXCEPT ![k] = q]
      BY <2>2
    <3> HIDE DEF q
    <3>q. QED BY <3>1, <3>2
  <2>q. QED BY <2>1, <2>2 DEF Settle
<1>3. avail' \in [Keys -> Queries] /\ \A i \in Keys : avail'[i].slots \subseteq On(i.date)
  BY <1>1, <1>2 DEF IInv, SlotsOfDay
<1>q. QED BY <1>1, <1>3, CacheKeeps

LEMMA RefetchKeeps == ASSUME IInv, Refetch PROVE IInv' /\ StepOK
<1>1. /\ UNCHANGED page /\ catalog' = catalog /\ catalog \in Catalogs
      /\ avail \in [Keys -> Queries]
      /\ avail' = [avail EXCEPT ![view.key].fetching = TRUE]
  BY DEF Refetch, IInv, Typed
<1>2. ASSUME NEW k \in Keys
      PROVE  avail'[k] \in Queries /\ avail'[k].slots = avail[k].slots
  <2>1. avail'[k] = avail[k] \/ avail'[k] = [avail[k] EXCEPT !.fetching = TRUE]
    BY <1>1
  <2>q. QED BY <1>1, <2>1 DEF Queries
<1>3. avail' = [k \in Keys |-> avail'[k]]
  BY <1>1
<1>4. avail' \in [Keys -> Queries]
  BY <1>2, <1>3
<1>q. QED BY <1>1, <1>2, <1>4, CacheKeeps DEF IInv, SlotsOfDay

LEMMA CatalogKeeps ==
  ASSUME IInv, NEW c \in Catalogs, CatalogArrives(c)
  PROVE  IInv' /\ StepOK
BY CacheKeeps DEF CatalogArrives, IInv, Typed, SlotsOfDay

LEMMA TimeKeeps ==
  ASSUME IInv, NEW s \in Starts, TimePasses(s)
  PROVE  IInv' /\ StepOK
BY CacheKeeps DEF TimePasses, IInv, Typed, SlotsOfDay

-----------------------------------------------------------------------------

LEMMA InitIInv == Init => IInv
<1> SUFFICES ASSUME Init PROVE IInv
  OBVIOUS
<1>1. form \in Forms /\ form.services = {} /\ date = None /\ step = 0 /\ catalog \in Catalogs
  BY DEF Init, Forms
<1>2. NoJob \in Handling /\ ~NoJob.edited /\ NoJob.kind = "none" /\ NoQuery \in Queries
  BY DEF NoJob, Handling, JobKinds, NoQuery, Queries
<1>3. Typed
  BY <1>1, <1>2 DEF Init, Typed
<1>4. SlotsOfDay
  BY DEF Init, SlotsOfDay, NoQuery
<1>5. ViewOfForm
  BY <1>1 DEF Init, ViewOfForm
<1>6. SelectionOfView
  BY DEF Init, SelectionOfView
<1>7. \A j \in Jobs : JobOK(j)
  BY <1>2 DEF Init, JobOK
<1>q. QED BY <1>3, <1>4, <1>5, <1>6, <1>7 DEF IInv

LEMMA NextIInv == IInv /\ [Next]_vars => IInv' /\ StepOK
<1> SUFFICES ASSUME IInv, [Next]_vars PROVE IInv' /\ StepOK
  OBVIOUS
<1>1. CASE Person
  BY <1>1, ChooseBranchKeeps, ToggleServiceKeeps, SelectDateKeeps, SelectSlotKeeps,
     NavigateKeeps, ContinueKeeps, StartKeeps DEF Person
<1>2. CASE Handlers
  BY <1>2, HandlerEndsKeeps, ReviewKeeps, OnSubmitKeeps DEF Handlers
<1>3. CASE LeavePage \/ Rerender \/ Refetch
  BY <1>3, LeavePageKeeps, RerenderKeeps, RefetchKeeps
<1>4. CASE \E k \in Keys : Settle(k)
  BY <1>4, SettleKeeps
<1>5. CASE (\E c \in Catalogs : CatalogArrives(c)) \/ \E s \in Starts : TimePasses(s)
  BY <1>5, CatalogKeeps, TimeKeeps
<1>6. CASE UNCHANGED vars
  BY <1>6, CacheKeeps DEF vars, page, IInv, Typed, SlotsOfDay
<1>q. QED BY <1>1, <1>2, <1>3, <1>4, <1>5, <1>6 DEF Next

LEMMA AlwaysIInv == Spec => []IInv
<1>q. QED BY InitIInv, NextIInv, PTL DEF Spec

\* Whatever the cache, the clock and the person did while validation was
\* awaited (hasCurrentSelection reads the cache and the form again), the page
\* goes on to the contact data or the review, and posts a booking, only with a
\* slot that is offered at that moment for the chosen services that the list
\* still has (totalDuration).
THEOREM MovesWithOfferedSlot == Spec => MovesOnWithOfferedSlot
<1>1. IInv /\ [Next]_vars =>
        [/\ step' > step /\ step' > ScheduleStep => Offered(form)
         /\ \A j \in Jobs : PostsBooking(j) =>
              /\ job[j].data = form /\ form.services # {} /\ Offered(form)]_vars
  BY NextIInv DEF StepOK
<1>q. QED BY <1>1, AlwaysIInv, PTL DEF Spec, MovesOnWithOfferedSlot

\* A confirmation posts nothing once the branch, the services or the date were
\* changed, also back to what they were (contextVersion of useBookingSelection).
THEOREM EditEndsConfirmation == Spec => EditCancelsConfirmation
<1>1. IInv /\ [Next]_vars => [\A j \in Jobs : PostsBooking(j) => ~job[j].edited]_vars
  BY NextIInv DEF StepOK
<1>q. QED BY <1>1, AlwaysIInv, PTL DEF Spec, EditCancelsConfirmation
==============================================================================
