----------------------------- MODULE PriceCache -----------------------------
(***************************************************************************)
(* The cache of Paddle's prices (paddle-price-cache.service.ts) behind the *)
(* circuit breaker that it shares with every other call of Paddle.         *)
(*                                                                         *)
(* Redis holds the catalog for an hour; an hourly job, and whoever finds   *)
(* the cache empty, fetch the prices and store them.  Concurrent misses    *)
(* share one refresh (refreshPromise).  Whatever fails, the caller gets    *)
(* the catalog that is compiled in.                                        *)
(*                                                                         *)
(* A catalog is the price it shows for one item: Paddle's, or the one that *)
(* is compiled in while Paddle does not list the item.                     *)
(***************************************************************************)
EXTENDS CircuitBreaker, FiniteSets

CONSTANTS
  Cron,      \* the caller of the breaker that is the hourly job
  Demand,    \* the callers that are refreshes on demand
  Readers,   \* concurrent calls of getCachedCatalog
  Null,      \* no catalog, no refresh
  Default,   \* the price that is compiled in
  MaxPrice,  \* bound on the changes of the price
  Unlisted   \* the versions at which Paddle does not list it as active

ASSUME PriceCacheAssumption ==
  /\ Cron \in Callers /\ Demand \subseteq Callers \ {Cron} /\ Demand # {}
  /\ MaxPrice \in Nat /\ Unlisted \subseteq Nat
  /\ Null \notin Nat \cup Callers \cup {Default}

VARIABLES
  price,           \* the version of Paddle's price of the item
  cache,           \* the key "catalog", or Null
  redisUp,
  refresh,         \* refresh[t]: where refreshCache of t is
  got,             \* got[t]: the version that t has been sent
  refreshPromise,  \* the refresh that concurrent misses share, or Null
  reader           \* reader[r]: where getCachedCatalog of r is

store == <<price, cache, redisUp>>
refreshes == <<refresh, got, refreshPromise>>
pvars == <<store, refreshes, reader>>

Refreshers == {Cron} \cup Demand

PInit ==
  /\ BInit
  /\ price = 0 /\ cache = Null /\ redisUp = TRUE
  /\ refresh = [t \in Refreshers |-> "idle"] /\ got = [t \in Refreshers |-> Null]
  /\ refreshPromise = Null
  /\ reader = [r \in Readers |-> "idle"]

-----------------------------------------------------------------------------
(* refreshCache *)

\* Up to the await of fetchAllPrices.  The prices are those of the moment the
\* request reaches Paddle.
Fetch(t) ==
  /\ refresh[t] = "idle"
  /\ Fire(t)
  /\ refresh' = [refresh EXCEPT ![t] = "fetching"]
  /\ got' = [got EXCEPT ![t] = price]

\* A new refresh on demand; they are all alike.
NewRefresh == CHOOSE t \in Demand : refresh[t] = "idle"
StartRefresh == Fetch(NewRefresh) /\ refreshPromise' = NewRefresh

\* The hourly job, and onModuleInit.  With an open circuit it returns.
RefreshHourly ==
  /\ Fetch(Cron)
  /\ UNCHANGED <<store, refreshPromise, reader>>

\* Mutant of Ends: a refresh that fails never settles its promise.
EndsUnsettled(t, kept) ==
  /\ refresh' = [refresh EXCEPT ![t] = "idle"] /\ got' = [got EXCEPT ![t] = Null]
  /\ refreshPromise' = IF refreshPromise = t /\ kept THEN Null ELSE refreshPromise
  /\ reader' = [r \in Readers |-> IF refreshPromise = t /\ reader[r] = "waiting" /\ kept
                                  THEN "reread" ELSE reader[r]]

\* The refresh is over: the promise is cleared and those who wait for it go
\* on, to the second read when it was kept and to the fallback when it was not.
Ends(t, kept) ==
  /\ refresh' = [refresh EXCEPT ![t] = "idle"] /\ got' = [got EXCEPT ![t] = Null]
  /\ refreshPromise' = IF refreshPromise = t THEN Null ELSE refreshPromise
  /\ reader' = [r \in Readers |->
                  IF refreshPromise = t /\ reader[r] = "waiting"
                  THEN IF kept THEN "reread" ELSE "idle"
                  ELSE reader[r]]

\* The prices arrive; an amount that is not a number is refused.  That Paddle
\* sends one is part of its not working.
FetchSucceeds(t) ==
  /\ refresh[t] = "fetching" /\ Succeed(t)
  /\ \/ refresh' = [refresh EXCEPT ![t] = "storing"] /\ UNCHANGED <<got, refreshPromise, reader>>
     \/ ~up /\ Ends(t, FALSE)
  /\ UNCHANGED store

FetchFails(t) ==
  /\ refresh[t] = "fetching" /\ Fail(t)
  /\ Ends(t, FALSE)
  /\ UNCHANGED store

\* buildCatalog: an item that is missing from the answer keeps, silently, the
\* price that is compiled in.
Catalog(version) == IF version \in Unlisted THEN Default ELSE version

\* Mutant of Kept: a catalog that is there stays there.
KeptFirst(t) == IF cache # Null THEN cache ELSE Catalog(got[t])

Kept(t) == Catalog(got[t])

Store(t) ==
  /\ refresh[t] = "storing"
  /\ cache' = IF redisUp THEN Kept(t) ELSE cache
  /\ Ends(t, redisUp)
  /\ UNCHANGED <<price, redisUp, bvars>>

-----------------------------------------------------------------------------
(* getCachedCatalog *)

\* The first read of Redis; without Redis the answer is the fallback.
Read(r) ==
  /\ reader[r] = "idle" /\ redisUp /\ cache = Null
  /\ reader' = [reader EXCEPT ![r] = "missed"]
  /\ UNCHANGED <<store, refreshes, bvars>>

\* Mutant of RefreshOnce: it joins no refresh.
RefreshOnceEach(r) ==
  /\ reader[r] = "missed"
  /\ \E t \in Demand : refresh[t] = "idle"
  /\ StartRefresh
  /\ reader' = [reader EXCEPT ![r] = "waiting"]
  /\ UNCHANGED store

\* refreshOnce: join the refresh that is under way, or start one.
RefreshOnce(r) ==
  /\ reader[r] = "missed"
  /\ \/ refreshPromise # Null /\ UNCHANGED <<bvars, refreshes>>
     \/ refreshPromise = Null /\ StartRefresh
  /\ reader' = [reader EXCEPT ![r] = "waiting"]
  /\ UNCHANGED store

\* The circuit is open: refreshCache returns at once, without a catalog.
RefreshSkipped(r) ==
  /\ reader[r] = "missed" /\ refreshPromise = Null
  /\ Reject(NewRefresh)
  /\ reader' = [reader EXCEPT ![r] = "reread"]
  /\ UNCHANGED <<store, refreshes>>

\* The second read; the answer is what it finds, or the fallback.
Reread(r) ==
  /\ reader[r] = "reread"
  /\ reader' = [reader EXCEPT ![r] = "idle"]
  /\ UNCHANGED <<store, refreshes, bvars>>

-----------------------------------------------------------------------------
(* Paddle, Redis and the rest of the application *)

PriceChanges ==
  /\ price < MaxPrice /\ price' = price + 1
  /\ UNCHANGED <<cache, redisUp, refreshes, reader, bvars>>

\* CACHE_TTL.
Expire ==
  /\ cache # Null
  /\ cache' = Null
  /\ UNCHANGED <<price, redisUp, refreshes, reader, bvars>>

RedisChanges ==
  /\ redisUp' = ~redisUp
  /\ cache' \in {cache, Null}
  /\ UNCHANGED <<price, refreshes, reader, bvars>>

\* Checkouts, plan changes and the other calls of Paddle, some of them refused.
OtherCall(c) ==
  /\ c \notin Refreshers
  /\ Fire(c) \/ Settle(c)
  /\ UNCHANGED pvars

World == (Elapse \/ ServiceChanges) /\ UNCHANGED pvars

RefreshStep(t) == FetchSucceeds(t) \/ FetchFails(t) \/ Store(t)
ReaderStep(r) == RefreshOnce(r) \/ RefreshSkipped(r) \/ Reread(r)

PNext ==
  \/ RefreshHourly
  \/ \E t \in Refreshers : RefreshStep(t)
  \/ \E r \in Readers : Read(r) \/ ReaderStep(r)
  \/ \E c \in Callers : OtherCall(c)
  \/ PriceChanges \/ Expire \/ RedisChanges \/ World

\* The job runs every hour, every request of Paddle settles within ten seconds
\* (AbortSignal.timeout), time passes, and a handler that can go on does.
PSpec ==
  /\ PInit /\ [][PNext]_<<bvars, pvars>>
  /\ WF_<<bvars, pvars>>(RefreshHourly) /\ WF_<<bvars, pvars>>(Elapse /\ UNCHANGED pvars)
  /\ \A t \in Refreshers : WF_<<bvars, pvars>>(RefreshStep(t))
  /\ \A r \in Readers : WF_<<bvars, pvars>>(ReaderStep(r))
  /\ \A c \in Callers \ Refreshers : WF_<<bvars, pvars>>(Settle(c) /\ UNCHANGED pvars)

-----------------------------------------------------------------------------
(* Properties *)

\* Readers that miss together share one request to Paddle: there is never a
\* second refresh on demand beside the one that they join, and whoever waits
\* waits for a refresh that has not ended.
RefreshShared ==
  /\ \A t \in Demand : refresh[t] # "idle" <=> refreshPromise = t
  /\ \A r \in Readers : reader[r] = "waiting" => refreshPromise \in Demand

\* Every reader is answered, whatever fails.
ReadersAnswered == \A r \in Readers : reader[r] # "idle" ~> reader[r] = "idle"

\* When Paddle and Redis work again for good and Paddle refuses no more calls,
\* the cache comes to show Paddle's price (the compiled-in one if Paddle does not
\* list the item), and no late answer brings an older one back for good.
PricesCatchUp ==
  <>[](up /\ redisUp /\ ~Refusing) => <>[](cache \in {Catalog(price), Null})
=============================================================================
