# b2d_geo, specified

TLA+ models of the stateful parts of this repository, TLC runs that check them
on small instances, and TLAPS proofs of the results that matter most. Paths
below are relative to the repository; `meter.go:66` means line 66.

## 1. The system

b2d_geo serves Korean address, parcel and place data from PostgreSQL/PostGIS.
Three programs share the database: `b2d-server` (REST API and web pages),
`b2d-etl` (loaders, migrations, API keys) and `b2d-mcp` (an adapter that turns
the messages of an MCP client into calls of the API).

| Component | State | Operations | Talks to | What is hard | What makes it correct |
| --- | --- | --- | --- | --- | --- |
| Usage meter `internal/meter` | channel, aggregation map and count, `usage_log` | Middleware (send or drop), run (receive, tick, flush), insert, Close | requests over a channel; PostgreSQL COPY | bounded channel, inserts that fail or are answered late, crash, shutdown | an event is billed at most once; bounded loss; Close leaves nothing behind |
| Key cache `internal/auth/auth.go` | map of rows with expiry under a mutex | lookup | `api_keys`; operators who change rows | read of the clock, query and store are three steps; racing fills | no answer older than the TTL; a missing key is never remembered |
| Monthly cap `auth.go` | none of its own; reads `usage_log` | the check in Middleware, monthlyUsage | the meter, through the table | the table lags behind requests | bounded overrun; nobody refused early |
| Rate limiters `internal/auth/ratelimit.go` | map of token buckets under a mutex, two instances | allow, reap, Retry-After | requests, a ticker | requests out of time order, buckets forgotten | the rate holds over every window; Retry-After is honest |
| Server process `cmd/b2d-server`, `internal/api/server.go`, `reqid.go` | main's phase, the connections | chain of middlewares, Shutdown, closeMeter, pool.Close, panic recovery | all of the above | drain that times out, crash, restart | the meter is closed after the drain, the pool after the meter |
| Usage report `usageHandler` | none | items, then the month's use | `usage_log`, the clock | two snapshots between which batches commit and months end | the report agrees with itself and lags no more than the meter |
| API handlers `internal/api/server.go` | none | one to three queries each | PostgreSQL | reads of tables that are being loaded; order of checks | 404 and `REGION_NOT_LOADED` exactly when it is so |
| Geocoding, address parser | none | pure functions and a cascade of queries | PostgreSQL | conventions shared with the loaders | loader and query normalise alike |
| Place search `internal/places`, backfill `etl/sbiz/choseong.go` | column `places.choseong` | Search by name or by initials; BackfillChoseong | PostgreSQL, the loaders of `places` | SELECT and UPDATE are two statements around a load; tiers cut before they are ranked | initials are those of the row's own name; what matches is found; the loop ends |
| Reverse geocoding, parcels | none | one PostGIS query each | PostgreSQL | — (nothing that outlives a query) | what PostGIS returns |
| Land use loader `etl/landuse` | `land_use_plan`, its key, `lu_stg` | truncate, stage, drop key, insert, add key | PostgreSQL, bundle files | every statement commits by itself; leftovers of interrupted loads; two loads share `lu_stg` | readers see nothing or a whole bundle; a retry repairs |
| Replacing loaders `etl/juso`, `etl/sbiz`, `etl/landsales` | their rows of `buildings`, `places`, `land_sales` | delete, insert, commit | PostgreSQL, files, an API | two transactions under READ COMMITTED; errors after the insert | the table is old or new; reloading is idempotent |
| Staging and upsert loaders `etl/officialprice`, `landfeature`, `jijeok`, `standardlots`, `priceindex` | their tables, `oip_stg`, `lf_stg` | stage and merge; upsert in batches | PostgreSQL, files | shared staging, batches that stay, readers between | a bundle is merged whole; a retry converges |
| Migrations `internal/store` | `schema_migrations` | Migrate | PostgreSQL | crash between files, two migrators | a prefix is applied, each file once |
| MCP adapter `cmd/b2d-mcp` | stdin not yet read, HTTP requests being served, calls in flight | serveStdio, serveHTTP, handleMessage, toolsCall, get | MCP clients, the REST API | concurrent requests with keys of their own, calls that time out and are executed late, repeated GETs | each call uses its message's key; its cost is bounded; one answer each, in order on stdout |
| Web pages `web/public` | last query on screen | api, batch run, map search | the REST API | answers out of order | the page shows the last question's answer (not modelled) |

A request of `/v1/*` goes through request ID and panic recovery → IP limiter →
authentication with the cap → key limiter → meter → handler
(`server.go:55-72`). The meter writes `usage_log`, which the cap reads: the two
are coupled through a table that lags by a channel and a batch.

## 2. Modules

| Module | What it is |
| --- | --- |
| `UsageLedger` | abstract: events are accepted, then billed once or lost |
| `UsageMeter` | `meter.go`: channel, run, insert, Close, crash, restart; implements `UsageLedger` |
| `UsageReport` | extends `UsageMeter`: `usageHandler`, two queries and a clock beside the meter |
| `AuthCache` | `Authenticator.lookup` against a changing `api_keys` |
| `AdmissionLog` | abstract: a request is admitted iff the log of grants leaves room in every window |
| `RateLimiter` | `ratelimit.go`: buckets, reaper, Retry-After; implements `AdmissionLog` |
| `ServerLifecycle` | requests, cap, meter (instance of `UsageMeter`) and main's shutdown |
| `Migrate` | `store.Migrate`: several migrators, older and newer releases |
| `PublishedTable` | abstract: readers of a loaded table find nothing or one whole bundle |
| `LandUseLoad` | `etl/landuse`: statement by statement; implements `PublishedTable!ClearingSpec` |
| `LandUseQuery` | extends `LandUseLoad`: `appraisalLandUse`, a request beside the loads |
| `ReplaceLoad` | `etl/juso`, `sbiz`, `landsales`: delete and insert in a transaction; implements `PublishedTable!SwappingSpec` |
| `PlaceSearch` | extends `ReplaceLoad`: the backfill of the initials beside the loads, and search by name and by initials |
| `BatchLoad` | `etl/jijeok`, `standardlots`, `priceindex`: upserts batch by batch |
| `PriceLookup` | `etl/officialprice` and `landfeature` through staging tables, `standardlots` as an instance of `BatchLoad`, and the handlers that read the three tables |
| `Geocode` | addresses as the loaders write them, the parser, `RoadKey` and the cascade of `geocode.Search` |
| `Clock` | the clock that the limiter and the key cache read |
| `McpAdapter` | `b2d-mcp`: messages over stdin or HTTP, and the calls of the API they become |
| `UsageMeterProofs` | theorems about `UsageMeter` and `UsageReport` |
| `AuthProofs` | about `RateLimiter` and `AuthCache` |
| `ServerLifecycleProofs`, `MigrateProofs`, `McpAdapterProofs` | about the module they name |
| `LandUseLoadProofs` | about `LandUseLoad` and `LandUseQuery` |
| `ReplaceLoadProofs` | about `ReplaceLoad` and `PlaceSearch` |
| `LookupProofs` | about `PriceLookup`, with its instance of `BatchLoad`, and `Geocode` |
| `MC...` | values of the constants, and symmetry, for TLC |

### UsageMeter

The channel is a queue that never forgets: `accepted` is every event sent,
`taken` how many run has received. `agg`, `n`, `pc` are run's locals and place;
`usageLog` is `SUM(count)` of the table. `flushed`, `logged` and `lost` are
history: up to which event the map has been emptied, which events a committed
insert billed, and which were given up before one did. An insert is two steps,
the commit in PostgreSQL (`CommitInsert`) and the return of `CopyFrom`
(`InsertReturns`, with or without an error); `InsertFails` is the return before
a commit. A crash may fall between any two. An insert that `CopyFrom` or the
process gave up may reach its commit all the same: it waits in `late`
(`MayStay`) until PostgreSQL commits it (`CommitLate`), if it ever does, so a
given up event can still be billed. `MaxLate` bounds how many can. For the
ledger an event is lost when no insert will ever count it (`Gone`). A send on a
closed channel is left to `ServerLifecycle`, which is the caller.

### UsageReport

A class of the meter is a key, an endpoint and a minute, as in `usage_log`; here
the key is the reader's. `left` is what the handler has yet to do: the items of
all time (`ReadItems`), the month's use (`ReadUsed`), the answer. The request is
metered before the handler runs (`Begin`), like every other. The clock moves
between any two steps, so a month can end between the two queries. `Total`, the
sum of the counts of some classes, counts a unit for each unit of each row, as
`Used` of `ServerLifecycle` does.

### AuthCache

The contents of a row are a version number, so "old limits" and "revoked" are
the same thing: a version that has ended. `endedAt` records when. A lookup is
clock, cache, query, store; other lookups, the clock and the operator move
between any two of them. Time is a counter that stands for the monotonic clock
Go uses for `now.Add` and `After`.

### RateLimiter

Tokens are measured by the time their refill takes, which makes the arithmetic
linear: one token costs `Cost[s] = 1/rate`, refilling adds the elapsed time, and
the burst is two seconds for every subject because both limiters use twice the
rate. A request reads the clock in `Arrive` and takes the lock in `Admit` or
`Refuse`; `MaxSkew` bounds the time between the two. Rounding of float64 and a
change of a key's rate while it has a bucket are left out.

### ServerLifecycle

`M` is the meter, over the same variables. `hpc` is where each connection's
request is; `phase` is where main is. `MeterRequest` is the meter's send or
drop, `MeterPanics` the send on the closed channel with its recovery,
`ShutdownReturns` and `ShutdownTimesOut` the two ways out of `srv.Shutdown`.
`EndUnmetered` stands for every answer given before the meter for another
reason than the cap. `CommitLate` is the meter's. The requests are those of one key in one month, and `Used`
is their `SUM(count)`: it counts one unit for each unit of each row, a form in
which the sum can be reasoned about without induction.

### Migrate

A migrator embeds a set of files and looks at them in order (`IsNext`). The
question whether a file is recorded (`Check`) and the transaction that runs it
(`Apply`, `Record`, `Commit`) are apart, so two migrators may both be past the
question. What a file does to the schema is counted, not modelled: `applied[f]`
is how often its statements were committed. `Record` is the INSERT of the name,
with PostgreSQL's rule for a primary key: it waits for a transaction that has
inserted the same name, then succeeds or is refused (`Refuse`). `Fail` is any
error or kill before the commit, `CommitUnanswered` one after it.

### LandUseLoad

The program counter of a load is the statement it is about to run; each commits
by itself. Rows are reduced to their key and to where they come from: bundle,
part (one COPY), and, in the table, the load that wrote them, because without
the primary key two loads may write the same row. `Refused` is an ADD PRIMARY
KEY over duplicates; `Fail` any error or kill; `DbCrash` a crash of PostgreSQL,
after which an UNLOGGED table is empty. `tainted` remembers, since the last
TRUNCATE of the table, whether another load was met or a load outlived the rows
it had staged: what is promised is promised for loads it does not name.

### LandUseQuery

`Ask`, `ReadZones` and `ReadRegion` are the handler; every step of `LandUseLoad`
may fall between them (`LoadGoesOn`). The table may be emptied, and a load may
stop or fail, at any point of a request, and what it answers must still be so.
The one exception is remembered by `late`: rows that came between its two
queries, of which the first could know nothing, or a plan that changed after
the answer.

### ReplaceLoad

One module for three loaders, which differ in whether the table has a unique
key (`keyed`: `buildings` and `places`, not `land_sales`). The DELETE takes its
snapshot in `DeleteBegins` and waits for the row locks of others in
`DeleteEnds`; the INSERT with ON CONFLICT DO NOTHING waits for uncommitted rows
of the same keys and skips those it finds. `missed` remembers that another load
committed in between, `loaded` which inputs were ever committed. Files are
validated before and after the insert; both are `Abort`.

### PlaceSearch

A place is its row: a load that replaces it writes another row, which never has
the old id, so the UPDATE of a backfill matches nothing any more (`gone`).
`batch` is what `BackfillChoseong` has computed from the rows of its SELECT. A
name is a sequence of syllables, digits and blanks; `Choseong` keeps what is
not a syllable, as `address.Choseong` does. `Search` yields the set of answers
that PostgreSQL may give: LIMIT without ORDER BY is any choice, and ties of an
ORDER BY are broken anyhow. Category and radius are any set of wanted rows; the
limit of a search is anything up to `MaxLimit`. An answer is a sequence, so which
place comes first, and what a full answer leaves out, can be asked.

### BatchLoad

A batch of 500 rows is one implicit transaction: `Flush`, or
`FlushUnanswered` when it was committed and the answer lost. A row is the batch
it came from. priceindex, one transaction, is an input of one batch. A load
of `standard_lots` ends in an error for an input without files (`Refused`).

### PriceLookup

`target` says which loader runs: `officialprice` into `official_land_prices` or
`landfeature` into `land_features`, both through an unlogged staging table they
share with themselves, or `standardlots` into `standard_lots`, whose steps are
those of the instance `Standard` of `BatchLoad`. The request side is `appraisalOfficialPrice`
(`QueryStandard`, `QueryRows`, `QueryRegion`: three statements, three
snapshots) or `appraisalLandFeatures`. `known` is what a single look at the
tables would have answered when the request began, `trueAt` what it would have
answered at any time since.

### Geocode

An address is a sequence of words that carry their class, so `Parse` is the
state machine of `address.Parse` without the regular expressions that classify
a word: a function of the words read so far. `Written` and `LotWritten` are
the ways people write an address: as it is stored, with a short sido, with the
dong, without the sido, without the city above a gu as well (`noCity`), without
any district, or officially. A lot lies in a dong, or in a ri of a myeon, whose
name is two words. `Alias` is the parser's table of short sidos; it may hold the
name of a city (`dict.go:18`), which the theorems and the run exclude. `Norm` is the key under which `etl/entrance` stores
an address and `RoadKey` the key under which it is looked for: the properties
relate the two. The cascade exact → suffix → lot → similarity is one action for
each query, between which rows are loaded. Similarity is a free choice.
`MaxCandidates` is the limit of the suffix query: any rows, when there are more.

### McpAdapter

A worker is the reader of stdin or one HTTP request; a message is a record of
what `handleMessage` and `toolsCall` look at. `WriteLine` and `Scan` are
stdin, `Arrive` and `ReadBody` the HTTP server. `Get` sends a call; the API
answers it on its own time (`Api`), and the worker goes on when it answered
(`Succeeds`, `Refused`) or after the client's 15 seconds (`TimesOut`), with
the call perhaps still on its way. `Resend` is Go's `http.Transport`, which
repeats a GET when a reused connection breaks before the answer.

## 3. Runs

| Run | Instance | Shows |
| --- | --- | --- |
| `meter` | 1 billable endpoint in 2 months and `/v1/usage`, channel 1, batch 2, 4 requests, 1 event committed late, fair | each event billed at most once, in time or late, never more than channel + batch unsettled, the ledger is implemented, accepted events settle; a usage report agrees with itself and lags no more than the meter |
| `auth_cache` | 1 key, 2 lookups, TTL 2, 2 versions, 6 instants | no answer older than the TTL, no remembered absence |
| `rate_limiter` | 1 subject of 2 tokens, 2 requests, skew 1, idle time 5, 8 instants | the rate holds over every window, Retry-After is enough, buckets implement the log |
| `server` | 2 connections, cap 1, channel 1, batch 1, 5 requests, 1 committed late, fair | bounded overrun, nobody refused early, panics only after a timeout, graceful exit settles, a signal leads to a drained meter |
| `migrate` | 2 migrators, releases {1,2} and {1,2,3}, fair | each file committed once and in order, success means complete, nobody waits for good |
| `land_use` | 2 loads, a bundle of 2 parts that repeats a key, one of 1, one without rows, 1 request for one of 2 parcels | nothing or whole, success is complete, a retry is never refused, "none" and "not loaded" are so while loads empty the table, stop and fail |
| `replace` | 2 loads, inputs with copies of a key and a shared key, with and without a unique key; 1 backfill, a row at a time, 4 names | old or new; with the key, reloading is idempotent even at the same time; initials are those of the row's own name; search finds what matches; a backfill ends |
| `mcp` | 2 HTTP requests at once or stdin, 2 of 15 messages, each call sent up to twice, fair | each call uses its message's key, its cost is bounded, one answer each and in order, every message ends |
| `price_lookup` | 2 loads, 2 parcels of one region, a bundle of 2 parts, one without rows and an input without files; for `standard_lots` inputs of 3 and 2 batches that share and repeat parcels; 1 request | a known price is found, bundles are merged whole, a load of `standard_lots` that succeeds undisturbed leaves its own last rows whatever was interrupted before |
| `geocode` | 4 addresses (one in a gu of a city) and 5 lots (one in a ri) that share names, 6 ways to write them, 2 candidates, up to 2 copies | what is there is found (by road address and by lot), nothing else is called exact, ambiguous means two |
| `not_found` | as `price_lookup` | **violated**: 404 for a price that is there (section 6) |
| `geocode_myeon` | an address in a myeon, written officially | **violated**: it is not found exactly (section 6) |

The type and inductive invariants (`TypeOK`, `IInv`) are no runs' business: they
were checked with TLC while they were found and are theorems now (section 5).
`CloseDrains` of the meter, `SchemaEnforced` of the adapter, `KeyedInv` of the
replacing loaders, `ReportInv`, `CacheInv`, `GeocodeInv`, and `FromInputs` and
`FilledInv` of the places are kept as theorems only, for the same reason.

Why the bounds are enough. Four requests leave a full channel (1) and a full
batch (2) with one more to refuse; a batch of two tells "full" from "ticked" and
a batch from its sum. One event that is committed late, of a batch that the
ticker flushed, falls before and after every later step; more of them would
share nothing (`LateApart`) and are left to the theorems. Two minutes that each begin a month put the end of a month
anywhere in a report. `/v1/usage` has a class in the first minute only, so a
report asked for in the second has its event dropped. In the cache, two lookups let one
overtake the other, and six instants hold a TTL before and after a revocation;
TTL 0 is left to the theorem, which is for every TTL. In the limiter, eight
instants are enough to spend the burst, be refused, be reaped after six idle
ones and spend it again; the idle time is the smallest that
`LimiterAssumption` allows, so the run checks the boundary. In the server, five
requests are one more than the bound on the overrun allows there, so a check
that is late by one is found. Two migrators suffice for a race for one name,
and the second release for one that goes on behind the other. Two loads meet in
every order of their statements; bundles of two parts tell whole from partial,
a repeated key exercises the removal of duplicates, and a bundle without rows
the paths that refuse or accept it. A backfill that takes one row at a time has
every load fall between two of its rounds and between the SELECT and the UPDATE
of each; a second backfill would write the same initials and is left to the
theorem. The four names are a single syllable, one that begins with it and has a
digit, one that ends with it, and one with a blank; two of them share a store
number in different inputs. Two
messages are enough for one to overtake the other and for one key to be taken
for another's; the fifteen take every way through `handleMessage` and
`toolsCall`; a call sent twice tells "late" from "again". The geocoding world
holds the same names in two sido, above and under the ground, on plain and
mountain land, a gu of a city with the name of a gu of theirs, and a dong whose
name ends like another's, and a ri with the name of a dong. Three of its addresses end alike, so two candidates
leave one out. Among two places with unique keys, a limit of one makes an answer
full that leaves one out, and a limit of two one that does not.

Symmetry is used only for loaders and lookups, which nothing tells apart, and
never in a run with a liveness property.

## 4. Fairness

`meter`: `WF(Run)` (in `ReportSpec`). run is a goroutine in a select with a
ticker of one second, and every insert ends within five seconds
(`meter.go:116`). No fairness for requests, reports, the clock, Close, crashes
or restarts, and none for a late commit: what was given up may never be billed.

`server`: `WF` of the meter's goroutine and of main's own steps, which include
the ten second timeout (`main.go:97`). Handlers need not finish. What comes
after the meter is closed, `pool.Close`, waits for the connections of handlers
that are still running; nothing bounds that and nothing is claimed.

`migrate`: `WF` of a migrator's own steps, which PostgreSQL answers, and `SF`
of its INSERT of the name: a waiter is woken each time the transaction it waits
for ends, and others may start and fail for ever in between. Starting and
failing are not fair.

`mcp`: `WF` of `Scan` and of each worker's own steps, which include the 15
seconds of its client (`main.go:415`). Nothing makes a client finish the body of
its request, for the server sets no timeouts, and nothing makes the API answer
or the transport repeat a call.

`replace`: `WF` of a backfill's SELECT, UPDATE and end, which are statements that
PostgreSQL answers, though an UPDATE may wait for a load. Starting and failing are
not fair, and neither are the loads: nothing in the code retries them, so nothing
must happen unless an operator makes it. `BackfillEnds` therefore speaks of
behaviours in which the loads stop.

All other loaders and lookups state safety only.

## 5. Proofs

For all values of the constants that the named assumptions allow.

* **UsageMeter.** `IInv` adds to the properties that the map is exactly the
  events received since the last flush (`BatchExact`) and that the settled
  events are a prefix of the accepted ones: `1..flushed`, or `1..taken` between
  a commit and its return. Without the prefix neither the bound on unsettled
  events nor `CloseDrains` is inductive. The inserts given up are of given up
  events and share none (`LateApart`), so that a late commit bills nothing twice.
  In the refinement an insert that is given up either loses its events at once
  or leaves them pending, and a late commit bills them. Counting is by cardinality of sets of
  event numbers, one lemma per operation on them.
* **UsageReport.** A step of the report is one of the meter or leaves it alone
  (`ReportImplementsMeter`), so all of the above holds beside reports.
  `ReportInv` adds that the table has outgrown the items that were read; the
  month's use, read later, counts at least their units. `RemainingHonest` is a
  bijection between the units of the month's classes and the events logged of
  them (`MeterInvariant` says which are), put together class by class; events
  that are due are logged, unsettled, or given up and not logged.
* **AuthCache.** `CacheInv` adds that a row about to be stored was current when its
  lookup began or later, and that an entry expires at most TTL after its
  version ended. Both hold only because `now` is read before the query.
* **RateLimiter.** `FullAt(s)`, the instant a bucket is full again, equals the
  latest `Refund(s, i)` over the log of grants (`BucketIsLog`): a bucket is a
  summary of the log. For a subject without a bucket all refunds are in the
  past of every request still to come (`AbsentIsFull`), which needs
  `2 Second + 2 MaxSkew <= IdleTTL + 1`: two seconds and two scheduling delays
  against thirty minutes. From this follow the window bound, Retry-After and
  the refinement of `AdmissionLog`.
* **ServerLifecycle.** Every step is a meter step or leaves the meter alone, so
  the meter's lemmas are used, not repeated; what is added relates main's phase
  to the channel, run and the connections. `CapHolds` and `RefusalsAreDue` are
  about counting: `Used` is the number of billable events that were logged
  (`UsedIsLogged`, a bijection put together class by class), and a check lets a
  request pass only while that number is below the cap, so accepted and passed
  requests exceed it by no more than the unsettled, the lost and the
  connections.
* **Migrate.** `IInv` adds that what a migrator has passed is recorded and
  precedes what is left to it (`Passed`), that what its transaction has done
  follows from its place (`OpenAt`), and that a name inserted and not committed
  has one holder and is new (`OneHolder`, `HeldIsNew`). The last two are the
  primary key; from them a commit counts its file for the first time
  (`CommitsOnce`). Steps that commit nothing share one lemma (`QuietStep`).
* **LandUseLoad.** `IInv` says, while `tainted = "no"`, that at most one load
  is past its TRUNCATE (`OnePast`), that the two tables are what its statements
  so far have made of them (`Progress`), and that otherwise the table is empty
  or whole (`NotTorn`). Nothing is assumed of what an earlier load left in
  `lu_stg`, which is what makes a retry safe. What `DISTINCT ON` inserts from a
  full staging table is a whole bundle (`DistinctIsWhole`). The refinement maps
  the table to `Content`. For the request beside the loads (`NoneIsTrue`) it is
  enough that after the first query the parcel has no zones unless rows came
  since (`NoneYet`): the loads otherwise only take rows away.
* **ReplaceLoad.** `IInv` says of a load that missed no commit that its
  snapshot is the table, that it has deleted all of it and inserted the whole
  of its input; hence its commit swaps one whole bundle for another
  (`CommitIsWhole`).
  With a unique key a second invariant, `KeyedInv`, says of every load, whatever
  it missed: what it deletes nobody else deletes or has inserted under the same
  key (`Disjoint`, the row locks and the wait of the insert), and at its commit
  the keys of its input are all taken, by its own rows or by rows that stay
  (`Covered`, the skipping of taken keys). From this `KeyedReloads` follows for
  any number of loads at once.
* **PlaceSearch.** A step of the places is one of `ReplaceLoad` or leaves it
  alone (`PlacesImplementLoads`), so all of the above holds beside backfills.
  `OwnInitials` is inductive by itself: ids are not used again. What a search
  finds rests on two more facts: every row in the table or about to be comes
  from an input, so it has a name (`FromInputs`), and a backfill that has ended
  has left no row out until a load commits (`FilledInv`). The rest is about
  sequences. A ranking of a finite set lists every member of it (`Listed`), and
  cut to a limit that it does not reach it still does (`UpToLimit`). A text has
  itself in it (`HasItself`), and a name equal to the query is of tier 0, which
  the ranking puts first, so `NamesAreFound` holds for any tables, names and
  limits. For `InitialsAreFound`, a query that is a part of the initials of a
  name without blanks has none to drop (`NothingToDrop`).
* **PriceLookup.** The invariant has three parts for three actors. Of a load
  that stages its rows it says what the invariant of `LandUseLoad` says there
  (`StagedInv`), from which the merge is of a whole bundle. Of a load of
  `standard_lots` that met no other it says which batch wrote each row last
  (`WrittenSoFar`), from which `StandardConverges` follows at the last batch.
  Of the request it says that the row it began with is still there and that
  it has not gone past the query that finds it (`StillThere`): the loaders only
  add and overwrite.
* **Geocode.** `GeocodeInv` says that what was there when a search began stays
  there (`AskedInv`) and that a query of the cascade runs only when those before
  it could not have found it (`CascadeInv`). That needs to know what `Parse`
  makes of an address that is written in any of the six manners, and of a lot, in
  a dong or in a ri, in three: one lemma for each class of word, put together along the form of the
  address (`ParseWritten`, `ParseLot`). That `Parse`, a recursive function, reads
  a sequence word by word (`ParseStep`) takes an induction on its length. The
  induction theorems of the library cannot be instantiated, so it is done by the
  absence of a least counterexample (`Least`, from the well-foundedness of the
  naturals). The other half is that a key which ends the stored key of an address
  is one of the ways to write it (`SuffixIsWritten`).
  `KnownIsGeocoded` and `ExactIsMeant` are proved under `Regular`: no city with
  the name of a short sido (`NoCityIsSido`), addresses in a dong, not written officially (with an eup or myeon, or underground, the
  search does not find them exactly: `geocode_myeon`, section 6), and no two of
  them stored under one key. `ExactIsMeant` also needs that all three manners
  without a sido are written: a suffix that is unique among the stored keys is
  then something its address could be called. TLC evaluates both hypotheses on
  the world of the run, where they hold. `AmbiguousIsTwo` needs neither:
  `DISTINCT ON` leaves one row of each address.
* **McpAdapter.** `IInv` says that each message is in one place (`Places`), that
  a worker has its message's key and has made as many calls as it has parts
  (`Working`), and that every call made belongs to a message and has its key
  (`Made`). The bound on the cost is an injection of a message's calls into
  part and try. `OneAnswerEach` needs that answers come before what is at hand,
  and that before what is still to be read (`Before`), and an account of every
  message (`AccountedFor`).

Every invariant that a run checks is stated by a theorem. Only model-checked is
what is temporal under fairness (`EventsSettle`, `SignalStops`, `MigratorEnds`,
`BackfillEnds`, `EveryMessageEnds`), which is out of the prover's reach.
`BatchLoad` is proved about in `PriceLookup`, whose loads of `standard_lots` are
its steps.

## 6. Disagreements

Found by a run:

* `not_found`. `server.go:667` says that 404 means "loaded, and only this PNU
  missing". The price and the region are asked in separate statements; a load
  that merges in between makes the second say "loaded" of a price the first
  could not see.
* `geocode_myeon`. `docs/design/address_parser.md:59-60` says that `RoadKey`
  follows the convention of `entrance.Norm`. `RoadKey` puts an eup or myeon
  into the key (`parser.go:209`), `Norm` (`entrance/load.go:36-47`) does not,
  so an official address in a myeon never matches exactly.

Seen while modelling, with no run of their own:

* `README.md:132` says without condition that in-flight handlers finish before
  their final events are flushed; `main.go:99-102` closes the meter also when
  the ten seconds passed with handlers running. What remains true is
  `PanicOnlyAfterTimeout` and `GracefulExitSettles`.
* `landsales/load.go:59` promises idempotent reloading; without a unique key,
  two loads of one month at the same time leave each sale twice.
* `landuse/load.go:47` calls `Final` the rows of the bundle without duplicates;
  a load that outlives a crash of PostgreSQL (which `:100-101` reports) loses
  what it had staged before and returns success.
* `entrance/load.go:3-4` says that only the first row of an address is loaded;
  that is so within one call, a repeated load adds the rows again.
* `server.go:620-623` says that the individual price comes first; `:640-652`
  asks for the standard one first.
* `openapi.yaml:112` promises candidates when a query fits several sido;
  `geocode.go:147` takes any one lot.
* `places/search.go:40` takes the blanks out of a query of initials, but
  `choseong.go:33` keeps those of the name: a name with a blank is not found by
  initials that reach across it. `FoundByInitials` speaks of names without one.
* `places/search.go:15` sends a query of digits only to the initials: a place
  whose initials are not yet filled in is not found by a number in its name.
  `FoundByName` asks for a query with a syllable.
* `landsales/load.go:66` asks for one page of 9999 sales; a month with more is
  cut off without a sign.
* `officialprice/load.go:131` compares no versions: a load of an older bundle
  after a newer one overwrites it.
* `docs/design/address_parser.md:41` keeps the sido empty when the first word
  is a city; `dict.go:18` takes the city of Gwangju for the metropolitan one, so
  that an address in the Gwangju of Gyeonggi, written without its sido, is looked
  for in the wrong one. The model's `Alias` may hold a city; the theorems
  (`Regular`) and the run exclude it.
  `:52` reads a number stuck to the word for underground; `parser.go:78` does
  not.

## 7. Not modelled

* Reverse geocoding, parcels, transactions and `places.Nearby`: one query and the
  scan of its rows. What they return is PostGIS's doing, not the program's.
* Web pages: scripts around a map widget that is not in the repository. Answers
  of overlapping requests in `map.js` and `batch.js` would need a model of it.
* Downloads, zip and column parsing, code pages: input and output without state
  that outlives a call. What other components rely on of them, the form of an
  address and of a name, is in `Geocode` and `PlaceSearch`.
* The command line, apart from the order in which it calls the loaders; API key
  generation (random) and scopes (a look into a list); `emdlink`'s and
  `landsales`' lookups of a district; Sentry's scrubber; static files.
* Rounding of float64 tokens: many small refills may add up to a little more or
  less than the rate. The limiter's arithmetic is exact in the model.
* `pool.Close` waits for connections of handlers that outlived the drain. That is
  pgxpool's wait; the model ends where it begins.

What could follow: theorems about what is found for an address in a myeon that is
written without it, for which `Regular` is stronger than it has to be; the
liveness properties, by hand, from the invariants; and a model of the web pages'
overlapping requests.
