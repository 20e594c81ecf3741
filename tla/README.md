# Specifications of go_mapproxy

go_mapproxy is a proxy for map tiles: it answers `GET /tileserver/{provider}/xyz/{z}/{x}/{y}.png`
from a cache on the disk or from a tile server, a WMS server or an MBTiles file, and can fill
the cache ahead of time. This directory holds TLA+ models of its core, configurations that check
them with TLC, and proofs for TLAPS. Paths are relative to the root of the repository.

## The system

| Component | Code | State it keeps | Operations |
|---|---|---|---|
| Tile addresses | `internal/model`, `isValidXYZCoord`, `buildTMSUrl`, `DBKey` | none | validity, row flip, index key |
| Tile cache | `internal/tilecache` | files named by the SHA-256 of their content; badger index (provider, z, x, y) -> hash; `flock` | `Has`, `Tile`, `Save`, hourly `CleanupOldFiles`, hourly value log GC, `Close` |
| Tile service | `internal/tiles` | per call of `FTile`: the variable `rd`, shared with the goroutine that saves | `FTile`, `IsPrefetchable` |
| XYZ handler | `internal/apiv1` | the answer | `GetSystemHandler` |
| Providers | `internal/provider` | an HTTP client each; `fb` of an MBTiles provider | `Tile`, `fallback` |
| Prefetch | `internal/prefetch` | channel `jobs`, wait group | `prefetch` and its workers |
| Measurement | `internal/utils/measurement` | map of points, `plock`, `calcLock` | `Start`, `Stop`, report, resets |
| Lifecycle | `main.go`, `internal/do.go`, `internal/prefetch` start | place of `main`, injector, exit status | `Init`, start, wait for an interrupt, `Stop` |
| HTTP servers | `internal/shttp` | one or two `http.Server`, the deadline of the shutdown | `StartServers`, `ShutdownServers`, TLS from files or generated |
| API routes | `internal/api` | none | which routes are mounted on which server |
| Configuration | `internal/config` | the configuration and the copy the injector is given | `Load`, `SetParameter`, `Init` |
| Projection, logging, helpers | the rest | none, or read once | - |

How they interact. A handler of the HTTP server, or a worker of the prefetch, calls `FTile`.
`FTile` asks the cache, then the provider; an MBTiles provider that does not have the tile calls
`FTile` again, for its fallback. What the provider returns is read to the end, a goroutine is
started that gives it to `Save`, and the caller gets a reader over the same bytes. `Tile`, `Save`
and the cleanup share the files and `flock`; `flock` guards what is done with file names, not the
index and not the reading of open files. Every step starts and stops measurements. `main` sets all
of it up in a fixed order, starts the servers and the prefetch, waits for an interrupt, shuts the
servers down and stops the cache; handlers, saving goroutines, the prefetch and the hourly garbage
collection run around it until the process ends.

What is hard here: two goroutines on one variable (`service.go` 90, 99); checks made before the
lock that the action is made under (`cache.go` 205, 266); removal under a read lock (145); a copy
that is not atomic where rename does not work (246); the death of the process between file and
index; recursion through fallbacks; panics that only handlers survive; a bounded channel; an
iteration over a map that is written meanwhile; one deadline for the shutdown of two servers, of which
one may only begin to listen then; a configuration that is copied in between. `PROJECT.json` lists these hazards with their
lines and the properties that watch them.

What makes each component correct:

- addresses: only tiles of the map get through, the flip stays on the map, different tiles have
  different index keys;
- cache: a hit is the whole of an image that was saved for the tile asked for; no part of a file is
  left under the name of the whole; nothing fresh is removed, everything old is; every call returns;
- service and providers: the client gets a whole image that belongs to the provider it asked or to
  its fallbacks, what is saved likewise; settings (`nocache`, `noprefetch`) hold; every request is
  answered and every goroutine ends;
- prefetch: every listed tile is dealt with once, it comes to an end, and files do not pile up;
- measurement: no update is lost, numbers agree with one another;
- lifecycle, servers, routes, configuration: nothing uses the cache before its index is opened, the
  flag decides the port, a shutdown cuts off nobody before the deadline and comes to an end, what was
  opened is closed.

## Modules

| Module | Models | Written as |
|---|---|---|
| `TileKey` | addresses: `isValidXYZCoord`, the row flip, `DBKey` | operators, with the width of `int` and of the key's fields as parameters |
| `TileAddresses` | any two requests | a state for every pair; extends `TileKey` |
| `CacheContract` | what users of the cache may rely on | abstract specification: Save, Ask, Tell, Forget |
| `TileCache` | `cache.go` with the cache active | one action per step between two points where others may act; refines `CacheContract`; extends `TileKey` |
| `ServiceContract` | what those who ask for a tile may rely on | abstract specification: Ask, Refuse, Answer, Store, Forget |
| `TileService` | handler, `FTile` with its goroutine, providers, fallbacks | one action per step; calls of `FTile` as a stack per request; refines `ServiceContract` |
| `Prefetch` | `prefetch.go`, with a cache that ages and is cleaned | one action per step of the listing and of a worker |
| `Measurement` | points, monitors, report, resets | one action per critical section, one per field read without a lock |
| `Lifecycle` | `main.go`, `do.go`, servers, routes, configuration | one action per call of `main`, one per thing that happens meanwhile |
| `MC...` | values for TLC | |
| `TileKeyProofs`, `TileAddressProofs`, `TileCacheProofs`, `TileServiceProofs`, `SharedReaderProofs`, `PrefetchProofs`, `MeasurementProofs`, `LifecycleProofs` | theorems | see "Proofs" |

`TileService` uses the cache by its contract only: a hit is some image saved for the provider, and a
miss is always possible. `Prefetch` uses `FTile` by its outcomes: a file from the cache, a tile that
a goroutine is going to save, an error, a panic. `Lifecycle` uses the other parts by what matters to
the process: a handler comes to an end or does not, a goroutine is still saving, a worker may panic.

How `Lifecycle` corresponds to the code. `Load`, `SetParameter` and `InitConfig` are the three calls
between which the port changes hands; `HandOut` is the copy `config.Init` gives the injector.
`InitProviders`, `InitCache`, `StartPrefetch`, `StartHTTPS` and `StartHTTP` are the rest of
`internal.Init`, of `main` and of `StartServers`, each with the ways it may end the process: a
panic (status 2), `os.Exit(1)`, or only a line in the log. `Listen` is the goroutine of a server,
`Accept` the router with the routes that are mounted (`Mounted`), `Answer` a handler, `SaveEnd` the
goroutine of `FTile`. `ShutHTTP`, `DrainHTTP`, `ShutHTTPS` and `DrainHTTPS` are `ShutdownServers`, with
`Timeout` for its context; `Stop` is `do.go`. `Interrupt`, `Terminate`, `PrefetchEnd` and `GCTick`
end the process from outside `main`.

`ServiceContract` is what remains of `TileService` if only the provider each request is for (`Asked`),
its outcome (`Reply`) and the cache are looked at: `Promised` in `TileService` is the mapping. An
`Answer` happens in one step, and a call of `FTile` and all it does inside are stutters.

### Abstractions

- A hash is taken to be injective, so an image stands for its own hash (`TileCache`).
- Time is counted in hours, the unit of `maxage`; `Tick` is the only action of the clock.
- A file holds less than 100 bytes of its image, more, or all of it (`Amount`); that is all that
  `Tile` and its clients tell apart. An open file that is no longer linked keeps what it held; one
  that is truncated in place does not (`fd`, `Unlink`).
- The temporary file is one step (`SaveTemp`): nobody else knows its name. Its mtime is the one the
  file has after a rename.
- `DBHas` followed by `DBGet` is one read of the index, because entries are never deleted. Each
  directory of tiles holds one file, as the first six digits of a hash name it.
- `filepath.Walk` reads the names of a directory, then stats each of them; a file that has gone in
  between is an error that ends it. It is given its directories in any order.
- With `IOFaults` each call of the file system or of badger may fail where the code handles it, the
  reading of a directory and the `Lstat` of `filepath.Walk` too, and badger may not open at all. Without,
  they fail only for the reasons in the model.
- An image is read in two parts (`TileService`); that is enough for two goroutines to get a piece
  each. `bytes.Reader.WriteTo` hands out what remains and moves its position afterwards, so both
  may also get everything. A file or connection may break in the middle when `Faults` is set.
- `Save` reads its reader to the end and then stores the image or, on one of its errors, nothing
  (`GoRead`, `GoStore` of `TileService`).
- A request is for one position of the map in `TileService`; other positions share only the cache.
  A goroutine takes its next request when what it left behind has ended.
- The WMS provider panics when its server is not reached (`wms.go` 41). chi's Recoverer makes that a
  status 500 in a handler; in a worker it ends the process, and `Restart` starts it again.
- A point of `Measurement` is reset and updated in one step each (`calcLock`), read field by field in
  a report (no lock). A write of the map during a step of an iteration sets `crashed`. The iteration
  may or may not come by an entry made meanwhile (`MayVisit`). That `calculateMonitor` writes the
  maximum before the minimum, and `Data` reads them the other way round, lets an update count as one
  step for the report, on a processor that keeps the order of its writes. The clock gives some
  duration of `Durations`. `Stop` of a monitor that does not run changes nothing and has no action.

Operators marked "Mutant" are plausible wrong versions of the definition after them. They are used
by nothing; each stands for a bug that one of the properties finds when it takes the place of the
definition (`PROJECT.json`, "mutants").

## Runs

All bounds are constants of the models, or sets in the configurations.

| Run | Instance | Shows |
|---|---|---|
| `TileKeyAll` | `int` of 4 bits, 3 zoom levels and 2 columns in the key, numbers -1..5 | `ValidIsOnMap`, `FlipStaysOnMap`, `KeyTellsApart` for every pair of requests; all overflows happen |
| `CacheSafe` | 2 callers, 2 savers, 1 image, `maxage` 1, 2 hours, 1 death, rename works | `StatHolds`, `TileRemovesOnlyExpired`, and `KeepsContract`: refinement of `CacheContract` |
| `CacheTiles` | 1 caller, 1 saver, 2 tiles, 2 images of which one is small, 1 death | `HitIsSaved` |
| `CacheLive` | 1 caller, 1 saver, all calls may fail, rename too, 1 death, fairness | `TypeOK`, `LockInv`, `NeverStuck`, `CutOnlyByFailure`, `CallsGetOn`; `CallsReturn`: each call of `Tile` and `Save` and each cleanup does |
| `ServiceChart` | 1 handler, MBTiles with a WMS fallback, bodies break, at most 2 entries when a save starts, fairness | `TypeOK`, `RightImage`, `WorkGetsOn`, and `KeepsPromise`: refinement of `ServiceContract`; `WorkEnds` through both calls |
| `ServicePair` | a handler and a worker; a cached WMS server, an uncached MBTiles file with a misspelt fallback; the cache active or not; fairness | `NothingLost`, `UnsharedIsWhole`; `WorkEnds`: every request and every goroutine comes to its end, unless a server keeps it waiting for ever or the process dies |
| `Prefetching` | 4 listed tiles, one twice, one not allowed, channel of 1, 2 workers, ageing, panics, fairness | `TypeOK`, `NothingSkipped`, `NoneTwice`, `NeverStuck`, `GetsOn`; `Ends` |
| `Measuring` | 2 goroutines, 2 points, 3 calls of `Point`, resets, a report | `TypeOK`, `NoLostUpdate`, `AverageBetween`, `TornOnlyByReset` |
| `Running` | 2 requests for tiles and 1 for the health server; every combination of the ports of file, flag and TLS, of certificate files, cache and prefetch; fairness | `TypeOK`, `UsedAfterOpen`, `FlagWins`, `NoneCutOff`; `InterruptEnds` |

Some properties of the modules are in no run, as they follow from one that is: `HitIsWhole` and
`NoCacheHasNoEntry` from the contracts (`KeepsContract`, `KeepsPromise`). They are stated because a theorem is about
them, or because they show more plainly what goes wrong (`CutUnderReader`). Others are only there to be
refuted by a configuration below: `FileMatchesName`, `DistributesNoneOverAge`, `NoReentry`,
`PrefetchesAllowedOnly`, `OneFileOpen`. On an instance without the case that matters (a copy, `maxage` 0,
a fallback that leads back or may not be prefetched) they would say no more than one guard does, and
a run of it would show nothing. `NeverStuck` and `ShutdownGetsOn` of
`Lifecycle` are proved, and `InterruptEnds` needs both.

Why the bounds are enough. Races at a file need two savers (both past the check at line 205), or a
saver, the cleanup and a caller, or two callers under the read lock: all of these are in
`CacheSafe`. A file gets too old after two hours with `maxage` 1. One death is enough to leave any
state of the disk behind, as the model restarts with all of it. The two nested calls of
`ServiceChart` contain every pair of a call and the one that called it. A channel of capacity one
is full and empty as often as can be. A point is made, used and reset by three calls of `Point`, and
two of them may want the same new point. `MaxSaved` bounds the entries there are when a goroutine
starts to save; two are enough for one of each provider, and for one right and one wrong under the
same name. Three requests are one for each server and one more that is accepted while the others are
drained; port 8443 is a value of the flag and of `sslport`, so that both servers may want one port.
The safety properties that are also proved (below) hold without these bounds.

`CHECK_DEADLOCK FALSE` is set for `Prefetch`, which ends, for `Measurement`, where the
number of measurements is bounded and the runtime may stop the process, and for `Lifecycle`, whose
process ends.

### Where the code differs from what the repository says

Three more runs are expected to fail, with a counterexample that is a behaviour of the code; the
sentence of the repository each contradicts is quoted in `PROJECT.json`, "findings".

| Run | Property | What happens |
|---|---|---|
| `SharedReader` | `ClientGetsWhole` | client and saving goroutine read from one reader, and the client gets nothing |
| `KeyCollision` | `HitIsSaved` | from zoom level 17 on two tiles may share an index entry |
| `IndexLeftOpen` | `IndexClosed` | `Stop` asks the injector for an interface that the cache does not have, panics, and leaves the index open |

Modelling showed further disagreements. They are not in the list of runs, but each has a
configuration here that shows its counterexample (`tlc -config X.cfg MC<module>`):

| Configuration | Module | Property | What happens, against which sentence |
|---|---|---|---|
| `CutUnderReader` | `MCTileCache` | `HitIsWhole` | across devices (as with the volume of README 104) a second saver truncates a file while a client reads it (`cache.go` 240) |
| `HalfFileStays` | `MCTileCache` | `FileMatchesName` | across devices a death during the copy leaves half a file for good (246; README 268: "value the hash of the tile") |
| `CleanupStale` | `MCTileCache` | `CleanupDeletesOnlyOld` | the cleanup deletes a file that was written after it looked (266; comment at 254: "deletes cache files older than the given duration") |
| `CleanupAborts` | `MCTileCache` | `CleanupMissesNone` | a file that disappears ends the cleanup for all others (260; README 253: "will automatically delete this tile") |
| `AgeZero` | `MCTileCache` | `DistributesNoneOverAge` | `maxage` 0: the cleanup deletes all, `Tile` rejects none (386; README 253) |
| `SharedReaderSaved` | `MCTileService` | `SavedIsWhole` | `SharedReader` the other way round: an empty image is saved (`service.go` 99) |
| `NoCacheStored` | `MCTileService` | `NoCacheNotStored` | tiles of a `nocache` fallback are stored under the name of the chart before it (`mbtiles.go` 115; README: "all tiles requested from this server will not be stored") |
| `CutBody` | `MCTileService` | `ClientGetsWhole` | a body that breaks ends a 200 answer early (`tiles.go` 64) |
| `PrefetchFallback` | `MCTileService` | `PrefetchesAllowedOnly` | a prefetch reaches a `noprefetch` fallback (`mbtiles.go` 115; README 297) |
| `FallbackCycle` | `MCTileService` | `NoReentry` | fallbacks in a circle never end (`mbtiles.go` 115; README 299) |
| `FilesPileUp` | `MCPrefetch` | `OneFileOpen` | each file a worker gets from the cache stays open until the worker ends (`prefetch.go` 74) |
| `PrefetchExpired` | `MCPrefetch` | `AllPrefetched` | an expired file counts as prefetched (`prefetch.go` 93; README 319) |
| `MeasureTorn` | `MCMeasurement` | `ReportOrdered` | a report shows a minimum above the maximum (`point.go` 103; `measurement_test.go` 77) |
| `IndexMissing` | `MCLifecycle` | `LivesWithoutIndex` | an index that cannot be opened ends the process after an hour (`cache.go` 92; lines 320, 333 and 361 go on without one) |
| `SavesCutOff` | `MCLifecycle` | `SavesFinish` | `main` ends while goroutines still save (`main.go` 105) |

One more, `ServiceOff`, passes: `ClientGetsWhole` and `RequestsEnd` hold for two handlers and a worker where
the cache is inactive and bodies do not break.

`UnsharedIsWhole` holds where bodies do not break and no fallback is configured (`ServicePair`);
`NoReentry` where fallbacks do not lead back, and `PrefetchesAllowedOnly` where no provider that may be
prefetched has a fallback that may not (theorems `RecursionEnds`, `NothingForbiddenAsked`);
`HitIsWhole`, as part of `KeepsContract`, where rename works (`CacheSafe`); `HitIsSaved` where the tiles
have different keys (`CacheTiles`). Of `FileMatchesName` there remains, wherever the files are,
`CutOnlyByFailure`: only a failing copy, or a death during it, leaves a part of a file (`CacheLive`). Of
`ReportOrdered` there remains `TornOnlyByReset` (`Measuring`).
With the cache active the client and the goroutine do not lose the image between them
(`NothingLost`): one of the two has it, unless a fallback is between.

### Fairness

- `TileCache`: goroutines are scheduled (weak fairness of a caller's, a saver's and the cleanup's
  steps). `sync.RWMutex` starves neither side, because a waiting `Lock` holds back later readers
  and `Unlock` lets in the readers that wait: strong fairness of the three actions that take it.
  Failures are not fair: `SaveFail` is outside the fair `SaveWork`, so that no error has to free a
  save that waits.
- `TileService`: goroutines are scheduled. Tile servers need not answer, as the `http.Client` of `wms.go`
  and `tms.go` has no timeout: a step that waits for one, for its answer or for a body that is read from
  its connection, is not fair (`AtServer`, which counts a file of the cache that is read there with
  them). `WorkEnds` says that a request ends with an answer, or waits for a server for ever, or the process
  dies. Nothing is assumed of a restart, and it is no end of a request.
- `Prefetch`: goroutines are scheduled and fetches end (an assumption about the tile servers: the code has
  no timeout, see `AtServer`); the ageing of the cache and other clients are
  not fair. `Ends` allows for the death of the process, as no panic of a worker is recovered.
- `Lifecycle`: `main` is scheduled and time passes (weak fairness of its steps and of `Timeout`). Nothing
  is assumed of handlers: `InterruptEnds` holds although they may hang for ever, by the deadline.
- `Measurement`: only safety is checked.

## Proofs

`TileKeyProofs`, from `WidthAssumption` (the widths are positive):

- `ValidTile`: what the handler lets through is on the map, at a zoom level that leaves the shift
  positive. That powers of two are numbers is had without induction, by counting subsets of 1..z.
- `FlipValid`: the flip stays on the map and undoes itself.
- `AddressableKeysDistinct`: keys differ for all valid tiles whose shift fits into the fields, which
  is up to zoom level 16 with the fields of the program.
- `KeysCollide`: where the map has more columns than the field of the key has values, keys of tiles of
  that zoom level are shared, whatever the widths.
- `SixteenIsTheLast` puts the two together for the widths of the program (`int` of 64 bits, fields of 8
  and 16): at each of the 63 zoom levels whose shift is positive the index tells the tiles of the level apart
  if and only if the level is at most 16. It needs that powers of two grow, and that the sixteenth
  is 65536: each subset of 1..z is one of 1..z+1 with or without z+1 (`PowerDoubles`), which gives the
  next column count from the one before, sixteen times, without induction.

`TileCacheProofs`, from `CacheAssumption` and `NamesAssumption`, for all constants:

- The inductive invariant is `IInv == TypeOK /\ PlaceInv /\ LockInv /\ StatHolds`. `StatHolds` by
  itself is not inductive: that the file stays the one that was seen follows from nobody else being
  the writer, which is `LockInv`, which is about the places where the lock is held; that a file is
  there at all where it is read or copied is `PlaceInv`. One lemma per part shows that each of
  the 27 kinds of steps preserves it (`TypeStep`, `PlaceStep`, `LockStep`, `StatStep`).
- From it: `TypeCorrect`, `LockExcludes`, `StatCorrect`, and the action property `RemovalCorrect`:
  a caller of `Tile` removes only expired files, although it holds only a read lock.
- `HitsCorrect` adds `SavedInv` (every hash on its way to a client was saved for its tile) and needs
  `KeysDistinct(Tiles)`, the conclusion of `AddressableKeysDistinct`. `KeyCollision` shows that it
  is needed. `HitsToSixteen` has a hypothesis about the zoom level in its place, with the widths of the
  program.
- `SomebodyGoesOn` (`NeverStuck`) and `CallsEndInTime` (`CallsGetOn`) are what can be proved of `CallsReturn`;
  see "Liveness" below. That a copy makes progress although it is
  many steps needs `NobodyElseWrites`: while `flock` is held for it no other saver, no caller and
  no cleanup changes a file.
- `HitsWhole` adds `WholeInv` (no file is ever seen that is not whole) and needs that rename works and
  calls do not fail. `CutUnderReader` and `HalfFileStays` show that it is needed.
- `CutByFailureOnly` (`CutOnlyByFailure`) has no such hypothesis: wherever the files are and whatever fails,
  a part of an image is left under the name of the whole only when the process dies during the copy or the copy
  fails. A copy has its file to itself (`LockInv`), it goes on until the file is whole, and nobody else
  writes less than all of it (`NotCutBy`, `CutStep`).
- `ImplementsContract`: under both hypotheses `TileCache` refines `CacheContract`. `ContractStep` maps
  each action to `Save`, `Ask`, `Tell`, `Forget` or a stutter.

`TileAddressProofs`, from `WidthAssumption` and `RangeAssumption`: `ValidExactly`, `FlipIsBijection` and
`KeysApart` are the three properties of `TileKeyAll` for all integers and all widths.

`TileServiceProofs`, from `ConfigAssumption`, for any providers, fallbacks, handlers and workers:

- `Inv == TypeOK /\ StackInv /\ HandInv /\ GoInv /\ SavedInv`. `RightImage` speaks of what is written and what
  is saved only; on its way there an image is behind the reader a request has in hand, behind the two
  readers over the bytes of `ReadAll`, of which nobody knows which one the variable `rd` holds, and with
  the goroutine. `HandInv` and `GoInv` say of each that it is right for the provider of that call;
  `StackInv`, that each call is for a fallback of the one above, so that what is right below is right
  above (`FallbackImage`).
- From it: `TypeCorrect`, `ImageIsRight`, `NothingUnderNoCache`, and `ImplementsContract`: `PromiseStep` maps
  each action to one of `ServiceContract` or a stutter.
- `RecursionEnds`: `NoReentry` if the fallbacks do not lead back (`NoCycle`: no provider is served by one that
  it serves). `FallbackCycle` shows that it is needed. `DepthBounded` follows: then no request has more calls of
  `FTile` inside one another than there are providers, so that a `MaxDepth` of that size, as in the runs,
  bounds nothing.
- `NothingForbiddenAsked` and `NothingOfNoCache`: `PrefetchesAllowedOnly` and `NoCacheNotStored` hold as soon as
  the setting agrees along each step of a fallback: no provider that may be prefetched (is cached) has a fallback
  that may not (is not). Both go from one step to a chain of any length by `StaysIn`. `PrefetchFallback` and
  `NoCacheStored` show that the hypotheses are needed.
- `WorkEndsInTime` (`WorkGetsOn`, which is `RequestsGetOn` and `SavesGetOn`): see "Liveness" below. It holds for any
  fallbacks; those that lead back are cut off by `MaxDepth` only. `CallsInv` says which calls may still
  have a goroutine, so that a call never starts one in the place of another that runs.

`SharedReaderProofs`, on top of `Inv`, for any number of requests and goroutines:

- `NothingIsLost`, `UnsharedWhole` and `NoPieceSaved` need that bodies do not break (`CutBody`) and that no
  fallback is configured: with one, the call further out reads the reader that the goroutine of the
  call further in may be reading, piece by piece, and TLC finds images lost (`NothingLost` in the instance
  of `ServiceChart` with whole bodies). A misspelt fallback is none.
- `ShareInv` has five parts for each request: nothing is taken and no goroutine is there before `FTile` has
  read the image (`FreshAt`); it reads all of it (`ReadAt`); the readers it then makes are over all of
  it (`WholeAt`); each of them is taken as a whole or not at all, and what was taken is with the client
  or stored (`TakenAt`); and so the client has everything, or the goroutine has (`AnswerAt`). `PartsInv`,
  that the cache is given no piece, closes the circle: a hit hands out what was saved.
- `WholeWithoutCache`: where the cache is not active and bodies do not break, `ClientGetsWhole` holds through any
  chain of fallbacks (`OffInv`). So what `SharedReader` finds is caused by the goroutine that saves
  and by nothing else.

`PrefetchProofs`, from `PrefetchAssumption`, for any list, capacity and number of workers:

- `Inv == TypeOK /\ ListInv /\ ChannelInv`: every tile listed so far is dealt with, in the channel or in
  hand; the channel is closed when all are listed, and a worker ends only when it is closed and empty.
  From it `TypeCorrect` and `AllDealtWith`.
- `NoTileTwice` adds `CountInv`, that fetches of a tile, places in the channel and workers that have it are
  together no more than its places in the list so far. It needs lemmas about the cardinality of the
  places of a queue when it grows at one end and shrinks at the other.
- `SomebodyGoesOn` (`NeverStuck`) and `PrefetchGetsOn` (`GetsOn`, with `Left \in Nat`): see "Liveness" below. The second
  is about all of the prefetch at once: the steps the listing and each worker have left are added up, so
  it needs sums over the workers that change in one place.

`MeasurementProofs`, from `MeasurementAssumption`, for any goroutines, points and durations:

- `PlaceInv` (who holds `plock`, and which points exist) and `FreshInv` (a point that does not exist has
  counted nothing) make `NoLostUpdate` inductive: `AllCounted`.
- `AverageInside` adds `SumInv`, that the total lies between `count` times the extremes. The product is not
  linear, so the lemmas about it are stated for single numbers. It needs `0 \notin Durations`: a minimum of
  0 means "none yet" to `point.go` 82, and a duration of 0 is therefore forgotten by the next one.
- `ReportsInOrder` (`TornOnlyByReset`): a report, which reads the fields one by one and without the lock, shows a
  minimum above the maximum only if the point was reset between the two reads. `OrderInv` says that the
  minimum of a point is never above its maximum, and that the maximum is not below the minimum the
  report has read before, as it only grows until a reset. `MeasureTorn` shows such a reset.

`LifecycleProofs`, from `LifecycleAssumption`, for any requests and ports:

- `Inv == TypeOK /\ PortInv /\ IndexInv /\ DrainInv /\ NoneCutOff`. `DrainInv` carries `NoneCutOff`: a
  server that is `Settled` is closed, so that it accepts nothing any more, and as long as the deadline
  runs it has no handler; http stays so while https is drained. From it `TypeCorrect`, `OpenedBeforeUse`,
  `FlagIsServed` and `NothingCutOff`.
- `DeadlineInv`, that the deadline runs or has passed wherever `main` waits for handlers, gives
  `ShutdownNeverStuck` (`NeverStuck`); `ShutdownEndsInTime` (`ShutdownGetsOn`) is its other half.
- `IndexNeverClosed`: no run of the program closes the index or ends with the status 0. `IndexLeftOpen` shows one
  run that goes wrong; this is the statement that all of them do, for any configuration.

### Liveness

Fairness and ENABLED are out of the prover's reach, so `CallsReturn`, `WorkEnds`, `Ends` and `InterruptEnds` are only model-checked. Proved is what is safety in
them, for all values of the constants:

| Property | Somebody can go on | Each step leaves less to do |
|---|---|---|
| `CallsReturn` | `NeverStuck` of `TileCache` | `CallsGetOn` |
| `WorkEnds` | - | `WorkGetsOn` |
| `Ends` | `NeverStuck` of `Prefetch` | `GetsOn` |
| `InterruptEnds` | `NeverStuck` of `Lifecycle` | `ShutdownGetsOn` |

`NeverStuck` says in state predicates what ENABLED would say: the places where an action has a guard of its
own (a lock that is not free, a channel that is full or empty, handlers that are not done) are named in
`CanTile`, `CanSave`, `CanWalk`, `CanList` and `CanWork`, with that guard; at every other place one of the actions
has no other guard than the place. Nothing of the kind is needed for `TileService`, where a step waits for a
tile server at most, and for no other step. That these readings of the guards are right is not proved; that no state without a successor is
reached is checked by TLC, in the runs that check deadlock. What neither half says is that the scheduler is fair:
that a call which can go on does, and that strong fairness of the lock is what `sync.RWMutex` gives.

### Not proved

- Liveness, as above.
- What the runs that expect a violation and the further configurations refute; the theorems about those
  properties have the hypothesis that the counterexample lacks.
- `NothingLost` and `UnsharedIsWhole` where fallbacks are configured: they do not hold there. A `nocache` fallback
  of a cached chart hands its image to the call for the chart, which shares its reader with a goroutine.

## Not modelled

- The layout of index entries (`Marshal`, `Unmarshal` of `cache.go`): bytes and strings; an index that fails
  is modelled, an entry that is cut is not.
- `Pause`, `Resume`, `Inc`, `IncError` and the null monitor of `measurement`: nothing calls them.
- `internal/mercantile`: floating point, which neither TLC nor TLAPS has.
- URLs, headers, templates of WMS requests, the content of certificates, CORS: data no property is about.
- The client each provider makes for itself without synchronisation (`wms.go` 27): all are alike.
- The number of open files of requests (`service.go` 84): nothing in the program depends on it below the
  limit of the operating system. Those of the prefetch are counted (`open` of `Prefetch`).
- That `active` of a point is the number of measurements under way: an error path of `FTile` and a reset make
  it wrong in the model as in the code (`Leave`, `ResetPoint`), and nothing depends on it.
- `TileService` over `TileCache` itself: at the bounds of either the product of both is too large for TLC, and the proofs do not need
  it, as `TileCache` implements the contract `TileService` uses. What the contract leaves out is that
  files across devices may be cut; `CutUnderReader` and `CutBody` show the two halves of that.
- Logging, helpers for files and strings, flags that print something and end.

## Plan

Done, in this order: `TileKey`, `CacheContract`, `TileCache` and their proofs; `TileService`, `Prefetch`,
`Measurement`; `Lifecycle`; `TileAddresses`; `ServiceContract` and its refinement; the proofs of all of
these; the safety halves of the liveness properties with their proofs, and the hypotheses under which the
properties hold that the further configurations refute.

What is left is small: the layout of index entries against a reference definition, with an entry that is
cut; and a composition of `TileService` and `TileCache` on an instance of one request, in place of the contract.
