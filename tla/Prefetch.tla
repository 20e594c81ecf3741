------------------------------- MODULE Prefetch -------------------------------
(***************************************************************************)
(* internal/prefetch/prefetch.go: one goroutine lists the tiles and puts   *)
(* those the cache does not have into a buffered channel, workers take     *)
(* them out and fetch them through FTile, which leaves the saving to a     *)
(* goroutine of its own.  Around it the cache lives on: files grow too     *)
(* old, are cleaned up, and are fetched for other clients.                 *)
(***************************************************************************)
EXTENDS Naturals, Sequences, FiniteSets

CONSTANTS
  Tiles,
  Plan,       \* the tiles of the loops over providers, z, x and y, in order
  Allowed,    \* the tiles of providers that are IsPrefetchable
  Stored,     \* what the cache may hold of a tile at the start
  Cap,        \* capacity of the channel jobs (1000 in the program)
  Workers,
  Failures,   \* fetching and saving may fail
  Panics,     \* a tile is fetched from a WMS server that cannot be reached
  MaxAgings   \* bound: files that grow too old

\* No file, a file, a file over maxage that nobody has removed yet.
Entry == {"none", "fresh", "old"}
None == "none"

ASSUME PrefetchAssumption ==
  /\ Plan \in Seq(Tiles)
  /\ Allowed \subseteq Tiles
  /\ Stored \subseteq Entry
  /\ Cap \in Nat \ {0}
  /\ Workers # {} /\ IsFiniteSet(Workers)
  /\ {Failures, Panics} \subseteq BOOLEAN
  /\ MaxAgings \in Nat
  /\ None \notin Tiles

VARIABLES
  up,        \* the process lives
  cache,     \* Entry of each tile
  agings,    \* files that have grown too old so far
  ppc, next, \* the listing goroutine: place, index into Plan
  queue,     \* the channel jobs
  closed,    \* it is closed
  wpc, job,  \* each worker: place, tile in hand
  open,      \* its files to be closed when it ends (defer in the loop)
  saving,    \* tiles whose goroutine in FTile is still saving them
  seen, refused, failed, \* history: found in the cache, not allowed, in error
  fetches    \* history: how often each tile was fetched

prodVars == <<ppc, next, closed>>
workVars == <<wpc, job, open>>
histVars == <<seen, refused, failed, fetches>>
vars == <<up, cache, agings, prodVars, queue, workVars, saving, histVars>>

Init ==
  /\ up = TRUE
  /\ cache \in [Tiles -> Stored]
  /\ agings = 0
  /\ ppc = "list" /\ next = 1 /\ queue = <<>> /\ closed = FALSE
  /\ wpc = [w \in Workers |-> "ready"]
  /\ job = [w \in Workers |-> None]
  /\ open = [w \in Workers |-> 0]
  /\ saving = {}
  /\ seen = {} /\ refused = {} /\ failed = {}
  /\ fetches = [t \in Tiles |-> 0]

-----------------------------------------------------------------------------
(* The listing goroutine *)

\* Cache.Has looks at the index and for the file, not at its age.
Has(t) == cache[t] # "none"

List ==
  /\ ppc = "list" /\ next <= Len(Plan)
  /\ IF Has(Plan[next])
     THEN next' = next + 1 /\ seen' = seen \cup {Plan[next]} /\ UNCHANGED ppc
     ELSE ppc' = "send" /\ UNCHANGED <<next, seen>>
  /\ UNCHANGED <<up, cache, agings, queue, closed, workVars, saving, refused,
                 failed, fetches>>

\* The tile goes into the channel if there is room, and the loop gets on to n.
SendIf(room, n) ==
  /\ ppc = "send" /\ room
  /\ queue' = Append(queue, Plan[next])
  /\ next' = n
  /\ ppc' = "list"
  /\ UNCHANGED <<up, cache, agings, closed, workVars, saving, histVars>>

\* Mutants: a channel without limit; the loop does not get on.
SendUnlimited == SendIf(TRUE, next + 1)
SendAgain == SendIf(Len(queue) < Cap, next)

\* Waits while the channel is full.
Send == SendIf(Len(queue) < Cap, next + 1)

ListingEnds(c) ==
  /\ ppc = "list" /\ next > Len(Plan)
  /\ closed' = c
  /\ ppc' = "wait"
  /\ UNCHANGED <<up, cache, agings, next, queue, workVars, saving, histVars>>

\* Mutant: the channel is never closed.
CloseNot == ListingEnds(FALSE)

Close == ListingEnds(TRUE)

FinishAfter(ws) ==
  /\ ppc = "wait" /\ \A w \in ws : wpc[w] = "done"
  /\ ppc' = "done"
  /\ UNCHANGED <<up, cache, agings, next, queue, closed, workVars, saving, histVars>>

\* Mutant: nobody waits for the workers.
FinishNow == FinishAfter({})

\* wg.Wait
Finish == FinishAfter(Workers)

-----------------------------------------------------------------------------
(* A worker *)

Take(w) ==
  /\ wpc[w] = "ready" /\ queue # <<>>
  /\ queue' = Tail(queue)
  /\ IF Head(queue) \in Allowed
     THEN /\ wpc' = [wpc EXCEPT ![w] = "fetch"]
          /\ job' = [job EXCEPT ![w] = Head(queue)]
          /\ UNCHANGED refused
     ELSE /\ refused' = refused \cup {Head(queue)}
          /\ UNCHANGED <<wpc, job>>
  /\ UNCHANGED <<up, cache, agings, prodVars, open, saving, seen, failed, fetches>>

\* The worker is done with its tile, n more files wait for the end of it.
DropJob(w, n) ==
  /\ wpc' = [wpc EXCEPT ![w] = "ready"]
  /\ job' = [job EXCEPT ![w] = None]
  /\ open' = [open EXCEPT ![w] = @ + n]

\* The tile came into the cache since it was listed: FTile returns the file.
FetchHit(w) ==
  /\ wpc[w] = "fetch" /\ cache[job[w]] = "fresh"
  /\ DropJob(w, 1)
  /\ seen' = seen \cup {job[w]}
  /\ UNCHANGED <<up, cache, agings, prodVars, queue, saving, refused, failed, fetches>>

\* Cache.Tile has removed a file over maxage before it said no.
Looked(w) == cache' = [cache EXCEPT ![job[w]] = IF @ = "old" THEN "none" ELSE @]

FetchTile(w) ==
  /\ wpc[w] = "fetch" /\ cache[job[w]] # "fresh"
  /\ Looked(w)
  /\ DropJob(w, 0)
  /\ saving' = saving \cup {job[w]}
  /\ fetches' = [fetches EXCEPT ![job[w]] = @ + 1]
  /\ UNCHANGED <<up, agings, prodVars, queue, seen, refused, failed>>

\* Logged, and not tried again.
FetchError(w) ==
  /\ Failures
  /\ wpc[w] = "fetch" /\ cache[job[w]] # "fresh"
  /\ Looked(w)
  /\ DropJob(w, 0)
  /\ failed' = failed \cup {job[w]}
  /\ UNCHANGED <<up, agings, prodVars, queue, saving, seen, refused, fetches>>

\* The WMS provider uses the nil response of a request that failed; nothing
\* recovers the panic of a worker.
FetchPanic(w) ==
  /\ Panics
  /\ wpc[w] = "fetch" /\ cache[job[w]] # "fresh"
  /\ Looked(w)
  /\ up' = FALSE
  /\ UNCHANGED <<agings, prodVars, queue, workVars, saving, histVars>>

\* The channel is closed and drained; the deferred Close calls run.
WorkerEnd(w) ==
  /\ wpc[w] = "ready" /\ closed /\ queue = <<>>
  /\ wpc' = [wpc EXCEPT ![w] = "done"]
  /\ open' = [open EXCEPT ![w] = 0]
  /\ UNCHANGED <<up, cache, agings, prodVars, queue, job, saving, histVars>>

-----------------------------------------------------------------------------
(* The rest of the process *)

\* The goroutine of FTile saves the tile, or fails to.  A file that is there is
\* left as it is, whatever its age.
SaveEnd(t) ==
  /\ t \in saving
  /\ saving' = saving \ {t}
  /\ \/ cache' = [cache EXCEPT ![t] = IF @ = "none" THEN "fresh" ELSE @]
     \/ Failures /\ UNCHANGED cache
  /\ UNCHANGED <<up, agings, prodVars, queue, workVars, histVars>>

Age(t) ==
  /\ agings < MaxAgings
  /\ cache[t] = "fresh"
  /\ cache' = [cache EXCEPT ![t] = "old"]
  /\ agings' = agings + 1
  /\ UNCHANGED <<up, prodVars, queue, workVars, saving, histVars>>

\* The cleanup removes the file of t; a client is served t.
Cleanup(t) ==
  /\ cache[t] = "old"
  /\ cache' = [cache EXCEPT ![t] = "none"]
  /\ UNCHANGED <<up, agings, prodVars, queue, workVars, saving, histVars>>

ClientFetch(t) ==
  /\ cache[t] # "fresh"
  /\ cache' = [cache EXCEPT ![t] = "fresh"]
  /\ UNCHANGED <<up, agings, prodVars, queue, workVars, saving, histVars>>

Produce == List \/ Send \/ Close \/ Finish

Work(w) ==
  Take(w) \/ FetchHit(w) \/ FetchTile(w) \/ FetchError(w) \/ FetchPanic(w)
  \/ WorkerEnd(w)

Next ==
  /\ up
  /\ \/ Produce
     \/ \E w \in Workers : Work(w)
     \/ \E t \in Tiles : SaveEnd(t) \/ Age(t) \/ Cleanup(t) \/ ClientFetch(t)

Spec == Init /\ [][Next]_vars

\* Goroutines are scheduled, and a fetch comes to an end.
FairSpec ==
  /\ Spec
  /\ WF_vars(up /\ Produce)
  /\ \A w \in Workers : WF_vars(up /\ Work(w))
  /\ \A t \in Tiles : WF_vars(up /\ SaveEnd(t))

-----------------------------------------------------------------------------
(* Properties *)

\* Every variable stays in its range, the channel within its capacity.
TypeOK ==
  /\ up \in BOOLEAN
  /\ cache \in [Tiles -> Entry]
  /\ agings \in 0..MaxAgings
  /\ ppc \in {"list", "send", "wait", "done"}
  /\ next \in 1..(Len(Plan) + 1)
  /\ queue \in Seq(Tiles) /\ Len(queue) <= Cap
  /\ closed \in BOOLEAN
  /\ wpc \in [Workers -> {"ready", "fetch", "done"}]
  /\ job \in [Workers -> Tiles \cup {None}]
  /\ open \in [Workers -> Nat]
  /\ saving \subseteq Tiles
  /\ seen \cup refused \cup failed \subseteq Tiles
  /\ fetches \in [Tiles -> Nat]

Listed == {Plan[i] : i \in DOMAIN Plan}
Times(t) == Cardinality({i \in DOMAIN Plan : Plan[i] = t})

\* When the prefetch says it is finished, each listed tile was found in the
\* cache, refused, fetched, or has failed: none is left in the channel or with a
\* worker, however they are scheduled.
NothingSkipped ==
  ppc = "done" =>
    \A t \in Listed : t \in seen \cup refused \cup failed \/ fetches[t] > 0

\* No tile is fetched more often than it is listed, whichever worker takes it.
NoneTwice == \A t \in Tiles : fetches[t] <= Times(t)

\* A worker has no more than the file of one tile open at a time.  It closes all of
\* them when it ends.
OneFileOpen == \A w \in Workers : open[w] <= 1

\* What the goroutine that lists, or a worker, may have to wait for, is there.
CanList ==
  \/ ppc = "list"
  \/ ppc = "send" /\ Len(queue) < Cap
  \/ ppc = "wait" /\ \A w \in Workers : wpc[w] = "done"

CanWork(w) ==
  \/ wpc[w] = "fetch"
  \/ wpc[w] = "ready" /\ (queue # <<>> \/ closed)

\* Until the prefetch is finished somebody can go on: a full channel has a worker
\* to empty it, an empty one a list to fill it or its end to be seen, and who
\* waits for the workers waits for one that is not waiting.
NeverStuck == ppc # "done" => CanList \/ \E w \in Workers : CanWork(w)

\* An upper bound of the steps that are left: four for a tile that is not listed
\* yet (list, send, take, fetch), two for one in the channel.
Left ==
  4 * (Len(Plan) + 1 - next)
  + [list |-> 3, send |-> 2, wait |-> 1, done |-> 0][ppc]
  + 2 * Len(queue)
  + Cardinality({w \in Workers : wpc[w] = "fetch"})
  + Cardinality({w \in Workers : wpc[w] # "done"})

\* Whatever the list, the channel or a worker does, less is left to do: nothing
\* goes back into the channel and no worker begins again, so the prefetch cannot
\* go on for ever, however it is scheduled and whatever becomes of the cache.
GetsOn == [][Left' < Left]_<<prodVars, queue, workVars>>

\* The prefetch comes to its end, or the process does: no goroutine is left
\* waiting for the channel, whatever its capacity and however many workers there
\* are.
Ends == <>(ppc = "done" \/ ~up)

\* README: "All tiles of the the selected provider from 0 to zoom will be
\* prefetched": when all is done, the cache can serve them.
AllPrefetched ==
  ppc = "done" /\ saving = {} => \A t \in Listed \cap Allowed : cache[t] = "fresh"
=============================================================================
