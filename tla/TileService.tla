----------------------------- MODULE TileService -----------------------------
(***************************************************************************)
(* From a request for a tile to the answer: the XYZ handler (internal/     *)
(* apiv1/tiles.go), FTile (internal/tiles/service.go), the providers       *)
(* (internal/provider) with the fallback of an MBTiles provider, which     *)
(* calls FTile again for another provider, and the goroutine FTile leaves  *)
(* behind to save the tile.  A prefetch worker calls FTile like a handler. *)
(*                                                                         *)
(* All requests are for one position on the map: those for others share    *)
(* nothing with them but the cache, and TileCache is about that.  The      *)
(* cache is here what CacheContract promises.  An image is read in two     *)
(* parts, so that two goroutines may each get a piece of it.               *)
(***************************************************************************)
EXTENDS Naturals, Sequences, FiniteSets

CONSTANTS
  Providers,    \* names of the configured providers
  Unknown,      \* a name that is not configured
  None,         \* no name, no reader, no content
  Type,         \* Config.Type of each: "tms" (or "xyz"), "wms", "mbtiles"
  Fallback,     \* Config.Fallback of each, None if there is none
  NoCache,      \* the providers with nocache
  NoPrefetch,   \* those with noprefetch or an URL on the blacklist
  CacheModes,   \* the cache may be configured active (TRUE) or not
  Faults,       \* connections and disks fail in the middle of a body
  Handlers,     \* goroutines of the HTTP server
  Workers,      \* goroutines of the prefetch
  MaxDepth,     \* bound: calls of FTile inside one another
  MaxSaved      \* bound: entries the cache has when a goroutine starts to save

Requests == Handlers \cup Workers
EmptyPNG == "empty.png"

ASSUME ConfigAssumption ==
  /\ Type \in [Providers -> {"tms", "wms", "mbtiles"}]
  /\ Fallback \in [Providers -> Providers \cup {Unknown, None}]
  /\ NoCache \subseteq Providers
  /\ NoPrefetch \subseteq Providers
  /\ CacheModes \subseteq BOOLEAN /\ CacheModes # {}
  /\ Faults \in BOOLEAN
  /\ Handlers \cap Workers = {}
  /\ MaxDepth \in Nat \ {0} /\ MaxSaved \in Nat
  /\ {Unknown, None, EmptyPNG} \cap Providers = {}
  /\ Unknown # None

\* An image, or what of it was read: its origin and the parts that are there.
Parts == {1, 2}
Content == [src : Providers \cup {EmptyPNG}, parts : SUBSET Parts]

\* A call of FTile: whose it is and how deep.  Its readers are the one of the
\* provider or of the cache, over a connection or a file ("got") or in memory
\* ("mem"), and the two over the bytes of ReadAll: the one FTile makes for its
\* caller and the one the goroutine makes for Save.
Frames == Requests \X (1..MaxDepth)
Readers == Frames \X {"got", "mem", "own", "save"}

VARIABLES
  up,      \* the process lives
  fb,      \* mbtilesProvider.fb
  active,  \* cache.active of the configuration it was started with
  pc,      \* place of each request
  stack,   \* the providers of its calls of FTile, outermost first
  rd,      \* the reader it has in hand
  buf,     \* the parts it has read from it
  status,  \* the HTTP status of its answer, "none" before
  answer,  \* the body of its answer
  content, \* the bytes behind each reader
  pos,     \* the parts already taken from it
  var,     \* the variable rd of each call of FTile, shared with its goroutine
  gpc, gtile, grd, gbuf,  \* that goroutine: place, tile's provider, reader
                          \* passed to Save, parts read
  saved    \* <<provider, content>> pairs that Save stored

procVars == <<up, fb, active>>
reqVars == <<pc, stack, rd, buf, status, answer>>
readVars == <<content, pos>>
goVars  == <<gpc, gtile, grd, gbuf>>
vars == <<procVars, reqVars, readVars, var, goVars, saved>>

IsCached(p) == p \notin NoCache

IsPrefetchable(p) == active /\ IsCached(p) /\ p \notin NoPrefetch

Top(r) == stack[r][Len(stack[r])]
Frame(r) == <<r, Len(stack[r])>>
Remaining(x) == {i \in content[x].parts : i > pos[x]}

Init ==
  /\ up = TRUE
  /\ fb = [p \in Providers |-> Fallback[p] # None]
  /\ active \in CacheModes
  /\ pc = [r \in Requests |-> "idle"]
  /\ stack = [r \in Requests |-> <<>>]
  /\ rd = [r \in Requests |-> None]
  /\ buf = [r \in Requests |-> {}]
  /\ status = [r \in Requests |-> "none"]
  /\ answer = [r \in Requests |-> None]
  /\ content = [x \in Readers |-> None]
  /\ pos = [x \in Readers |-> 0]
  /\ var = [f \in Frames |-> "got"]
  /\ gpc = [f \in Frames |-> "none"]
  /\ gtile = [f \in Frames |-> None]
  /\ grd = [f \in Frames |-> None]
  /\ gbuf = [f \in Frames |-> {}]
  /\ saved = {}

-----------------------------------------------------------------------------
(* The handler and the worker call FTile *)

Goto(r, place) == pc' = [pc EXCEPT ![r] = place]

\* A goroutine takes its next request when all it left behind is done: that
\* bounds the goroutines there are at a time.
Free(r) == up /\ pc[r] = "idle" /\ \A d \in 1..MaxDepth : gpc[<<r, d>>] = "none"

BadRequest(r) ==
  /\ r \in Handlers /\ Free(r)
  /\ status' = [status EXCEPT ![r] = "400"]
  /\ answer' = [answer EXCEPT ![r] = None]
  /\ UNCHANGED <<procVars, pc, stack, rd, buf, readVars, var, goVars, saved>>

Request(r, p) ==
  /\ Free(r)
  /\ r \in Workers => IsPrefetchable(p)
  /\ Goto(r, "cache")
  /\ stack' = [stack EXCEPT ![r] = <<p>>]
  /\ status' = [status EXCEPT ![r] = "none"]
  /\ answer' = [answer EXCEPT ![r] = None]
  /\ gbuf' = [f \in Frames |-> IF f[1] = r THEN {} ELSE gbuf[f]]
  /\ UNCHANGED <<procVars, rd, buf, readVars, var, gpc, gtile, grd, saved>>

\* Readers and variables that nothing of r refers to any more are garbage; else
\* the positions of the readers are now p.
Collect(r, p) ==
  LET garbage == pc'[r] = "idle" /\ \A d \in 1..MaxDepth : gpc'[<<r, d>>] = "none"
      gone(f) == garbage /\ f[1] = r
  IN /\ content' = [x \in Readers |-> IF gone(x[1]) THEN None ELSE content[x]]
     /\ pos' = [x \in Readers |-> IF gone(x[1]) THEN 0 ELSE p[x]]
     /\ var' = [f \in Frames |-> IF gone(f) THEN "got" ELSE var[f]]

\* The request of r ends with that status, and an error goes up through all the
\* calls of FTile.
FailWith(r, code) ==
  /\ Goto(r, "idle")
  /\ rd' = [rd EXCEPT ![r] = None]
  /\ buf' = [buf EXCEPT ![r] = {}]
  /\ status' = [status EXCEPT ![r] = code]
  /\ stack' = [stack EXCEPT ![r] = <<>>]
  /\ UNCHANGED <<answer, gpc>>
  /\ Collect(r, pos)

\* Mutant: the handler does not look at the error.
FailQuiet(r) == FailWith(r, "200")

Fail(r) == FailWith(r, "500")

\* r has a reader over c in hand.
Hand(r, kind, c, place) ==
  LET x == <<Frame(r), kind>>
  IN /\ rd' = [rd EXCEPT ![r] = x]
     /\ content' = [content EXCEPT ![x] = c]
     /\ pos' = [pos EXCEPT ![x] = 0]
     /\ Goto(r, place)
     /\ UNCHANGED <<stack, buf, status, answer>>

-----------------------------------------------------------------------------
(* FTile: the cache, the provider *)

\* A tile of less than 100 bytes is a miss, and any other may be one.
HitAmong(r, entries) ==
  /\ pc[r] = "cache"
  /\ IsCached(Top(r)) /\ active
  /\ \E e \in entries : e[2].parts # {} /\ Hand(r, "got", e[2], "return")
  /\ UNCHANGED <<procVars, var, goVars, saved>>

\* Mutant: the cache does not look at the provider.
CacheHitAny(r) == HitAmong(r, saved)

CacheHit(r) == HitAmong(r, {e \in saved : e[1] = Top(r)})

CacheMiss(r) ==
  /\ pc[r] = "cache"
  /\ Goto(r, "provider")
  /\ UNCHANGED <<procVars, stack, rd, buf, status, answer, readVars, var, goVars, saved>>

Image(p) == [src |-> p, parts |-> Parts]

\* The tile server answers, or the tile is in the MBTiles file.
ProviderTile(r) ==
  /\ pc[r] = "provider"
  /\ Hand(r, IF Type[Top(r)] = "mbtiles" THEN "mem" ELSE "got", Image(Top(r)), "read")
  /\ UNCHANGED <<procVars, var, goVars, saved>>

\* Mutant: a provider that answers with an error is asked again.
ProviderRetry(r) ==
  /\ pc[r] = "provider" /\ Type[Top(r)] # "mbtiles"
  /\ Goto(r, "cache")
  /\ UNCHANGED <<procVars, stack, rd, buf, status, answer, readVars, var, goVars, saved>>

\* Not reached, or not status 200.
ProviderError(r) ==
  /\ pc[r] = "provider" /\ Type[Top(r)] # "mbtiles"
  /\ Fail(r)
  /\ UNCHANGED <<procVars, gtile, grd, gbuf, saved>>

\* The WMS provider reads resp.Body also when the request failed and resp is
\* nil.  The router recovers the panic of a handler, nothing that of a worker.
ProviderPanic(r) ==
  /\ pc[r] = "provider" /\ Type[Top(r)] = "wms"
  /\ up' = (r \in Handlers)
  /\ Fail(r)
  /\ UNCHANGED <<fb, active, gtile, grd, gbuf, saved>>

\* The MBTiles file does not have the tile.
NoFallback(r) ==
  LET p == Top(r)
  IN /\ pc[r] = "provider" /\ Type[p] = "mbtiles"
     /\ fb[p] => Fallback[p] \notin Providers
     /\ fb' = [fb EXCEPT ![p] = FALSE]
     /\ Hand(r, "mem", Image(EmptyPNG), "read")
     /\ UNCHANGED <<up, active, var, goVars, saved>>

\* The MBTiles provider calls FTile for its fallback.
CallFallback(r) ==
  LET p == Top(r)
  IN /\ pc[r] = "provider" /\ Type[p] = "mbtiles"
     /\ fb[p] /\ Fallback[p] \in Providers
     /\ Len(stack[r]) < MaxDepth
     /\ stack' = [stack EXCEPT ![r] = Append(@, Fallback[p])]
     /\ Goto(r, "cache")
     /\ UNCHANGED <<procVars, rd, buf, status, answer, readVars, var, goVars, saved>>

-----------------------------------------------------------------------------
(* FTile: what the provider returned is read, saved and returned *)

\* Mutant: everything is read, also when there is no cache to save it in.
ReadAlways(r) == FALSE

PassThrough(r) == IsCached(Top(r)) /\ ~active

ReturnUnread(r) ==
  /\ pc[r] = "read" /\ PassThrough(r)
  /\ Goto(r, "return")
  /\ UNCHANGED <<procVars, stack, rd, buf, status, answer, readVars, var, goVars, saved>>

\* io.ReadAll reads piece by piece: another goroutine may take pieces of a
\* reader that a call of FTile further in has shared with it.
ReadBefore(r, end) ==
  LET x == rd[r]
  IN /\ pc[r] = "read" /\ ~PassThrough(r)
     /\ pos[x] < end
     /\ buf' = [buf EXCEPT ![r] = @ \cup (content[x].parts \cap {pos[x] + 1})]
     /\ pos' = [pos EXCEPT ![x] = @ + 1]
     /\ UNCHANGED <<procVars, pc, stack, rd, status, answer, content, var, goVars, saved>>

\* Mutant: reads once more after the end.
ReadBeyond(r) == ReadBefore(r, 3)

ReadSome(r) == ReadBefore(r, 2)

\* The connection or the disk fails in the middle of the body.
Breaks(x) == Faults /\ x[2] = "got"

ReadError(r) ==
  /\ pc[r] = "read" /\ ~PassThrough(r)
  /\ Breaks(rd[r])
  /\ Fail(r)
  /\ UNCHANGED <<procVars, gtile, grd, gbuf, saved>>

\* ReadAll returns when end parts are taken, and leaves a goroutine if it is to
\* be saved.
ReadUpTo(r, end, save) ==
  LET f == Frame(r)
      c == [src |-> content[rd[r]].src, parts |-> buf[r]]
  IN /\ pc[r] = "read" /\ ~PassThrough(r)
     /\ pos[rd[r]] >= end
     /\ content' = [content EXCEPT ![<<f, "own">>] = c, ![<<f, "save">>] = c]
     /\ gpc' = [gpc EXCEPT ![f] = IF save THEN "make" ELSE "none"]
     /\ gtile' = [gtile EXCEPT ![f] = Top(r)]
     /\ buf' = [buf EXCEPT ![r] = {}]
     /\ Goto(r, "make")
     /\ UNCHANGED <<procVars, stack, rd, status, answer, pos, var, grd, gbuf, saved>>

\* Mutant: an image that is cut is taken for a whole one.
ReadDoneEarly(r) == ReadUpTo(r, 1, IsCached(Top(r)))

ReadDone(r) == ReadUpTo(r, 2, IsCached(Top(r)))

\* rd = io.NopCloser(bytes.NewReader(data))
MakeReader(r) ==
  LET f == Frame(r)
  IN /\ pc[r] = "make"
     /\ var' = [var EXCEPT ![f] = "own"]
     /\ pos' = [pos EXCEPT ![<<f, "own">>] = 0]
     /\ Goto(r, "load")
     /\ UNCHANGED <<procVars, stack, rd, buf, status, answer, content, goVars, saved>>

\* return rd, nil
LoadReader(r) ==
  LET f == Frame(r)
  IN /\ pc[r] = "load"
     /\ rd' = [rd EXCEPT ![r] = <<f, var[f]>>]
     /\ Goto(r, "return")
     /\ UNCHANGED <<procVars, stack, buf, status, answer, readVars, var, goVars, saved>>

\* FTile returns to the MBTiles provider that called it, and that to its FTile.
ReturnInner(r) ==
  /\ pc[r] = "return" /\ Len(stack[r]) > 1
  /\ stack' = [stack EXCEPT ![r] = SubSeq(@, 1, Len(@) - 1)]
  /\ Goto(r, "read")
  /\ UNCHANGED <<procVars, rd, buf, status, answer, readVars, var, goVars, saved>>

\* The worker closes the reader and never reads it.
WorkerDone(r) ==
  /\ pc[r] = "return" /\ Len(stack[r]) = 1 /\ r \in Workers
  /\ Goto(r, "idle")
  /\ rd' = [rd EXCEPT ![r] = None]
  /\ stack' = [stack EXCEPT ![r] = <<>>]
  /\ UNCHANGED <<procVars, buf, status, answer, goVars, saved>>
  /\ Collect(r, pos)

\* io.Copy(w, rd): bytes.Reader.WriteTo hands all that remains to the client
\* and then moves its position to the end.  The error of a body that breaks is
\* ignored, the status is sent by then.
WriteBody(r) ==
  /\ pc[r] = "return" /\ Len(stack[r]) = 1 /\ r \in Handlers
  /\ \/ buf' = [buf EXCEPT ![r] = Remaining(rd[r])]
     \/ /\ Breaks(rd[r])
        /\ buf' = [buf EXCEPT ![r] = Remaining(rd[r]) \cap {1}]
  /\ Goto(r, "written")
  /\ UNCHANGED <<procVars, stack, rd, status, answer, readVars, var, goVars, saved>>

HandlerDone(r) ==
  /\ pc[r] = "written"
  /\ answer' = [answer EXCEPT ![r] = [src |-> content[rd[r]].src, parts |-> buf[r]]]
  /\ status' = [status EXCEPT ![r] = "200"]
  /\ rd' = [rd EXCEPT ![r] = None]
  /\ buf' = [buf EXCEPT ![r] = {}]
  /\ stack' = [stack EXCEPT ![r] = <<>>]
  /\ Goto(r, "idle")
  /\ UNCHANGED <<procVars, goVars, saved>>
  /\ Collect(r, [pos EXCEPT ![rd[r]] = 2])

-----------------------------------------------------------------------------
(* The goroutine of FTile *)

\* rd = io.NopCloser(bytes.NewReader(data)), on the variable of FTile
GoMake(f) ==
  /\ up /\ gpc[f] = "make"
  /\ var' = [var EXCEPT ![f] = "save"]
  /\ pos' = [pos EXCEPT ![<<f, "save">>] = 0]
  /\ gpc' = [gpc EXCEPT ![f] = "load"]
  /\ UNCHANGED <<procVars, reqVars, content, gtile, grd, gbuf, saved>>

\* s.cache.Save(tile, rd)
GoLoad(f) ==
  /\ up /\ gpc[f] = "load"
  /\ grd' = [grd EXCEPT ![f] = <<f, var[f]>>]
  /\ gpc' = [gpc EXCEPT ![f] = "save"]
  /\ UNCHANGED <<procVars, reqVars, readVars, var, gtile, gbuf, saved>>

\* The goroutine of f ends.
GoEnd(f, p) ==
  /\ gpc' = [gpc EXCEPT ![f] = "none"]
  /\ gtile' = [gtile EXCEPT ![f] = None]
  /\ grd' = [grd EXCEPT ![f] = None]
  /\ UNCHANGED <<procVars, reqVars>>
  /\ Collect(f[1], p)

\* Mutant: what cannot be saved is saved again.
GoRetry(f) ==
  /\ up /\ gpc[f] = "save"
  /\ gpc' = [gpc EXCEPT ![f] = "load"]
  /\ UNCHANGED <<procVars, reqVars, readVars, var, gtile, grd, gbuf, saved>>

\* Save returns without reading: the tile is there already, or a call fails.
GoSkip(f) ==
  /\ up /\ gpc[f] = "save"
  /\ GoEnd(f, pos)
  /\ UNCHANGED <<gbuf, saved>>

GoRead(f) ==
  /\ up /\ gpc[f] = "save"
  /\ Cardinality(saved) < MaxSaved
  /\ gbuf' = [gbuf EXCEPT ![f] = Remaining(grd[f])]
  /\ gpc' = [gpc EXCEPT ![f] = "store"]
  /\ UNCHANGED <<procVars, reqVars, readVars, var, gtile, grd, saved>>

\* The tile is stored, or one of the calls fails that Save makes after it has read.
GoStore(f) ==
  /\ up /\ gpc[f] = "store"
  /\ \/ saved' = saved \cup
            {<<gtile[f], [src |-> content[grd[f]].src, parts |-> gbuf[f]]>>}
     \/ UNCHANGED saved
  /\ GoEnd(f, [pos EXCEPT ![grd[f]] = 2])
  /\ UNCHANGED gbuf

-----------------------------------------------------------------------------
\* A process that died is started again; only the cache on the disk is left.
Restart ==
  /\ ~up
  /\ up' = TRUE
  /\ fb' = [p \in Providers |-> Fallback[p] # None]
  /\ active' \in CacheModes
  /\ pc' = [r \in Requests |-> "idle"]
  /\ stack' = [r \in Requests |-> <<>>]
  /\ rd' = [r \in Requests |-> None]
  /\ buf' = [r \in Requests |-> {}]
  /\ status' = [r \in Requests |-> "none"]
  /\ answer' = [r \in Requests |-> None]
  /\ content' = [x \in Readers |-> None]
  /\ pos' = [x \in Readers |-> 0]
  /\ var' = [f \in Frames |-> "got"]
  /\ gpc' = [f \in Frames |-> "none"]
  /\ gtile' = [f \in Frames |-> None]
  /\ grd' = [f \in Frames |-> None]
  /\ gbuf' = [f \in Frames |-> {}]
  /\ UNCHANGED saved

Work(r) ==
  /\ up
  /\ \/ CacheHit(r) \/ CacheMiss(r)
     \/ ProviderTile(r) \/ ProviderError(r) \/ ProviderPanic(r)
     \/ NoFallback(r) \/ CallFallback(r)
     \/ ReturnUnread(r) \/ ReadSome(r) \/ ReadError(r) \/ ReadDone(r)
     \/ MakeReader(r) \/ LoadReader(r) \/ ReturnInner(r)
     \/ WorkerDone(r) \/ WriteBody(r) \/ HandlerDone(r)

GoWork(f) == GoMake(f) \/ GoLoad(f) \/ GoSkip(f) \/ GoRead(f) \/ GoStore(f)

Next ==
  \/ \E r \in Requests : BadRequest(r) \/ Work(r)
  \/ \E r \in Requests, p \in Providers : Request(r, p)
  \/ \E f \in Frames : GoWork(f)
  \/ Restart

Spec == Init /\ [][Next]_vars

\* The next step of r waits for a tile server: for its answer, or for a body that
\* FTile or the handler reads from its connection.  The clients of the providers
\* have no timeout.  A file of the cache that is read in its place counts too.
AtServer(r) ==
  \/ pc[r] = "provider" /\ Type[Top(r)] # "mbtiles"
  \/ pc[r] = "read" /\ ~PassThrough(r) /\ rd[r][2] = "got"
  \/ pc[r] = "return" /\ r \in Handlers /\ Len(stack[r]) = 1 /\ rd[r][2] = "got"

\* Goroutines are scheduled.  A tile server need not answer, and a process that has
\* died need not be started again.
FairSpec ==
  /\ Spec
  /\ \A r \in Requests : WF_vars(Work(r) /\ ~AtServer(r))
  /\ \A f \in Frames : WF_vars(GoWork(f))

-----------------------------------------------------------------------------
(* Properties *)

ProcTypes == up \in BOOLEAN /\ fb \in [Providers -> BOOLEAN] /\ active \in CacheModes

ReqTypes ==
  /\ pc \in [Requests -> {"idle", "cache", "provider", "read", "make", "load",
                          "return", "written"}]
  /\ stack \in [Requests -> Seq(Providers)]
  /\ rd \in [Requests -> Readers \cup {None}]
  /\ buf \in [Requests -> SUBSET Parts]
  /\ status \in [Requests -> {"none", "200", "400", "500"}]
  /\ answer \in [Requests -> Content \cup {None}]

ReadTypes ==
  /\ content \in [Readers -> Content \cup {None}]
  /\ pos \in [Readers -> 0..2]
  /\ var \in [Frames -> {"got", "own", "save"}]

GoTypes ==
  /\ gpc \in [Frames -> {"none", "make", "load", "save", "store"}]
  /\ gtile \in [Frames -> Providers \cup {None}]
  /\ grd \in [Frames -> Readers \cup {None}]
  /\ gbuf \in [Frames -> SUBSET Parts]

\* Every variable stays in its range.
TypeOK ==
  ProcTypes /\ ReqTypes /\ ReadTypes /\ GoTypes /\ saved \subseteq Providers \X Content

\* No call of FTile for a provider is inside another one for the same: the
\* recursion of the fallbacks ends.  It does where they do not lead back.
NoReentry ==
  \A r \in Requests : \A i, j \in DOMAIN stack[r] :
    i # j => stack[r][i] # stack[r][j]

\* The fallback of p that FTile may be called for.
Behind(p) == IF Type[p] = "mbtiles" THEN {Fallback[p]} \cap Providers ELSE {}

\* q is p or a fallback of p, of the fallback of p, ...: it is in every set that p
\* is in and nothing leads out of.
ServesFor(q, p) ==
  \A S \in SUBSET Providers :
    p \in S /\ (\A o \in S : Behind(o) \subseteq S) => q \in S

\* An image for p: its own, or one of its fallbacks'.
ImageFor(c, p) ==
  \E q \in Providers : /\ ServesFor(q, p)
                       /\ \/ c.src = q
                          \/ c.src = EmptyPNG /\ Type[q] = "mbtiles"

ImagesOf == [p \in Providers |-> {c \in Content : ImageFor(c, p)}]

\* What is saved under a provider's name, and what its client gets, is an image
\* for that provider, however the calls of FTile, the goroutines they leave
\* behind and other requests interleave.
RightImage ==
  /\ \A e \in saved : e[2] \in ImagesOf[e[1]]
  /\ \A r \in Handlers : pc[r] = "written" => content[rd[r]] \in ImagesOf[stack[r][1]]

\* Nothing is stored under the name of a provider with nocache.
NoCacheHasNoEntry == \A e \in saved : e[1] \notin NoCache

\* README: "all tiles requested from this server will not be stored".
NoCacheNotStored == \A e \in saved : e[2].src \notin NoCache

\* A worker asks no provider that must not be prefetched.  A fallback that must not
\* makes it do so.
PrefetchesAllowedOnly ==
  \A r \in Workers : pc[r] = "provider" => Top(r) \notin NoPrefetch

\* The provider a request under way is for, and the outcome of the last one.
Asked == [r \in Requests |-> IF stack[r] = <<>> THEN None ELSE stack[r][1]]
Reply == [r \in Requests |-> <<status[r], IF status[r] = "200" THEN answer[r] ELSE None>>]

\* What the service promises.
Promised == INSTANCE ServiceContract WITH
  Images <- ImagesOf, asked <- Asked, reply <- Reply

\* Each request is answered once, with an error or an image for the provider it
\* named, and the cache gets images only under names they may have: FTile, the
\* fallbacks and the goroutines together implement ServiceContract.
KeepsPromise == Promised!Spec

\* The answer 200 brings the image whole.
ClientGetsWhole ==
  \A r \in Handlers : status[r] = "200" => answer[r].parts = Parts

\* The client gets the image whole where no goroutine shares its reader: when the
\* cache is not active, or the provider is not cached.
UnsharedIsWhole ==
  \A r \in Handlers :
    status[r] = "200" /\ (active => answer[r].src \in NoCache)
      => answer[r].parts = Parts

\* The cache keeps whole images.
SavedIsWhole == \A e \in saved : e[2].parts = Parts

\* Where no MBTiles provider is between, the client and the goroutine that saves
\* have the whole image between them, whichever of their readers they share.
NothingLost ==
  \A r \in Handlers :
    Free(r) /\ status[r] = "200" /\ answer[r].src # EmptyPNG
      => answer[r].parts \cup gbuf[<<r, 1>>] = Parts

\* The steps a request has at most before it: those of its innermost call of FTile,
\* those of each call around it, from the reading on, and those of the calls it may
\* still make.
Steps(r) ==
  CASE pc[r] = "idle" -> 0
    [] pc[r] = "written" -> 1
    [] pc[r] = "return" -> 2
    [] pc[r] = "load" -> 3
    [] pc[r] = "make" -> 4
    [] pc[r] = "read" -> 7 - pos[rd[r]]
    [] pc[r] = "provider" -> 8 + 8 * (MaxDepth - Len(stack[r]))
    [] pc[r] = "cache" -> 9 + 8 * (MaxDepth - Len(stack[r]))
StepsLeft ==
  [r \in Requests |-> IF pc[r] = "idle" THEN 0 ELSE Steps(r) + 6 * (Len(stack[r]) - 1)]

\* A request under way never goes back: whatever it does leaves it less to do, and
\* nothing that others or its goroutines do gives it more, although they read and
\* rewind readers that it reads too.
RequestsGetOn ==
  [][\A r \in Requests : pc[r] # "idle" =>
       /\ StepsLeft'[r] <= StepsLeft[r]
       /\ <<pc[r], stack[r], rd[r], buf[r]>>' # <<pc[r], stack[r], rd[r], buf[r]>>
            => StepsLeft'[r] < StepsLeft[r]]_vars

\* The order of the places of a goroutine.
GoStepsLeft == [f \in Frames |->
  CASE gpc[f] = "make" -> 4 [] gpc[f] = "load" -> 3 [] gpc[f] = "save" -> 2
    [] gpc[f] = "store" -> 1 [] gpc[f] = "none" -> 0]

\* A goroutine goes on to its end, and until then it is not forgotten for another
\* one of the same call.
SavesGetOn ==
  [][\A f \in Frames : gpc[f] # "none" /\ gpc'[f] # gpc[f] =>
       GoStepsLeft'[f] < GoStepsLeft[f]]_vars

\* Neither FTile nor what it leaves behind ever goes back.
WorkGetsOn == RequestsGetOn /\ SavesGetOn

\* A request has come to its end: the client has its answer, an image or an error.
Answered(r) == pc[r] = "idle" /\ (r \in Handlers => status[r] \in {"200", "500"})

\* Every request is answered, unless the process dies or a tile server keeps the
\* request waiting for ever: no loss of the race for a shared reader, error or
\* panic on the way through the fallbacks leaves a client without an answer.
RequestsEnd ==
  \A r \in Requests : (pc[r] # "idle" ~> Answered(r) \/ ~up) \/ <>[]AtServer(r)

\* Every goroutine that saves ends, unless the process does: what it reads is in
\* memory, whichever reader it has got.
SavesEnd == \A f \in Frames : gpc[f] # "none" ~> gpc[f] = "none" \/ ~up

WorkEnds == RequestsEnd /\ SavesEnd
=============================================================================
