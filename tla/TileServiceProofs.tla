-------------------------- MODULE TileServiceProofs --------------------------
(***************************************************************************)
(* The tile service for any configuration of providers and fallbacks, any  *)
(* number of handlers and workers and calls of FTile inside one another:   *)
(* TileService implements ServiceContract.  The invariant follows the      *)
(* image from a provider through the readers that FTile and its goroutine  *)
(* share, up to the client and into the cache.                             *)
(***************************************************************************)
EXTENDS TileService, SequenceTheorems, FiniteSetTheorems, TLAPS

Depths == 1..MaxDepth

\* A request under way has its calls of FTile on the stack, each one below the
\* first for a fallback of the one above, and no outcome yet.
StackInv ==
  \A r \in Requests :
    /\ pc[r] = "idle" <=> stack[r] = <<>>
    /\ pc[r] # "idle" => Len(stack[r]) \in Depths /\ status[r] = "none"
    /\ pc[r] = "written" => Len(stack[r]) = 1 /\ r \in Handlers
    /\ \A i \in 1..(Len(stack[r]) - 1) : stack[r][i + 1] \in Behind(stack[r][i])

OwnReaders(f) == {<<f, "own">>, <<f, "save">>}
Made(f) == var[f] \in {"own", "save"}
Holds(r) == pc[r] \in {"read", "return", "written"}

\* The reader a request has in hand is one of its own, over an image that is right
\* for the provider of its innermost call.
HandAt(r) ==
  /\ Holds(r) => /\ rd[r] \in Readers /\ rd[r][1][1] = r
                 /\ content[rd[r]] \in ImagesOf[Top(r)]
  /\ pc[r] \in {"make", "load"} =>
       \A x \in OwnReaders(Frame(r)) : content[x] \in ImagesOf[Top(r)]
  /\ pc[r] = "load" => Made(Frame(r))

\* The goroutine of a call has the same image, whichever reader it has got.
GoAt(f) ==
  /\ gpc[f] # "none" => /\ gtile[f] \in Providers \ NoCache
                        /\ \A x \in OwnReaders(f) : content[x] \in ImagesOf[gtile[f]]
  /\ gpc[f] = "load" => Made(f)
  /\ gpc[f] \in {"save", "store"} => grd[f] \in OwnReaders(f)

HandInv == \A r \in Requests : HandAt(r)
GoInv == \A f \in Frames : GoAt(f)

\* Every entry is right.
SavedInv == \A e \in saved : e[1] \notin NoCache /\ e[2] \in ImagesOf[e[1]]

Inv == TypeOK /\ StackInv /\ HandInv /\ GoInv /\ SavedInv

-----------------------------------------------------------------------------
(* The images *)

\* Every provider serves for itself.
LEMMA ServesItself == \A p \in Providers : ServesFor(p, p)
BY DEF ServesFor

\* What serves for a fallback of p serves for p.
LEMMA ServesThrough ==
  ASSUME NEW p \in Providers, NEW o \in Behind(p), NEW q \in Providers, ServesFor(q, o)
  PROVE  ServesFor(q, p)
BY DEF ServesFor

\* Whatever of it was read, an image of a provider is right for it.
LEMMA OwnImage ==
  ASSUME NEW p \in Providers, NEW ps \in SUBSET Parts
  PROVE  [src |-> p, parts |-> ps] \in ImagesOf[p]
BY ServesItself DEF ImagesOf, ImageFor, Content

\* The empty image is right for an MBTiles provider.
LEMMA EmptyImage ==
  ASSUME NEW p \in Providers, Type[p] = "mbtiles"
  PROVE  Image(EmptyPNG) \in ImagesOf[p]
BY ServesItself DEF ImagesOf, ImageFor, Content, Image

\* A piece of an image that is right is right.
LEMMA PieceOf ==
  ASSUME NEW p \in Providers, NEW c \in ImagesOf[p], NEW ps \in SUBSET Parts
  PROVE  [src |-> c.src, parts |-> ps] \in ImagesOf[p]
BY DEF ImagesOf, ImageFor, Content

\* An image that is right for the fallback of p is right for p.
LEMMA FallbackImage ==
  ASSUME NEW p \in Providers, NEW o \in Behind(p), NEW c \in ImagesOf[o]
  PROVE  c \in ImagesOf[p]
<1>1. o \in Providers
  BY DEF Behind
<1>. QED
  BY <1>1, ServesThrough DEF ImagesOf, ImageFor

\* Whatever is right for a provider is content.
LEMMA ImageType ==
  ASSUME NEW p \in Providers, NEW c \in ImagesOf[p]
  PROVE  c \in Content
BY DEF ImagesOf

-----------------------------------------------------------------------------
(* The stack and the readers *)

\* The readers of a call are its own.
LEMMA OwnReadersType ==
  ASSUME NEW f \in Frames, NEW x \in OwnReaders(f)
  PROVE  x \in Readers /\ x[1] = f
BY DEF OwnReaders, Readers

\* The frames are the pairs of a request and a depth.
LEMMA FrameType ==
  ASSUME NEW r \in Requests, NEW d \in Depths
  PROVE  <<r, d>> \in Frames /\ <<r, d>>[1] = r
BY DEF Frames, Depths

\* A frame is the pair of its request and its depth.
LEMMA FrameOf ==
  ASSUME NEW f \in Frames
  PROVE  f[1] \in Requests /\ f[2] \in Depths /\ f = <<f[1], f[2]>>
BY DEF Frames, Depths

\* The innermost call of a request under way has a frame, and readers.
LEMMA FrameAt ==
  ASSUME TypeOK, StackInv, NEW r \in Requests, pc[r] # "idle"
  PROVE  /\ Top(r) \in Providers
         /\ Frame(r) \in Frames /\ Frame(r)[1] = r
         /\ \A k \in {"got", "mem", "own", "save"} : <<Frame(r), k>> \in Readers
<1>1. stack[r] \in Seq(Providers) /\ Len(stack[r]) \in Depths
  BY DEF TypeOK, ReqTypes, ReadTypes, GoTypes, StackInv
<1>2. Len(stack[r]) \in 1..Len(stack[r])
  BY <1>1, ConfigAssumption DEF Depths
<1>3. Top(r) \in Providers
  BY <1>1, <1>2, ElementOfSeq DEF Top
<1>. QED
  BY <1>1, <1>3, FrameType DEF Frame, Readers

\* A step leaves the readers of the calls of o alone.
KeepsReaders(o) ==
  \A x \in Readers : x[1][1] = o => content'[x] = content[x]
KeepsMade(o) == \A f \in Frames : f[1] = o /\ Made(f) => Made(f)'

\* Nothing is collected that belongs to another request, to one under way, or to
\* one that left a goroutine behind.
LEMMA Collected ==
  ASSUME TypeOK, NEW r \in Requests, NEW p \in [Readers -> 0..2], Collect(r, p)
  PROVE  /\ content' \in [Readers -> Content \cup {None}]
         /\ pos' \in [Readers -> 0..2]
         /\ var' \in [Frames -> {"got", "own", "save"}]
         /\ \A o \in Requests \ {r} : KeepsReaders(o) /\ KeepsMade(o)
         /\ pc'[r] # "idle" => KeepsReaders(r) /\ KeepsMade(r)
         /\ \A d \in Depths : gpc'[<<r, d>>] # "none" => KeepsReaders(r) /\ KeepsMade(r)
BY DEF Collect, TypeOK, ReqTypes, ReadTypes, GoTypes, KeepsReaders, KeepsMade, Made, Depths

\* A request, or a goroutine, that a step does not move keeps its image.
Rests(o) ==
  /\ pc'[o] = pc[o] /\ stack'[o] = stack[o] /\ rd'[o] = rd[o]
  /\ KeepsReaders(o) /\ KeepsMade(o)
GoRests(f) ==
  gpc'[f] # "none" =>
    /\ gpc'[f] = gpc[f] /\ gtile'[f] = gtile[f] /\ grd'[f] = grd[f]
    /\ \A x \in OwnReaders(f) : content'[x] = content[x]
    /\ Made(f) => Made(f)'

\* Nothing of a goroutine that goes on is collected.
LEMMA CollectGo ==
  ASSUME TypeOK, NEW r \in Requests, NEW p \in [Readers -> 0..2], Collect(r, p),
         NEW f \in Frames, gpc'[f] # "none"
  PROVE  /\ \A x \in OwnReaders(f) : content'[x] = content[x]
         /\ Made(f) => Made(f)'
<1>1. f[1] \in Requests /\ f[2] \in Depths /\ f = <<f[1], f[2]>>
  BY FrameOf
<1>2. KeepsReaders(f[1]) /\ KeepsMade(f[1])
  BY <1>1, Collected
<1>. QED
  BY <1>2, OwnReadersType DEF KeepsReaders, KeepsMade

\* A request fails.
LEMMA FailType ==
  ASSUME TypeOK, NEW r \in Requests, Fail(r)
  PROVE  /\ ReqTypes' /\ ReadTypes' /\ UNCHANGED gpc
         /\ pc' = [pc EXCEPT ![r] = "idle"] /\ \A o \in Requests \ {r} : Rests(o)
<1>1. ReqTypes'
  BY DEF Fail, FailWith, Goto, TypeOK, ReqTypes, ReadTypes, GoTypes
<1>2. Collect(r, pos) /\ pos \in [Readers -> 0..2]
  BY DEF Fail, FailWith, TypeOK, ReqTypes, ReadTypes, GoTypes
<1>. QED
  BY <1>1, <1>2, Collected DEF Fail, FailWith, Goto, ReadTypes, Rests, TypeOK, ReqTypes, GoTypes

\* A request that rests keeps what it has in hand.
LEMMA HandRests ==
  ASSUME TypeOK, StackInv, NEW o \in Requests, HandAt(o), Rests(o)
  PROVE  HandAt(o)'
<1>1. pc[o] \in {"make", "load"} =>
        /\ Frame(o) \in Frames /\ Frame(o)[1] = o
        /\ \A x \in OwnReaders(Frame(o)) : x \in Readers /\ x[1][1] = o
  BY FrameType, OwnReadersType DEF Frame, StackInv
<1>2. Frame(o)' = Frame(o) /\ Top(o)' = Top(o) /\ (Holds(o)' <=> Holds(o))
  BY DEF Rests, Frame, Top, Holds
<1>3. pc[o] = "load" /\ Made(Frame(o)) => Made(Frame(o))'
  BY <1>1, <1>2 DEF Rests, KeepsMade, Made
<1>. QED
  BY <1>1, <1>2, <1>3 DEF HandAt, Rests, KeepsReaders, OwnReaders

\* A goroutine that rests keeps its image.
LEMMA GoesOn == ASSUME NEW f \in Frames, GoAt(f), GoRests(f) PROVE GoAt(f)'
BY DEF GoAt, GoRests, OwnReaders

\* The stack without its last call.
LEMMA Shorter ==
  ASSUME NEW S, NEW s \in Seq(S), NEW n \in 1..(Len(s) - 1)
  PROVE  /\ SubSeq(s, 1, n) \in Seq(S) /\ SubSeq(s, 1, n) # <<>>
         /\ Len(SubSeq(s, 1, n)) = n
         /\ \A i \in 1..n : SubSeq(s, 1, n)[i] = s[i]
<1>1. \A i \in 1..n : s[i] \in S
  BY ElementOfSeq, LenProperties
<1>. QED
  BY <1>1, SubSeqProperties, EmptySeq

\* The calls of FTile nest, and a request that ends leaves none.
LEMMA StackStep ==
  ASSUME TypeOK, StackInv, [Next]_vars
  PROVE  StackInv'
<1>. USE ConfigAssumption DEF TypeOK, ReqTypes, StackInv, Depths, procVars,
     reqVars, readVars, goVars
<1>1. ASSUME NEW r \in Requests, BadRequest(r) PROVE StackInv'
  BY <1>1 DEF BadRequest, Free
<1>2. ASSUME NEW r \in Requests, NEW p \in Providers, Request(r, p) PROVE StackInv'
  BY <1>2 DEF Request, Free, Goto
<1>3. ASSUME NEW r \in Requests, CacheHit(r) PROVE StackInv'
  BY <1>3 DEF CacheHit, HitAmong, Hand, Goto
<1>4. ASSUME NEW r \in Requests, CacheMiss(r) PROVE StackInv'
  BY <1>4 DEF CacheMiss, Goto
<1>5. ASSUME NEW r \in Requests, ProviderTile(r) PROVE StackInv'
  BY <1>5 DEF ProviderTile, Hand, Goto
<1>6. ASSUME NEW r \in Requests, ProviderError(r) PROVE StackInv'
  BY <1>6 DEF ProviderError, Fail, FailWith, Goto
<1>7. ASSUME NEW r \in Requests, ProviderPanic(r) PROVE StackInv'
  BY <1>7 DEF ProviderPanic, Fail, FailWith, Goto
<1>8. ASSUME NEW r \in Requests, NoFallback(r) PROVE StackInv'
  BY <1>8 DEF NoFallback, Hand, Goto
<1>9. ASSUME NEW r \in Requests, CallFallback(r) PROVE StackInv'
  <2>1. PICK q \in Behind(Top(r)) :
          /\ stack' = [stack EXCEPT ![r] = Append(stack[r], q)]
          /\ Len(stack[r]) < MaxDepth
          /\ pc[r] = "provider" /\ pc' = [pc EXCEPT ![r] = "cache"]
          /\ UNCHANGED status
    BY <1>9 DEF CallFallback, Goto, Behind
  <2>2. q \in Providers
    BY DEF Behind
  <2>3. /\ Len(Append(stack[r], q)) = Len(stack[r]) + 1
        /\ \A i \in 1..Len(stack[r]) : Append(stack[r], q)[i] = stack[r][i]
        /\ Append(stack[r], q)[Len(stack[r]) + 1] = q
    BY <2>2
  <2>4. /\ stack'[r] = Append(stack[r], q) /\ pc'[r] = "cache"
        /\ \A o \in Requests \ {r} : stack'[o] = stack[o] /\ pc'[o] = pc[o]
    BY <2>1
  <2>5. ASSUME NEW i \in 1..(Len(stack'[r]) - 1)
        PROVE  stack'[r][i + 1] \in Behind(stack'[r][i])
    <3>1. CASE i = Len(stack[r])
      BY <2>1, <2>3, <2>4, <3>1 DEF Top
    <3>2. CASE i \in 1..(Len(stack[r]) - 1)
      BY <2>3, <2>4, <3>2
    <3>. QED
      BY <2>3, <2>4, <3>1, <3>2
  <2>6. Len(stack'[r]) \in Depths /\ stack'[r] # <<>> /\ status'[r] = "none"
    BY <2>1, <2>3, <2>4
  <2>. QED
    BY <2>1, <2>4, <2>5, <2>6
<1>10. ASSUME NEW r \in Requests, ReturnUnread(r) PROVE StackInv'
  BY <1>10 DEF ReturnUnread, Goto
<1>11. ASSUME NEW r \in Requests, ReadSome(r) PROVE StackInv'
  BY <1>11 DEF ReadSome, ReadBefore
<1>12. ASSUME NEW r \in Requests, ReadError(r) PROVE StackInv'
  BY <1>12 DEF ReadError, Fail, FailWith, Goto
<1>13. ASSUME NEW r \in Requests, ReadDone(r) PROVE StackInv'
  BY <1>13 DEF ReadDone, ReadUpTo, Goto
<1>14. ASSUME NEW r \in Requests, MakeReader(r) PROVE StackInv'
  BY <1>14 DEF MakeReader, Goto
<1>15. ASSUME NEW r \in Requests, LoadReader(r) PROVE StackInv'
  BY <1>15 DEF LoadReader, Goto
<1>16. ASSUME NEW r \in Requests, ReturnInner(r) PROVE StackInv'
  <2>. DEFINE n == Len(stack[r]) - 1
              t == SubSeq(stack[r], 1, n)
  <2>1. /\ stack' = [stack EXCEPT ![r] = t] /\ pc' = [pc EXCEPT ![r] = "read"]
        /\ n \in Depths /\ status' = status /\ status[r] = "none"
    BY <1>16 DEF ReturnInner, Goto
  <2>2. /\ stack'[r] = t /\ pc'[r] = "read"
        /\ \A o \in Requests \ {r} : stack'[o] = stack[o] /\ pc'[o] = pc[o]
    BY <2>1
  <2>3. stack[r] \in Seq(Providers) /\ n \in 1..(Len(stack[r]) - 1)
    BY <2>1
  <2>4. \A i \in 1..n : stack[r][i + 1] \in Behind(stack[r][i])
    OBVIOUS
  <2>. HIDE DEF n, TypeOK, ReqTypes, StackInv
  <2>5. Len(t) = n /\ t # <<>> /\ \A i \in 1..n : t[i] = stack[r][i]
    BY <2>3, Shorter
  <2>. HIDE DEF t
  <2>6. \A i \in 1..(Len(t) - 1) : t[i + 1] \in Behind(t[i])
    BY <2>3, <2>4, <2>5
  <2>7. Len(t) \in Depths
    BY <2>1, <2>5
  <2>. QED
    BY <2>1, <2>2, <2>5, <2>6, <2>7 DEF StackInv
<1>17. ASSUME NEW r \in Requests, WorkerDone(r) PROVE StackInv'
  BY <1>17 DEF WorkerDone, Goto
<1>18. ASSUME NEW r \in Requests, WriteBody(r) PROVE StackInv'
  BY <1>18 DEF WriteBody, Goto
<1>19. ASSUME NEW r \in Requests, HandlerDone(r) PROVE StackInv'
  BY <1>19 DEF HandlerDone, Goto
<1>20. ASSUME NEW f \in Frames, GoMake(f) PROVE StackInv'
  BY <1>20 DEF GoMake
<1>21. ASSUME NEW f \in Frames, GoLoad(f) PROVE StackInv'
  BY <1>21 DEF GoLoad
<1>22. ASSUME NEW f \in Frames, GoSkip(f) PROVE StackInv'
  BY <1>22 DEF GoSkip, GoEnd
<1>23. ASSUME NEW f \in Frames, GoRead(f) PROVE StackInv'
  BY <1>23 DEF GoRead
<1>24. ASSUME NEW f \in Frames, GoStore(f) PROVE StackInv'
  BY <1>24 DEF GoStore, GoEnd
<1>25. ASSUME Restart PROVE StackInv'
  BY <1>25 DEF Restart
<1>26. ASSUME UNCHANGED vars PROVE StackInv'
  BY <1>26 DEF vars
<1>. QED
  BY <1>1, <1>2, <1>3, <1>4, <1>5, <1>6, <1>7, <1>8, <1>9, <1>10, <1>11,
     <1>12, <1>13, <1>14, <1>15, <1>16, <1>17, <1>18, <1>19, <1>20, <1>21,
     <1>22, <1>23, <1>24, <1>25, <1>26 DEF Next, Work, GoWork

\* A goroutine saves an image under the name of its tile.
LEMMA SavedStep ==
  ASSUME TypeOK, GoInv, SavedInv, [Next]_vars
  PROVE  SavedInv'
<1>. USE DEF SavedInv, procVars, reqVars, readVars, goVars
<1>1. ASSUME NEW r \in Requests, BadRequest(r) PROVE SavedInv'
  BY <1>1 DEF BadRequest, Free
<1>2. ASSUME NEW r \in Requests, NEW p \in Providers, Request(r, p) PROVE SavedInv'
  BY <1>2 DEF Request, Free, Goto
<1>3. ASSUME NEW r \in Requests, CacheHit(r) PROVE SavedInv'
  BY <1>3 DEF CacheHit, HitAmong, Hand, Goto
<1>4. ASSUME NEW r \in Requests, CacheMiss(r) PROVE SavedInv'
  BY <1>4 DEF CacheMiss, Goto
<1>5. ASSUME NEW r \in Requests, ProviderTile(r) PROVE SavedInv'
  BY <1>5 DEF ProviderTile, Hand, Goto
<1>6. ASSUME NEW r \in Requests, ProviderError(r) PROVE SavedInv'
  BY <1>6 DEF ProviderError, Fail, FailWith, Goto
<1>7. ASSUME NEW r \in Requests, ProviderPanic(r) PROVE SavedInv'
  BY <1>7 DEF ProviderPanic, Fail, FailWith, Goto
<1>8. ASSUME NEW r \in Requests, NoFallback(r) PROVE SavedInv'
  BY <1>8 DEF NoFallback, Hand, Goto
<1>9. ASSUME NEW r \in Requests, CallFallback(r) PROVE SavedInv'
  BY <1>9 DEF CallFallback, Goto
<1>10. ASSUME NEW r \in Requests, ReturnUnread(r) PROVE SavedInv'
  BY <1>10 DEF ReturnUnread, Goto
<1>11. ASSUME NEW r \in Requests, ReadSome(r) PROVE SavedInv'
  BY <1>11 DEF ReadSome, ReadBefore
<1>12. ASSUME NEW r \in Requests, ReadError(r) PROVE SavedInv'
  BY <1>12 DEF ReadError, Fail, FailWith, Goto
<1>13. ASSUME NEW r \in Requests, ReadDone(r) PROVE SavedInv'
  BY <1>13 DEF ReadDone, ReadUpTo, Goto
<1>14. ASSUME NEW r \in Requests, MakeReader(r) PROVE SavedInv'
  BY <1>14 DEF MakeReader, Goto
<1>15. ASSUME NEW r \in Requests, LoadReader(r) PROVE SavedInv'
  BY <1>15 DEF LoadReader, Goto
<1>16. ASSUME NEW r \in Requests, ReturnInner(r) PROVE SavedInv'
  BY <1>16 DEF ReturnInner, Goto
<1>17. ASSUME NEW r \in Requests, WorkerDone(r) PROVE SavedInv'
  BY <1>17 DEF WorkerDone, Goto
<1>18. ASSUME NEW r \in Requests, WriteBody(r) PROVE SavedInv'
  BY <1>18 DEF WriteBody, Goto
<1>19. ASSUME NEW r \in Requests, HandlerDone(r) PROVE SavedInv'
  BY <1>19 DEF HandlerDone, Goto
<1>20. ASSUME NEW f \in Frames, GoMake(f) PROVE SavedInv'
  BY <1>20 DEF GoMake
<1>21. ASSUME NEW f \in Frames, GoLoad(f) PROVE SavedInv'
  BY <1>21 DEF GoLoad
<1>22. ASSUME NEW f \in Frames, GoSkip(f) PROVE SavedInv'
  BY <1>22 DEF GoSkip, GoEnd
<1>23. ASSUME NEW f \in Frames, GoRead(f) PROVE SavedInv'
  BY <1>23 DEF GoRead
<1>24. ASSUME NEW f \in Frames, GoStore(f) PROVE SavedInv'
  <2>. DEFINE c == [src |-> content[grd[f]].src, parts |-> gbuf[f]]
  <2>1. /\ gpc[f] = "store"
        /\ saved' \in {saved, saved \cup {<<gtile[f], c>>}}
    BY <1>24 DEF GoStore
  <2>2. /\ gtile[f] \in Providers \ NoCache
        /\ content[grd[f]] \in ImagesOf[gtile[f]]
    BY <2>1 DEF GoInv, GoAt, OwnReaders
  <2>3. c \in ImagesOf[gtile[f]]
    BY <2>2, PieceOf DEF TypeOK, GoTypes
  <2>. QED
    BY <2>1, <2>2, <2>3
<1>25. ASSUME Restart PROVE SavedInv'
  BY <1>25 DEF Restart
<1>26. ASSUME UNCHANGED vars PROVE SavedInv'
  BY <1>26 DEF vars
<1>. QED
  BY <1>1, <1>2, <1>3, <1>4, <1>5, <1>6, <1>7, <1>8, <1>9, <1>10, <1>11,
     <1>12, <1>13, <1>14, <1>15, <1>16, <1>17, <1>18, <1>19, <1>20, <1>21,
     <1>22, <1>23, <1>24, <1>25, <1>26 DEF Next, Work, GoWork

\* Every step leaves the variables in their ranges.
LEMMA TypeStep ==
  ASSUME TypeOK, StackInv, HandInv, GoInv, SavedInv, [Next]_vars
  PROVE  TypeOK'
<1>. USE ConfigAssumption DEF TypeOK, procVars, reqVars, readVars, goVars
<1>1. ASSUME NEW r \in Requests, BadRequest(r) PROVE TypeOK'
  BY <1>1 DEF BadRequest, Free, ProcTypes, ReqTypes, ReadTypes, GoTypes
<1>2. ASSUME NEW r \in Requests, NEW p \in Providers, Request(r, p) PROVE TypeOK'
  BY <1>2 DEF Request, Free, Goto, ProcTypes, ReqTypes, ReadTypes, GoTypes
<1>3. ASSUME NEW r \in Requests, CacheHit(r) PROVE TypeOK'
  <2>1. PICK k \in {"got", "mem"}, c \in Content, place \in {"read", "return"} :
          Hand(r, k, c, place)
    BY <1>3 DEF CacheHit, HitAmong, TypeOK, Content, Parts
  <2>2. pc[r] # "idle" /\ ProcTypes' /\ UNCHANGED <<var, gpc, gtile, grd, gbuf, saved>>
    BY <1>3 DEF CacheHit, HitAmong, ProcTypes, Image
  <2>3. <<Frame(r), k>> \in Readers
    BY <2>2, FrameAt
  <2>4. ReqTypes'
    BY <2>1, <2>3 DEF Hand, Goto, ReqTypes
  <2>5. ReadTypes'
    BY <2>1, <2>2, <2>3 DEF Hand, ReadTypes
  <2>. QED
    BY <2>2, <2>4, <2>5 DEF GoTypes
<1>4. ASSUME NEW r \in Requests, CacheMiss(r) PROVE TypeOK'
  BY <1>4 DEF CacheMiss, Goto, ProcTypes, ReqTypes, ReadTypes, GoTypes
<1>5. ASSUME NEW r \in Requests, ProviderTile(r) PROVE TypeOK'
  <2>1. PICK k \in {"got", "mem"}, c \in Content, place \in {"read", "return"} :
          Hand(r, k, c, place)
    BY <1>5, FrameAt DEF ProviderTile, Image, TypeOK, Content, Parts
  <2>2. pc[r] # "idle" /\ ProcTypes' /\ UNCHANGED <<var, gpc, gtile, grd, gbuf, saved>>
    BY <1>5 DEF ProviderTile, ProcTypes, Image
  <2>3. <<Frame(r), k>> \in Readers
    BY <2>2, FrameAt
  <2>4. ReqTypes'
    BY <2>1, <2>3 DEF Hand, Goto, ReqTypes
  <2>5. ReadTypes'
    BY <2>1, <2>2, <2>3 DEF Hand, ReadTypes
  <2>. QED
    BY <2>2, <2>4, <2>5 DEF GoTypes
<1>6. ASSUME NEW r \in Requests, ProviderError(r) PROVE TypeOK'
  <2>1. Fail(r) /\ UNCHANGED <<fb, active, gtile, grd, gbuf, saved>> /\ up' \in BOOLEAN
    BY <1>6 DEF ProviderError, TypeOK, ProcTypes
  <2>2. ReqTypes' /\ ReadTypes' /\ gpc' = gpc
    BY <2>1, FailType
  <2>. QED
    BY <2>1, <2>2 DEF ProcTypes, GoTypes
<1>7. ASSUME NEW r \in Requests, ProviderPanic(r) PROVE TypeOK'
  <2>1. Fail(r) /\ UNCHANGED <<fb, active, gtile, grd, gbuf, saved>> /\ up' \in BOOLEAN
    BY <1>7 DEF ProviderPanic, TypeOK, ProcTypes
  <2>2. ReqTypes' /\ ReadTypes' /\ gpc' = gpc
    BY <2>1, FailType
  <2>. QED
    BY <2>1, <2>2 DEF ProcTypes, GoTypes
<1>8. ASSUME NEW r \in Requests, NoFallback(r) PROVE TypeOK'
  <2>1. PICK k \in {"got", "mem"}, c \in Content, place \in {"read", "return"} :
          Hand(r, k, c, place)
    BY <1>8 DEF NoFallback, Image, TypeOK, Content, Parts
  <2>2. pc[r] # "idle" /\ ProcTypes' /\ UNCHANGED <<var, gpc, gtile, grd, gbuf, saved>>
    BY <1>8 DEF NoFallback, ProcTypes, Image
  <2>3. <<Frame(r), k>> \in Readers
    BY <2>2, FrameAt
  <2>4. ReqTypes'
    BY <2>1, <2>3 DEF Hand, Goto, ReqTypes
  <2>5. ReadTypes'
    BY <2>1, <2>2, <2>3 DEF Hand, ReadTypes
  <2>. QED
    BY <2>2, <2>4, <2>5 DEF GoTypes
<1>9. ASSUME NEW r \in Requests, CallFallback(r) PROVE TypeOK'
  BY <1>9 DEF CallFallback, Goto, ProcTypes, ReqTypes, ReadTypes,
     GoTypes
<1>10. ASSUME NEW r \in Requests, ReturnUnread(r) PROVE TypeOK'
  BY <1>10 DEF ReturnUnread, Goto, ProcTypes, ReqTypes, ReadTypes, GoTypes
<1>11. ASSUME NEW r \in Requests, ReadSome(r) PROVE TypeOK'
  <2>1. rd[r] \in Readers /\ content[rd[r]] \in Content
    BY <1>11, FrameAt, ImageType DEF ReadSome, ReadBefore, HandInv, HandAt, Holds
  <2>2. ProcTypes'
    BY <1>11 DEF ReadSome, ReadBefore, ProcTypes
  <2>3. ReqTypes'
    BY <1>11, <2>1 DEF ReadSome, ReadBefore, ReqTypes, Content, Parts
  <2>4. ReadTypes'
    BY <1>11, <2>1 DEF ReadSome, ReadBefore, ReadTypes, Parts
  <2>5. GoTypes'
    BY <1>11 DEF ReadSome, ReadBefore, GoTypes
  <2>6. UNCHANGED saved
    BY <1>11 DEF ReadSome, ReadBefore
  <2>. QED
    BY <2>2, <2>3, <2>4, <2>5, <2>6 DEF TypeOK
<1>12. ASSUME NEW r \in Requests, ReadError(r) PROVE TypeOK'
  <2>1. Fail(r) /\ UNCHANGED <<fb, active, gtile, grd, gbuf, saved>> /\ up' \in BOOLEAN
    BY <1>12 DEF ReadError, TypeOK, ProcTypes
  <2>2. ReqTypes' /\ ReadTypes' /\ gpc' = gpc
    BY <2>1, FailType
  <2>. QED
    BY <2>1, <2>2 DEF ProcTypes, GoTypes
<1>13. ASSUME NEW r \in Requests, ReadDone(r) PROVE TypeOK'
  <2>1. Frame(r) \in Frames /\ \A k \in {"got", "own", "save"} : <<Frame(r), k>> \in Readers
    BY <1>13, FrameAt DEF ReadDone, ReadUpTo
  <2>2. rd[r] \in Readers /\ content[rd[r]] \in Content
    BY <1>13, FrameAt, ImageType DEF ReadDone, ReadUpTo, HandInv, HandAt, Holds
  <2>3. Top(r) \in Providers
    BY <1>13, FrameAt DEF ReadDone, ReadUpTo
  <2>4. ProcTypes'
    BY <1>13 DEF ReadDone, ReadUpTo, Goto, ProcTypes
  <2>5. ReqTypes'
    BY <1>13, <2>1, <2>2, <2>3 DEF ReadDone, ReadUpTo, Goto, ReqTypes
  <2>6. ReadTypes'
    BY <1>13, <2>1, <2>2, <2>3 DEF ReadDone, ReadUpTo, Goto, ReadTypes, Content, ReqTypes
  <2>7. GoTypes'
    BY <1>13, <2>1, <2>2, <2>3 DEF ReadDone, ReadUpTo, Goto, GoTypes
  <2>8. UNCHANGED saved
    BY <1>13 DEF ReadDone, ReadUpTo, Goto
  <2>. QED
    BY <2>4, <2>5, <2>6, <2>7, <2>8 DEF TypeOK
<1>14. ASSUME NEW r \in Requests, MakeReader(r) PROVE TypeOK'
  <2>1. Frame(r) \in Frames /\ \A k \in {"got", "own", "save"} : <<Frame(r), k>> \in Readers
    BY <1>14, FrameAt DEF MakeReader
  <2>2. ProcTypes'
    BY <1>14 DEF MakeReader, Goto, ProcTypes
  <2>3. ReqTypes'
    BY <1>14, <2>1 DEF MakeReader, Goto, ReqTypes
  <2>4. ReadTypes'
    BY <1>14, <2>1 DEF MakeReader, Goto, ReadTypes
  <2>5. GoTypes'
    BY <1>14 DEF MakeReader, Goto, GoTypes
  <2>6. UNCHANGED saved
    BY <1>14 DEF MakeReader, Goto
  <2>. QED
    BY <2>2, <2>3, <2>4, <2>5, <2>6 DEF TypeOK
<1>15. ASSUME NEW r \in Requests, LoadReader(r) PROVE TypeOK'
  <2>1. Frame(r) \in Frames /\ \A k \in {"got", "own", "save"} : <<Frame(r), k>> \in Readers
    BY <1>15, FrameAt DEF LoadReader
  <2>2. var[Frame(r)] \in {"own", "save"}
    BY <1>15 DEF LoadReader, HandInv, HandAt, Made
  <2>3. ProcTypes'
    BY <1>15 DEF LoadReader, Goto, ProcTypes
  <2>4. ReqTypes'
    BY <1>15, <2>1, <2>2 DEF LoadReader, Goto, ReqTypes
  <2>5. ReadTypes'
    BY <1>15 DEF LoadReader, Goto, ReadTypes
  <2>6. GoTypes'
    BY <1>15 DEF LoadReader, Goto, GoTypes
  <2>7. UNCHANGED saved
    BY <1>15 DEF LoadReader, Goto
  <2>. QED
    BY <2>3, <2>4, <2>5, <2>6, <2>7 DEF TypeOK
<1>16. ASSUME NEW r \in Requests, ReturnInner(r) PROVE TypeOK'
  BY <1>16 DEF ReturnInner, Goto, ProcTypes, ReqTypes, ReadTypes, GoTypes
<1>17. ASSUME NEW r \in Requests, WorkerDone(r) PROVE TypeOK'
  <2>1. Collect(r, pos) /\ pos \in [Readers -> 0..2] /\ UNCHANGED gpc
    BY <1>17 DEF WorkerDone, TypeOK, ReadTypes
  <2>2. ProcTypes'
    BY <1>17 DEF WorkerDone, Goto, ProcTypes
  <2>3. ReqTypes'
    BY <1>17, <2>1 DEF WorkerDone, Goto, ReqTypes
  <2>4. ReadTypes'
    BY <1>17, <2>1, Collected DEF ReadTypes
  <2>5. GoTypes'
    BY <1>17 DEF WorkerDone, Goto, GoTypes
  <2>6. UNCHANGED saved
    BY <1>17 DEF WorkerDone, Goto
  <2>. QED
    BY <2>2, <2>3, <2>4, <2>5, <2>6 DEF TypeOK
<1>18. ASSUME NEW r \in Requests, WriteBody(r) PROVE TypeOK'
  <2>1. rd[r] \in Readers /\ content[rd[r]] \in Content
    BY <1>18, FrameAt, ImageType DEF WriteBody, HandInv, HandAt, Holds
  <2>2. Remaining(rd[r]) \in SUBSET Parts /\ Remaining(rd[r]) \cap {1} \in SUBSET Parts
    BY <2>1 DEF Remaining, Content
  <2>3. PICK ps \in SUBSET Parts : buf' = [buf EXCEPT ![r] = ps]
    BY <1>18, <2>2 DEF WriteBody
  <2>4. ProcTypes'
    BY <1>18 DEF WriteBody, Goto, ProcTypes
  <2>5. ReqTypes'
    BY <1>18, <2>1, <2>2, <2>3 DEF WriteBody, Goto, ReqTypes
  <2>6. ReadTypes'
    BY <1>18 DEF WriteBody, Goto, ReadTypes
  <2>7. GoTypes'
    BY <1>18 DEF WriteBody, Goto, GoTypes
  <2>8. UNCHANGED saved
    BY <1>18 DEF WriteBody, Goto
  <2>. QED
    BY <2>4, <2>5, <2>6, <2>7, <2>8 DEF TypeOK
<1>19. ASSUME NEW r \in Requests, HandlerDone(r) PROVE TypeOK'
  <2>1. rd[r] \in Readers /\ content[rd[r]] \in Content
    BY <1>19, FrameAt, ImageType DEF HandlerDone, HandInv, HandAt, Holds
  <2>2. Collect(r, [pos EXCEPT ![rd[r]] = 2])
    BY <1>19 DEF HandlerDone
  <2>3. [pos EXCEPT ![rd[r]] = 2] \in [Readers -> 0..2]
    BY <2>1 DEF TypeOK, ReadTypes
  <2>4. ProcTypes'
    BY <1>19 DEF HandlerDone, Goto, ProcTypes
  <2>5. ReqTypes'
    BY <1>19, <2>1, <2>2, <2>3 DEF HandlerDone, Goto, ReqTypes, Content
  <2>6. ReadTypes'
    BY <1>19, <2>2, <2>3, Collected DEF ReadTypes
  <2>7. GoTypes'
    BY <1>19 DEF HandlerDone, Goto, GoTypes
  <2>8. UNCHANGED saved
    BY <1>19 DEF HandlerDone, Goto
  <2>. QED
    BY <2>4, <2>5, <2>6, <2>7, <2>8 DEF TypeOK
<1>20. ASSUME NEW f \in Frames, GoMake(f) PROVE TypeOK'
  <2>1. <<f, "save">> \in Readers
    BY DEF Readers
  <2>2. ProcTypes'
    BY <1>20 DEF GoMake, ProcTypes
  <2>3. ReqTypes'
    BY <1>20 DEF GoMake, ReqTypes
  <2>4. ReadTypes'
    BY <1>20, <2>1 DEF GoMake, ReadTypes
  <2>5. GoTypes'
    BY <1>20, <2>1 DEF GoMake, GoTypes
  <2>6. UNCHANGED saved
    BY <1>20 DEF GoMake
  <2>. QED
    BY <2>2, <2>3, <2>4, <2>5, <2>6 DEF TypeOK
<1>21. ASSUME NEW f \in Frames, GoLoad(f) PROVE TypeOK'
  <2>1. var[f] \in {"own", "save"}
    BY <1>21 DEF GoLoad, GoInv, GoAt, Made
  <2>2. ProcTypes'
    BY <1>21 DEF GoLoad, ProcTypes
  <2>3. ReqTypes'
    BY <1>21 DEF GoLoad, ReqTypes
  <2>4. ReadTypes'
    BY <1>21 DEF GoLoad, ReadTypes
  <2>5. GoTypes'
    BY <1>21, <2>1 DEF GoLoad, GoTypes, Made, Readers
  <2>6. UNCHANGED saved
    BY <1>21 DEF GoLoad
  <2>. QED
    BY <2>2, <2>3, <2>4, <2>5, <2>6 DEF TypeOK
<1>22. ASSUME NEW f \in Frames, GoSkip(f) PROVE TypeOK'
  <2>1. Collect(f[1], pos) /\ pos \in [Readers -> 0..2] /\ f[1] \in Requests
    BY <1>22, FrameOf DEF GoSkip, GoEnd, TypeOK, ReadTypes
  <2>2. ProcTypes'
    BY <1>22 DEF GoSkip, GoEnd, ProcTypes
  <2>3. ReqTypes'
    BY <1>22 DEF GoSkip, GoEnd, ReqTypes
  <2>4. ReadTypes'
    BY <1>22, <2>1, Collected DEF ReadTypes
  <2>5. GoTypes'
    BY <1>22, <2>1 DEF GoSkip, GoEnd, GoTypes
  <2>6. UNCHANGED saved
    BY <1>22 DEF GoSkip, GoEnd
  <2>. QED
    BY <2>2, <2>3, <2>4, <2>5, <2>6 DEF TypeOK
<1>23. ASSUME NEW f \in Frames, GoRead(f) PROVE TypeOK'
  <2>1. content[grd[f]] \in Content
    BY <1>23, ImageType DEF GoRead, GoInv, GoAt, OwnReaders
  <2>2. ProcTypes'
    BY <1>23 DEF GoRead, ProcTypes
  <2>3. ReqTypes'
    BY <1>23 DEF GoRead, ReqTypes
  <2>4. ReadTypes'
    BY <1>23 DEF GoRead, ReadTypes
  <2>5. GoTypes'
    BY <1>23, <2>1 DEF GoRead, GoTypes, Remaining, Content
  <2>6. UNCHANGED saved
    BY <1>23 DEF GoRead
  <2>. QED
    BY <2>2, <2>3, <2>4, <2>5, <2>6 DEF TypeOK
<1>24. ASSUME NEW f \in Frames, GoStore(f) PROVE TypeOK'
  <2>1. gtile[f] \in Providers /\ grd[f] \in OwnReaders(f) /\ content[grd[f]] \in Content
    BY <1>24, ImageType DEF GoStore, GoInv, GoAt, OwnReaders
  <2>2. f[1] \in Requests /\ [pos EXCEPT ![grd[f]] = 2] \in [Readers -> 0..2]
    BY <2>1, FrameOf, OwnReadersType DEF TypeOK, ReadTypes
  <2>3. Collect(f[1], [pos EXCEPT ![grd[f]] = 2])
    BY <1>24 DEF GoStore, GoEnd
  <2>4. ProcTypes'
    BY <1>24 DEF GoStore, GoEnd, ProcTypes
  <2>5. ReqTypes'
    BY <1>24 DEF GoStore, GoEnd, ReqTypes
  <2>6. ReadTypes'
    BY <2>2, <2>3, Collected DEF ReadTypes
  <2>7. GoTypes'
    BY <1>24, <2>1, <2>2, <2>3 DEF GoStore, GoEnd, GoTypes
  <2>8. saved' \subseteq Providers \X Content
    BY <1>24, <2>1 DEF GoStore, TypeOK, GoTypes, Content
  <2>. QED
    BY <2>4, <2>5, <2>6, <2>7, <2>8 DEF TypeOK
<1>25. ASSUME Restart PROVE TypeOK'
  BY <1>25 DEF Restart, ProcTypes, ReqTypes, ReadTypes, GoTypes
<1>26. ASSUME UNCHANGED vars PROVE TypeOK'
  BY <1>26 DEF vars, ProcTypes, ReqTypes, ReadTypes, GoTypes
<1>. QED
  BY <1>1, <1>2, <1>3, <1>4, <1>5, <1>6, <1>7, <1>8, <1>9, <1>10, <1>11,
     <1>12, <1>13, <1>14, <1>15, <1>16, <1>17, <1>18, <1>19, <1>20, <1>21,
     <1>22, <1>23, <1>24, <1>25, <1>26 DEF Next, Work, GoWork

\* The reader in hand keeps its image, whatever the others do.
LEMMA HandStep ==
  ASSUME TypeOK, StackInv, HandInv, GoInv, SavedInv, [Next]_vars
  PROVE  HandInv'
<1>. USE DEF TypeOK, procVars, reqVars, readVars, goVars
<1>1. ASSUME NEW r \in Requests, BadRequest(r) PROVE HandInv'
  <2>1. \A o \in Requests \ {r} : Rests(o)
    BY <1>1 DEF BadRequest, Free, Rests, KeepsReaders, KeepsMade, Made,
       ReadTypes, ReqTypes
  <2>2. HandAt(r)'
    BY <1>1 DEF BadRequest, Free, HandAt, Holds, ReqTypes
  <2>. QED
    BY <2>1, <2>2, HandRests DEF HandInv
<1>2. ASSUME NEW r \in Requests, NEW p \in Providers, Request(r, p) PROVE HandInv'
  <2>1. \A o \in Requests \ {r} : Rests(o)
    BY <1>2 DEF Request, Free, Goto, Rests, KeepsReaders, KeepsMade, Made,
       ReadTypes, ReqTypes
  <2>2. HandAt(r)'
    BY <1>2 DEF Request, Free, Goto, HandAt, Holds, ReqTypes
  <2>. QED
    BY <2>1, <2>2, HandRests DEF HandInv
<1>3. ASSUME NEW r \in Requests, CacheHit(r) PROVE HandInv'
  <2>1. PICK k \in {"got", "mem"}, c \in ImagesOf[Top(r)], place \in {"read", "return"} :
          Hand(r, k, c, place)
    BY <1>3 DEF CacheHit, HitAmong, SavedInv
  <2>2. pc[r] # "idle" /\ var' = var
    BY <1>3 DEF CacheHit, HitAmong, Hand, Goto
  <2>3. <<Frame(r), k>> \in Readers /\ Frame(r)[1] = r
    BY <2>2, FrameAt
  <2>4. \A o \in Requests \ {r} : Rests(o)
    BY <2>1, <2>2, <2>3 DEF Hand, Goto, Rests, KeepsReaders, KeepsMade,
       Made, ReadTypes, ReqTypes
  <2>5. pc'[r] = place /\ rd'[r] = <<Frame(r), k>> /\ Top(r)' = Top(r)
    BY <2>1 DEF Hand, Goto, ReqTypes, Top
  <2>6. content'[<<Frame(r), k>>] = c
    BY <2>1, <2>3 DEF Hand, ReadTypes
  <2>7. HandAt(r)'
    BY <2>1, <2>3, <2>5, <2>6 DEF HandAt, Holds
  <2>. QED
    BY <2>4, <2>7, HandRests DEF HandInv
<1>4. ASSUME NEW r \in Requests, CacheMiss(r) PROVE HandInv'
  <2>1. \A o \in Requests \ {r} : Rests(o)
    BY <1>4 DEF CacheMiss, Goto, Rests, KeepsReaders, KeepsMade, Made,
       ReadTypes, ReqTypes
  <2>2. HandAt(r)'
    BY <1>4 DEF CacheMiss, Goto, HandAt, Holds, ReqTypes
  <2>. QED
    BY <2>1, <2>2, HandRests DEF HandInv
<1>5. ASSUME NEW r \in Requests, ProviderTile(r) PROVE HandInv'
  <2>1. PICK k \in {"got", "mem"}, c \in ImagesOf[Top(r)], place \in {"read", "return"} :
          Hand(r, k, c, place)
    BY <1>5, FrameAt, OwnImage DEF ProviderTile, Image
  <2>2. pc[r] # "idle" /\ var' = var
    BY <1>5 DEF ProviderTile, Hand, Goto
  <2>3. <<Frame(r), k>> \in Readers /\ Frame(r)[1] = r
    BY <2>2, FrameAt
  <2>4. \A o \in Requests \ {r} : Rests(o)
    BY <2>1, <2>2, <2>3 DEF Hand, Goto, Rests, KeepsReaders, KeepsMade,
       Made, ReadTypes, ReqTypes
  <2>5. pc'[r] = place /\ rd'[r] = <<Frame(r), k>> /\ Top(r)' = Top(r)
    BY <2>1 DEF Hand, Goto, ReqTypes, Top
  <2>6. content'[<<Frame(r), k>>] = c
    BY <2>1, <2>3 DEF Hand, ReadTypes
  <2>7. HandAt(r)'
    BY <2>1, <2>3, <2>5, <2>6 DEF HandAt, Holds
  <2>. QED
    BY <2>4, <2>7, HandRests DEF HandInv
<1>6. ASSUME NEW r \in Requests, ProviderError(r) PROVE HandInv'
  <2>1. Fail(r)
    BY <1>6 DEF ProviderError
  <2>2. /\ \A o \in Requests \ {r} : Rests(o)
        /\ pc'[r] = "idle"
    BY <2>1, FailType DEF ReqTypes
  <2>3. HandAt(r)'
    BY <2>2 DEF HandAt, Holds
  <2>. QED
    BY <2>2, <2>3, HandRests DEF HandInv
<1>7. ASSUME NEW r \in Requests, ProviderPanic(r) PROVE HandInv'
  <2>1. Fail(r)
    BY <1>7 DEF ProviderPanic
  <2>2. /\ \A o \in Requests \ {r} : Rests(o)
        /\ pc'[r] = "idle"
    BY <2>1, FailType DEF ReqTypes
  <2>3. HandAt(r)'
    BY <2>2 DEF HandAt, Holds
  <2>. QED
    BY <2>2, <2>3, HandRests DEF HandInv
<1>8. ASSUME NEW r \in Requests, NoFallback(r) PROVE HandInv'
  <2>1. PICK k \in {"got", "mem"}, c \in ImagesOf[Top(r)], place \in {"read", "return"} :
          Hand(r, k, c, place)
    BY <1>8, FrameAt, EmptyImage DEF NoFallback
  <2>2. pc[r] # "idle" /\ var' = var
    BY <1>8 DEF NoFallback, Hand, Goto
  <2>3. <<Frame(r), k>> \in Readers /\ Frame(r)[1] = r
    BY <2>2, FrameAt
  <2>4. \A o \in Requests \ {r} : Rests(o)
    BY <2>1, <2>2, <2>3 DEF Hand, Goto, Rests, KeepsReaders, KeepsMade,
       Made, ReadTypes, ReqTypes
  <2>5. pc'[r] = place /\ rd'[r] = <<Frame(r), k>> /\ Top(r)' = Top(r)
    BY <2>1 DEF Hand, Goto, ReqTypes, Top
  <2>6. content'[<<Frame(r), k>>] = c
    BY <2>1, <2>3 DEF Hand, ReadTypes
  <2>7. HandAt(r)'
    BY <2>1, <2>3, <2>5, <2>6 DEF HandAt, Holds
  <2>. QED
    BY <2>4, <2>7, HandRests DEF HandInv
<1>9. ASSUME NEW r \in Requests, CallFallback(r) PROVE HandInv'
  <2>1. \A o \in Requests \ {r} : Rests(o)
    BY <1>9 DEF CallFallback, Goto, Rests, KeepsReaders, KeepsMade,
       Made, ReadTypes, ReqTypes
  <2>2. HandAt(r)'
    BY <1>9 DEF CallFallback, Goto, HandAt, Holds, ReqTypes
  <2>. QED
    BY <2>1, <2>2, HandRests DEF HandInv
<1>10. ASSUME NEW r \in Requests, ReturnUnread(r) PROVE HandInv'
  <2>1. \A o \in Requests \ {r} : Rests(o)
    BY <1>10 DEF ReturnUnread, Goto, Rests, KeepsReaders, KeepsMade, Made,
       ReadTypes, ReqTypes
  <2>2. HandAt(r)'
    BY <1>10 DEF ReturnUnread, Goto, HandInv, HandAt, Holds, Top, ReqTypes
  <2>. QED
    BY <2>1, <2>2, HandRests DEF HandInv
<1>11. ASSUME NEW r \in Requests, ReadSome(r) PROVE HandInv'
  <2>1. \A o \in Requests \ {r} : Rests(o)
    BY <1>11 DEF ReadSome, ReadBefore, Rests, KeepsReaders, KeepsMade, Made,
       ReadTypes, ReqTypes
  <2>2. HandAt(r)'
    BY <1>11 DEF ReadSome, ReadBefore, HandInv, HandAt, Holds, Top, ReqTypes
  <2>. QED
    BY <2>1, <2>2, HandRests DEF HandInv
<1>12. ASSUME NEW r \in Requests, ReadError(r) PROVE HandInv'
  <2>1. Fail(r)
    BY <1>12 DEF ReadError
  <2>2. /\ \A o \in Requests \ {r} : Rests(o)
        /\ pc'[r] = "idle"
    BY <2>1, FailType DEF ReqTypes
  <2>3. HandAt(r)'
    BY <2>2 DEF HandAt, Holds
  <2>. QED
    BY <2>2, <2>3, HandRests DEF HandInv
<1>13. ASSUME NEW r \in Requests, ReadDone(r) PROVE HandInv'
  <2>. DEFINE f == Frame(r)
              c == [src |-> content[rd[r]].src, parts |-> buf[r]]
  <2>1. /\ pc[r] = "read" /\ pc' = [pc EXCEPT ![r] = "make"]
        /\ content' = [content EXCEPT ![<<f, "own">>] = c, ![<<f, "save">>] = c]
        /\ UNCHANGED <<stack, rd, var>>
    BY <1>13 DEF ReadDone, ReadUpTo, Goto
  <2>2. c \in ImagesOf[Top(r)]
    BY <2>1, FrameAt, PieceOf DEF HandInv, HandAt, Holds, ReqTypes
  <2>3. OwnReaders(f) \subseteq Readers /\ f[1] = r
    BY <2>1, FrameAt, OwnReadersType
  <2>. HIDE DEF c
  <2>4. \A o \in Requests \ {r} : Rests(o)
    BY <2>1, <2>3 DEF Rests, KeepsReaders, KeepsMade, Made, ReadTypes,
       ReqTypes, OwnReaders
  <2>5. \A x \in OwnReaders(f) : content'[x] = c
    BY <2>1, <2>3 DEF OwnReaders, ReadTypes
  <2>6. Frame(r)' = f /\ Top(r)' = Top(r) /\ pc'[r] = "make"
    BY <2>1 DEF Frame, Top, ReqTypes
  <2>7. HandAt(r)'
    BY <2>2, <2>5, <2>6 DEF HandAt, Holds, OwnReaders
  <2>. QED
    BY <2>4, <2>7, HandRests DEF HandInv
<1>14. ASSUME NEW r \in Requests, MakeReader(r) PROVE HandInv'
  <2>1. Frame(r) \in Frames /\ Frame(r)[1] = r
    BY <1>14, FrameAt DEF MakeReader
  <2>2. \A o \in Requests \ {r} : Rests(o)
    BY <1>14, <2>1 DEF MakeReader, Goto, Rests, KeepsReaders, KeepsMade,
       Made, ReadTypes, ReqTypes
  <2>3. Frame(r)' = Frame(r) /\ Top(r)' = Top(r) /\ pc'[r] = "load" /\ Made(Frame(r))'
    BY <1>14, <2>1 DEF MakeReader, Goto, Frame, Top, ReqTypes, ReadTypes,
       Made
  <2>4. HandAt(r)'
    BY <1>14, <2>3 DEF MakeReader, HandInv, HandAt, Holds, OwnReaders
  <2>. QED
    BY <2>2, <2>4, HandRests DEF HandInv
<1>15. ASSUME NEW r \in Requests, LoadReader(r) PROVE HandInv'
  <2>1. Frame(r) \in Frames /\ Frame(r)[1] = r
    BY <1>15, FrameAt DEF LoadReader
  <2>2. \A o \in Requests \ {r} : Rests(o)
    BY <1>15 DEF LoadReader, Goto, Rests, KeepsReaders, KeepsMade, Made,
       ReadTypes, ReqTypes
  <2>3. <<Frame(r), var[Frame(r)]>> \in OwnReaders(Frame(r))
    BY <1>15 DEF LoadReader, HandInv, HandAt, Made, OwnReaders
  <2>4. Top(r)' = Top(r) /\ pc'[r] = "return" /\ rd'[r] = <<Frame(r), var[Frame(r)]>>
    BY <1>15 DEF LoadReader, Goto, Top, ReqTypes
  <2>5. HandAt(r)'
    BY <1>15, <2>1, <2>3, <2>4, OwnReadersType DEF LoadReader, HandInv,
       HandAt, Holds
  <2>. QED
    BY <2>2, <2>5, HandRests DEF HandInv
<1>16. ASSUME NEW r \in Requests, ReturnInner(r) PROVE HandInv'
  <2>. DEFINE n == Len(stack[r]) - 1
  <2>1. /\ stack' = [stack EXCEPT ![r] = SubSeq(stack[r], 1, n)]
        /\ pc[r] = "return" /\ pc' = [pc EXCEPT ![r] = "read"] /\ n > 0
        /\ UNCHANGED <<rd, content, var>>
    BY <1>16 DEF ReturnInner, Goto
  <2>2. \A o \in Requests \ {r} : Rests(o)
    BY <2>1 DEF Rests, KeepsReaders, KeepsMade, Made, ReadTypes, ReqTypes
  <2>3. stack[r] \in Seq(Providers) /\ n \in 1..(Len(stack[r]) - 1)
    BY <2>1 DEF ReqTypes
  <2>4. stack[r][n + 1] \in Behind(stack[r][n]) /\ stack[r][n + 1] = Top(r)
    BY <2>3 DEF StackInv, Top
  <2>5. stack[r][n] \in Providers
    BY <2>3, ElementOfSeq
  <2>6. stack'[r] = SubSeq(stack[r], 1, n) /\ pc'[r] = "read"
    BY <2>1 DEF ReqTypes
  <2>. HIDE DEF n, TypeOK
  <2>7. Top(r)' = stack[r][n]
    BY <2>3, <2>6, Shorter DEF Top
  <2>8. rd[r] \in Readers /\ rd[r][1][1] = r /\ content[rd[r]] \in ImagesOf[Top(r)]
    BY <2>1 DEF HandInv, HandAt, Holds
  <2>9. content[rd[r]] \in ImagesOf[stack[r][n]]
    BY <2>4, <2>5, <2>8, FallbackImage
  <2>10. HandAt(r)'
    BY <2>1, <2>6, <2>7, <2>8, <2>9 DEF HandAt, Holds
  <2>. QED
    BY <2>2, <2>10, HandRests DEF HandInv
<1>17. ASSUME NEW r \in Requests, WorkerDone(r) PROVE HandInv'
  <2>1. Collect(r, pos)
    BY <1>17 DEF WorkerDone
  <2>2. pos \in [Readers -> 0..2]
    BY DEF ReadTypes
  <2>3. \A o \in Requests \ {r} : Rests(o)
    BY <1>17, <2>1, <2>2, Collected DEF WorkerDone, Goto, Rests, ReqTypes
  <2>4. HandAt(r)'
    BY <1>17 DEF WorkerDone, Goto, HandAt, Holds, ReqTypes
  <2>. QED
    BY <2>3, <2>4, HandRests DEF HandInv
<1>18. ASSUME NEW r \in Requests, WriteBody(r) PROVE HandInv'
  <2>1. \A o \in Requests \ {r} : Rests(o)
    BY <1>18 DEF WriteBody, Goto, Rests, KeepsReaders, KeepsMade, Made,
       ReadTypes, ReqTypes
  <2>2. HandAt(r)'
    BY <1>18 DEF WriteBody, Goto, HandInv, HandAt, Holds, Top, ReqTypes
  <2>. QED
    BY <2>1, <2>2, HandRests DEF HandInv
<1>19. ASSUME NEW r \in Requests, HandlerDone(r) PROVE HandInv'
  <2>1. Collect(r, [pos EXCEPT ![rd[r]] = 2])
    BY <1>19 DEF HandlerDone
  <2>2. [pos EXCEPT ![rd[r]] = 2] \in [Readers -> 0..2]
    BY <1>19 DEF HandlerDone, HandInv, HandAt, Holds, ReadTypes
  <2>3. \A o \in Requests \ {r} : Rests(o)
    BY <1>19, <2>1, <2>2, Collected DEF HandlerDone, Goto, Rests, ReqTypes
  <2>4. HandAt(r)'
    BY <1>19 DEF HandlerDone, Goto, HandAt, Holds, ReqTypes
  <2>. QED
    BY <2>3, <2>4, HandRests DEF HandInv
<1>20. ASSUME NEW f \in Frames, GoMake(f) PROVE HandInv'
  <2>1. \A o \in Requests : Rests(o)
    BY <1>20 DEF GoMake, Rests, KeepsReaders, KeepsMade, Made, ReadTypes,
       ReqTypes
  <2>. QED
    BY <2>1, HandRests DEF HandInv
<1>21. ASSUME NEW f \in Frames, GoLoad(f) PROVE HandInv'
  <2>1. \A o \in Requests : Rests(o)
    BY <1>21 DEF GoLoad, Rests, KeepsReaders, KeepsMade, Made, ReadTypes,
       ReqTypes
  <2>. QED
    BY <2>1, HandRests DEF HandInv
<1>22. ASSUME NEW f \in Frames, GoSkip(f) PROVE HandInv'
  <2>1. Collect(f[1], pos) /\ UNCHANGED <<pc, stack, rd>>
    BY <1>22 DEF GoSkip, GoEnd
  <2>2. pos \in [Readers -> 0..2]
    BY DEF ReadTypes
  <2>3. \A o \in Requests : pc[o] # "idle" => Rests(o)
    BY <2>1, <2>2, FrameOf, Collected DEF Rests
  <2>4. \A o \in Requests : pc[o] = "idle" => HandAt(o)'
    BY <2>1 DEF HandAt, Holds
  <2>. QED
    BY <2>3, <2>4, HandRests DEF HandInv
<1>23. ASSUME NEW f \in Frames, GoRead(f) PROVE HandInv'
  <2>1. \A o \in Requests : Rests(o)
    BY <1>23 DEF GoRead, Rests, KeepsReaders, KeepsMade, Made, ReadTypes,
       ReqTypes
  <2>. QED
    BY <2>1, HandRests DEF HandInv
<1>24. ASSUME NEW f \in Frames, GoStore(f) PROVE HandInv'
  <2>1. Collect(f[1], [pos EXCEPT ![grd[f]] = 2]) /\ UNCHANGED <<pc, stack, rd>>
    BY <1>24 DEF GoStore, GoEnd
  <2>2. [pos EXCEPT ![grd[f]] = 2] \in [Readers -> 0..2]
    BY <1>24, OwnReadersType DEF GoStore, GoInv, GoAt, ReadTypes
  <2>3. \A o \in Requests : pc[o] # "idle" => Rests(o)
    BY <2>1, <2>2, FrameOf, Collected DEF Rests
  <2>4. \A o \in Requests : pc[o] = "idle" => HandAt(o)'
    BY <2>1 DEF HandAt, Holds
  <2>. QED
    BY <2>3, <2>4, HandRests DEF HandInv
<1>25. ASSUME Restart PROVE HandInv'
  BY <1>25 DEF Restart, HandInv, HandAt, Holds
<1>26. ASSUME UNCHANGED vars PROVE HandInv'
  <2>1. \A o \in Requests : Rests(o)
    BY <1>26 DEF vars, Rests, KeepsReaders, KeepsMade, Made, ReadTypes,
       ReqTypes
  <2>. QED
    BY <2>1, HandRests DEF HandInv
<1>. QED
  BY <1>1, <1>2, <1>3, <1>4, <1>5, <1>6, <1>7, <1>8, <1>9, <1>10, <1>11,
     <1>12, <1>13, <1>14, <1>15, <1>16, <1>17, <1>18, <1>19, <1>20, <1>21,
     <1>22, <1>23, <1>24, <1>25, <1>26 DEF Next, Work, GoWork

\* The readers of a goroutine keep its image, whatever the requests do.
LEMMA GoStep ==
  ASSUME TypeOK, StackInv, HandInv, GoInv, [Next]_vars
  PROVE  GoInv'
<1>. USE DEF TypeOK, procVars, reqVars, readVars, goVars
<1>1. ASSUME NEW r \in Requests, BadRequest(r) PROVE GoInv'
  <2>1. \A g \in Frames : GoRests(g)
    BY <1>1 DEF BadRequest, Free, GoRests, Made, ReadTypes
  <2>. QED
    BY <2>1, GoesOn DEF GoInv
<1>2. ASSUME NEW r \in Requests, NEW p \in Providers, Request(r, p) PROVE GoInv'
  <2>1. \A g \in Frames : GoRests(g)
    BY <1>2 DEF Request, Free, Goto, GoRests, Made, ReadTypes
  <2>. QED
    BY <2>1, GoesOn DEF GoInv
<1>3. ASSUME NEW r \in Requests, CacheHit(r) PROVE GoInv'
  <2>1. PICK k \in {"got", "mem"} : \E c : content' = [content EXCEPT ![<<Frame(r), k>>] = c]
    BY <1>3 DEF CacheHit, HitAmong, Hand, Goto
  <2>2. UNCHANGED <<var, gpc, gtile, grd>>
    BY <1>3 DEF CacheHit, HitAmong, Hand, Goto
  <2>3. \A g \in Frames : GoRests(g)
    BY <2>1, <2>2, OwnReadersType DEF OwnReaders, GoRests, Made, ReadTypes
  <2>. QED
    BY <2>3, GoesOn DEF GoInv
<1>4. ASSUME NEW r \in Requests, CacheMiss(r) PROVE GoInv'
  <2>1. \A g \in Frames : GoRests(g)
    BY <1>4 DEF CacheMiss, Goto, GoRests, Made, ReadTypes
  <2>. QED
    BY <2>1, GoesOn DEF GoInv
<1>5. ASSUME NEW r \in Requests, ProviderTile(r) PROVE GoInv'
  <2>1. PICK k \in {"got", "mem"} : \E c : content' = [content EXCEPT ![<<Frame(r), k>>] = c]
    BY <1>5 DEF ProviderTile, Hand, Goto
  <2>2. UNCHANGED <<var, gpc, gtile, grd>>
    BY <1>5 DEF ProviderTile, Hand, Goto
  <2>3. \A g \in Frames : GoRests(g)
    BY <2>1, <2>2, OwnReadersType DEF OwnReaders, GoRests, Made, ReadTypes
  <2>. QED
    BY <2>3, GoesOn DEF GoInv
<1>6. ASSUME NEW r \in Requests, ProviderError(r) PROVE GoInv'
  <2>1. Collect(r, pos) /\ UNCHANGED <<gpc, gtile, grd>>
    BY <1>6 DEF ProviderError, Fail, FailWith, Goto
  <2>2. pos \in [Readers -> 0..2]
    BY DEF ReadTypes
  <2>3. \A g \in Frames : GoRests(g)
    BY <2>1, <2>2, CollectGo DEF GoRests
  <2>. QED
    BY <2>3, GoesOn DEF GoInv
<1>7. ASSUME NEW r \in Requests, ProviderPanic(r) PROVE GoInv'
  <2>1. Collect(r, pos) /\ UNCHANGED <<gpc, gtile, grd>>
    BY <1>7 DEF ProviderPanic, Fail, FailWith, Goto
  <2>2. pos \in [Readers -> 0..2]
    BY DEF ReadTypes
  <2>3. \A g \in Frames : GoRests(g)
    BY <2>1, <2>2, CollectGo DEF GoRests
  <2>. QED
    BY <2>3, GoesOn DEF GoInv
<1>8. ASSUME NEW r \in Requests, NoFallback(r) PROVE GoInv'
  <2>1. PICK k \in {"got", "mem"} : \E c : content' = [content EXCEPT ![<<Frame(r), k>>] = c]
    BY <1>8 DEF NoFallback, Hand, Goto
  <2>2. UNCHANGED <<var, gpc, gtile, grd>>
    BY <1>8 DEF NoFallback, Hand, Goto
  <2>3. \A g \in Frames : GoRests(g)
    BY <2>1, <2>2, OwnReadersType DEF OwnReaders, GoRests, Made, ReadTypes
  <2>. QED
    BY <2>3, GoesOn DEF GoInv
<1>9. ASSUME NEW r \in Requests, CallFallback(r) PROVE GoInv'
  <2>1. \A g \in Frames : GoRests(g)
    BY <1>9 DEF CallFallback, Goto, GoRests, Made, ReadTypes
  <2>. QED
    BY <2>1, GoesOn DEF GoInv
<1>10. ASSUME NEW r \in Requests, ReturnUnread(r) PROVE GoInv'
  <2>1. \A g \in Frames : GoRests(g)
    BY <1>10 DEF ReturnUnread, Goto, GoRests, Made, ReadTypes
  <2>. QED
    BY <2>1, GoesOn DEF GoInv
<1>11. ASSUME NEW r \in Requests, ReadSome(r) PROVE GoInv'
  <2>1. \A g \in Frames : GoRests(g)
    BY <1>11 DEF ReadSome, ReadBefore, GoRests, Made, ReadTypes
  <2>. QED
    BY <2>1, GoesOn DEF GoInv
<1>12. ASSUME NEW r \in Requests, ReadError(r) PROVE GoInv'
  <2>1. Collect(r, pos) /\ UNCHANGED <<gpc, gtile, grd>>
    BY <1>12 DEF ReadError, Fail, FailWith, Goto
  <2>2. pos \in [Readers -> 0..2]
    BY DEF ReadTypes
  <2>3. \A g \in Frames : GoRests(g)
    BY <2>1, <2>2, CollectGo DEF GoRests
  <2>. QED
    BY <2>3, GoesOn DEF GoInv
<1>13. ASSUME NEW r \in Requests, ReadDone(r) PROVE GoInv'
  <2>1. PICK f \in Frames : f = Frame(r) /\ pc[r] = "read"
    BY <1>13, FrameAt DEF ReadDone, ReadUpTo
  <2>. DEFINE c == [src |-> content[rd[r]].src, parts |-> buf[r]]
  <2>2. /\ content' = [content EXCEPT ![<<f, "own">>] = c, ![<<f, "save">>] = c]
        /\ \E s \in {"make", "none"} :
             gpc' = [gpc EXCEPT ![f] = s] /\ (s = "make" => IsCached(Top(r)))
        /\ gtile' = [gtile EXCEPT ![f] = Top(r)] /\ UNCHANGED <<grd, var>>
    BY <1>13, <2>1 DEF ReadDone, ReadUpTo
  <2>3. c \in ImagesOf[Top(r)]
    BY <2>1, FrameAt, PieceOf DEF HandInv, HandAt, Holds, ReqTypes
  <2>4. OwnReaders(f) \subseteq Readers /\ Top(r) \in Providers
    BY <2>1, FrameAt, OwnReadersType
  <2>. HIDE DEF c
  <2>5. \A g \in Frames \ {f} : GoRests(g)
    BY <2>2, <2>4, OwnReadersType DEF GoRests, Made, OwnReaders, GoTypes,
       ReadTypes
  <2>6. \A x \in OwnReaders(f) : content'[x] = c
    BY <2>2, <2>4 DEF OwnReaders, ReadTypes
  <2>7. /\ gtile'[f] = Top(r) /\ gpc'[f] \in {"make", "none"}
        /\ gpc'[f] = "make" => Top(r) \notin NoCache
    BY <2>2 DEF GoTypes, IsCached
  <2>8. GoAt(f)'
    BY <2>3, <2>4, <2>6, <2>7 DEF GoAt, OwnReaders
  <2>. QED
    BY <2>5, <2>8, GoesOn DEF GoInv
<1>14. ASSUME NEW r \in Requests, MakeReader(r) PROVE GoInv'
  <2>1. \A g \in Frames : GoRests(g)
    BY <1>14 DEF MakeReader, Goto, GoRests, Made, ReadTypes
  <2>. QED
    BY <2>1, GoesOn DEF GoInv
<1>15. ASSUME NEW r \in Requests, LoadReader(r) PROVE GoInv'
  <2>1. \A g \in Frames : GoRests(g)
    BY <1>15 DEF LoadReader, Goto, GoRests, Made, ReadTypes
  <2>. QED
    BY <2>1, GoesOn DEF GoInv
<1>16. ASSUME NEW r \in Requests, ReturnInner(r) PROVE GoInv'
  <2>1. \A g \in Frames : GoRests(g)
    BY <1>16 DEF ReturnInner, Goto, GoRests, Made, ReadTypes
  <2>. QED
    BY <2>1, GoesOn DEF GoInv
<1>17. ASSUME NEW r \in Requests, WorkerDone(r) PROVE GoInv'
  <2>1. Collect(r, pos) /\ UNCHANGED <<gpc, gtile, grd>>
    BY <1>17 DEF WorkerDone
  <2>2. pos \in [Readers -> 0..2]
    BY DEF ReadTypes
  <2>3. \A g \in Frames : GoRests(g)
    BY <2>1, <2>2, CollectGo DEF GoRests
  <2>. QED
    BY <2>3, GoesOn DEF GoInv
<1>18. ASSUME NEW r \in Requests, WriteBody(r) PROVE GoInv'
  <2>1. \A g \in Frames : GoRests(g)
    BY <1>18 DEF WriteBody, Goto, GoRests, Made, ReadTypes
  <2>. QED
    BY <2>1, GoesOn DEF GoInv
<1>19. ASSUME NEW r \in Requests, HandlerDone(r) PROVE GoInv'
  <2>1. Collect(r, [pos EXCEPT ![rd[r]] = 2]) /\ UNCHANGED <<gpc, gtile, grd>>
    BY <1>19 DEF HandlerDone
  <2>2. [pos EXCEPT ![rd[r]] = 2] \in [Readers -> 0..2]
    BY <1>19 DEF HandlerDone, HandInv, HandAt, Holds, ReadTypes
  <2>3. \A g \in Frames : GoRests(g)
    BY <2>1, <2>2, CollectGo DEF GoRests
  <2>. QED
    BY <2>3, GoesOn DEF GoInv
<1>20. ASSUME NEW f \in Frames, GoMake(f) PROVE GoInv'
  <2>1. \A g \in Frames \ {f} : GoRests(g)
    BY <1>20 DEF GoMake, GoRests, Made, ReadTypes, GoTypes
  <2>2. GoAt(f)'
    BY <1>20 DEF GoMake, GoInv, GoAt, Made, OwnReaders, ReadTypes, GoTypes
  <2>. QED
    BY <2>1, <2>2, GoesOn DEF GoInv
<1>21. ASSUME NEW f \in Frames, GoLoad(f) PROVE GoInv'
  <2>1. \A g \in Frames \ {f} : GoRests(g)
    BY <1>21 DEF GoLoad, GoRests, Made, ReadTypes, GoTypes
  <2>2. GoAt(f)'
    BY <1>21 DEF GoLoad, GoInv, GoAt, Made, OwnReaders, GoTypes
  <2>. QED
    BY <2>1, <2>2, GoesOn DEF GoInv
<1>22. ASSUME NEW f \in Frames, GoSkip(f) PROVE GoInv'
  <2>1. /\ Collect(f[1], pos) /\ f[1] \in Requests
        /\ gpc' = [gpc EXCEPT ![f] = "none"]
        /\ gtile' = [gtile EXCEPT ![f] = None] /\ grd' = [grd EXCEPT ![f] = None]
    BY <1>22, FrameOf DEF GoSkip, GoEnd
  <2>2. pos \in [Readers -> 0..2]
    BY DEF ReadTypes
  <2>3. \A g \in Frames \ {f} : GoRests(g)
    BY <2>1, <2>2, CollectGo DEF GoRests, GoTypes
  <2>4. GoAt(f)'
    BY <2>1 DEF GoAt, GoTypes
  <2>. QED
    BY <2>3, <2>4, GoesOn DEF GoInv
<1>23. ASSUME NEW f \in Frames, GoRead(f) PROVE GoInv'
  <2>1. \A g \in Frames \ {f} : GoRests(g)
    BY <1>23 DEF GoRead, GoRests, Made, ReadTypes, GoTypes
  <2>2. GoAt(f)'
    BY <1>23 DEF GoRead, GoInv, GoAt, Made, OwnReaders, GoTypes
  <2>. QED
    BY <2>1, <2>2, GoesOn DEF GoInv
<1>24. ASSUME NEW f \in Frames, GoStore(f) PROVE GoInv'
  <2>1. /\ Collect(f[1], [pos EXCEPT ![grd[f]] = 2]) /\ f[1] \in Requests
        /\ gpc' = [gpc EXCEPT ![f] = "none"]
        /\ gtile' = [gtile EXCEPT ![f] = None] /\ grd' = [grd EXCEPT ![f] = None]
    BY <1>24, FrameOf DEF GoStore, GoEnd
  <2>2. [pos EXCEPT ![grd[f]] = 2] \in [Readers -> 0..2]
    BY <1>24, OwnReadersType DEF GoStore, GoInv, GoAt, ReadTypes
  <2>3. \A g \in Frames \ {f} : GoRests(g)
    BY <2>1, <2>2, CollectGo DEF GoRests, GoTypes
  <2>4. GoAt(f)'
    BY <2>1 DEF GoAt, GoTypes
  <2>. QED
    BY <2>3, <2>4, GoesOn DEF GoInv
<1>25. ASSUME Restart PROVE GoInv'
  BY <1>25 DEF Restart, GoInv, GoAt
<1>26. ASSUME UNCHANGED vars PROVE GoInv'
  <2>1. \A g \in Frames : GoRests(g)
    BY <1>26 DEF vars, GoRests, Made
  <2>. QED
    BY <2>1, GoesOn DEF GoInv
<1>. QED
  BY <1>1, <1>2, <1>3, <1>4, <1>5, <1>6, <1>7, <1>8, <1>9, <1>10, <1>11,
     <1>12, <1>13, <1>14, <1>15, <1>16, <1>17, <1>18, <1>19, <1>20, <1>21,
     <1>22, <1>23, <1>24, <1>25, <1>26 DEF Next, Work, GoWork

\* The invariant holds at the start.
LEMMA InitInv == Init => Inv
<1>. SUFFICES ASSUME Init PROVE Inv
  OBVIOUS
<1>. USE ConfigAssumption DEF Init
<1>1. TypeOK
  BY DEF TypeOK, ProcTypes, ReqTypes, ReadTypes, GoTypes
<1>2. StackInv
  BY DEF StackInv
<1>3. HandInv /\ GoInv /\ SavedInv
  BY DEF HandInv, HandAt, Holds, GoInv, GoAt, SavedInv
<1>. QED
  BY <1>1, <1>2, <1>3 DEF Inv

\* Every step keeps it.
LEMMA InvStep == Inv /\ [Next]_vars => Inv'
BY TypeStep, StackStep, HandStep, GoStep, SavedStep DEF Inv

\* So it always holds.
LEMMA InvHolds == Spec => []Inv
BY InitInv, InvStep, PTL DEF Spec

-----------------------------------------------------------------------------
(* The properties *)

\* Every variable keeps its range, for any configuration and any number of
\* handlers and workers.
THEOREM TypeCorrect == Spec => []TypeOK
BY InvHolds, PTL DEF Inv

\* What is saved under the name of a provider, and what is written to a client that
\* asked for it, is an image of that provider or of those behind it, however the
\* calls of FTile and the goroutines they share their readers with interleave.
THEOREM ImageIsRight == Spec => []RightImage
<1>1. Inv => RightImage
  BY DEF Inv, RightImage, SavedInv, HandInv, HandAt, Holds, StackInv, Top, Requests
<1>. QED
  BY <1>1, InvHolds, PTL

\* The cache has no entry under the name of a provider with nocache.
THEOREM NothingUnderNoCache == Spec => []NoCacheHasNoEntry
<1>1. Inv => NoCacheHasNoEntry
  BY DEF Inv, SavedInv, NoCacheHasNoEntry
<1>. QED
  BY <1>1, InvHolds, PTL

-----------------------------------------------------------------------------
(* The contract *)

\* A step that only r takes shows only r.
LEMMA Shown ==
  ASSUME TypeOK, NEW r \in Requests,
         \A o \in Requests \ {r} : stack'[o] = stack[o] /\ status'[o] = status[o] /\ answer'[o] = answer[o]
  PROVE  /\ Asked' = [Asked EXCEPT ![r] = Asked'[r]]
         /\ Reply' = [Reply EXCEPT ![r] = Reply'[r]]
<1>1. \A o \in Requests \ {r} : Asked'[o] = Asked[o]
  BY DEF Asked
<1>2. \A o \in Requests \ {r} : Reply'[o] = Reply[o]
  BY DEF Reply
<1>3. Asked' = [Asked EXCEPT ![r] = Asked'[r]]
  <2>1. DOMAIN Asked' = Requests /\ DOMAIN Asked = Requests
    BY DEF Asked
  <2>2. Asked = [o \in Requests |-> Asked[o]] /\ Asked' = [o \in Requests |-> Asked'[o]]
    BY DEF Asked
  <2>. QED
    BY <1>1, <2>1, <2>2
<1>4. Reply' = [Reply EXCEPT ![r] = Reply'[r]]
  <2>1. DOMAIN Reply' = Requests /\ DOMAIN Reply = Requests
    BY DEF Reply
  <2>2. Reply = [o \in Requests |-> Reply[o]] /\ Reply' = [o \in Requests |-> Reply'[o]]
    BY DEF Reply
  <2>. QED
    BY <1>2, <2>1, <2>2
<1>. QED
  BY <1>3, <1>4

\* A request under way is for a provider, and has no outcome yet.
LEMMA UnderWay ==
  ASSUME TypeOK, StackInv, NEW r \in Requests, pc[r] # "idle"
  PROVE  /\ Asked[r] = stack[r][1] /\ Asked[r] \in Providers /\ Asked[r] # None
         /\ Reply[r] = <<"none", None>>
<1>1. stack[r] \in Seq(Providers) /\ stack[r] # <<>> /\ 1 \in 1..Len(stack[r])
  BY ConfigAssumption DEF TypeOK, ReqTypes, StackInv, Depths
<1>2. stack[r][1] \in Providers
  BY <1>1, ElementOfSeq
<1>. QED
  BY <1>1, <1>2, ConfigAssumption DEF StackInv, Asked, Reply

\* The other calls of FTile have the same first one above them.
LEMMA FirstStays ==
  ASSUME TypeOK, StackInv, NEW r \in Requests, CallFallback(r) \/ ReturnInner(r)
  PROVE  Asked' = Asked /\ Reply' = Reply
<1>1. stack[r] \in Seq(Providers) /\ stack[r] # <<>>
  BY DEF TypeOK, ReqTypes, StackInv, CallFallback, ReturnInner
<1>2. stack'[r] # <<>> /\ stack'[r][1] = stack[r][1]
  <2>1. CASE CallFallback(r)
    <3>1. PICK q \in Providers : stack' = [stack EXCEPT ![r] = Append(stack[r], q)]
      BY <2>1 DEF CallFallback
    <3>2. stack'[r] = Append(stack[r], q)
      BY <3>1 DEF TypeOK, ReqTypes
    <3>. QED
      BY <1>1, <3>2
  <2>2. CASE ReturnInner(r)
    <3>. DEFINE n == Len(stack[r]) - 1
    <3>1. stack' = [stack EXCEPT ![r] = SubSeq(stack[r], 1, n)] /\ Len(stack[r]) > 1
      BY <2>2 DEF ReturnInner
    <3>2. stack'[r] = SubSeq(stack[r], 1, n) /\ n \in 1..(Len(stack[r]) - 1) /\ 1 \in 1..n
      BY <1>1, <3>1 DEF TypeOK, ReqTypes
    <3>. HIDE DEF n
    <3>. QED
      BY <1>1, <3>2, Shorter
  <2>. QED
    BY <2>1, <2>2
<1>3. /\ \A o \in Requests \ {r} : stack'[o] = stack[o]
      /\ status' = status /\ answer' = answer
  BY DEF CallFallback, ReturnInner, TypeOK, ReqTypes
<1>. QED
  BY <1>1, <1>2, <1>3 DEF Asked, Reply

\* Every step is one of the contract or changes nothing of what the clients and
\* the cache see.
LEMMA PromiseStep ==
  ASSUME Inv, [Next]_vars
  PROVE  [Promised!Next]_<<Asked, Reply, saved>>
<1>. USE DEF Inv, procVars, reqVars, readVars, goVars
<1>. DEFINE Stutter == UNCHANGED <<Asked, Reply, saved>>
<1>1. ASSUME NEW r \in Requests, BadRequest(r) PROVE Promised!Refuse(r)
  <2>1. /\ stack' = stack /\ saved' = saved /\ stack[r] = <<>>
        /\ status' = [status EXCEPT ![r] = "400"] /\ answer' = [answer EXCEPT ![r] = None]
    BY <1>1 DEF BadRequest, Free, StackInv
  <2>2. Reply'[r] = <<"400", None>> /\ Asked' = Asked /\ Asked[r] = None
    BY <2>1 DEF Reply, Asked, TypeOK, ReqTypes
  <2>3. Reply' = [Reply EXCEPT ![r] = Reply'[r]]
    BY <2>1, Shown DEF TypeOK, ReqTypes
  <2>. QED
    BY <2>1, <2>2, <2>3 DEF Promised!Refuse
<1>2. ASSUME NEW r \in Requests, NEW p \in Providers, Request(r, p)
      PROVE  Promised!Ask(r, p)
  <2>1. /\ stack' = [stack EXCEPT ![r] = <<p>>] /\ saved' = saved /\ stack[r] = <<>>
        /\ status' = [status EXCEPT ![r] = "none"] /\ answer' = [answer EXCEPT ![r] = None]
    BY <1>2 DEF Request, Free, StackInv
  <2>2. Reply'[r] = <<"none", None>> /\ Asked'[r] = p /\ Asked[r] = None
    BY <2>1 DEF Reply, Asked, TypeOK, ReqTypes
  <2>3. Reply' = [Reply EXCEPT ![r] = Reply'[r]] /\ Asked' = [Asked EXCEPT ![r] = Asked'[r]]
    BY <2>1, Shown DEF TypeOK, ReqTypes
  <2>. QED
    BY <2>1, <2>2, <2>3 DEF Promised!Ask, Promised!NoReply
<1>3. ASSUME NEW r \in Requests, ProviderError(r) \/ ProviderPanic(r) \/ ReadError(r)
      PROVE  Promised!Answer(r)
  <2>1. /\ stack' = [stack EXCEPT ![r] = <<>>] /\ saved' = saved /\ pc[r] # "idle"
        /\ status' = [status EXCEPT ![r] = "500"] /\ answer' = answer
    BY <1>3 DEF ProviderError, ProviderPanic, ReadError, Fail, FailWith
  <2>2. Reply'[r] = <<"500", None>> /\ Asked'[r] = None /\ Asked[r] # None
    BY <2>1, UnderWay DEF Reply, Asked, TypeOK, ReqTypes
  <2>3. Reply' = [Reply EXCEPT ![r] = Reply'[r]] /\ Asked' = [Asked EXCEPT ![r] = Asked'[r]]
    BY <2>1, Shown DEF TypeOK, ReqTypes
  <2>. QED
    BY <2>1, <2>2, <2>3 DEF Promised!Answer
<1>4. ASSUME NEW r \in Requests, WorkerDone(r) PROVE Promised!Answer(r)
  <2>1. /\ stack' = [stack EXCEPT ![r] = <<>>] /\ saved' = saved /\ pc[r] # "idle"
        /\ status' = status /\ answer' = answer
    BY <1>4 DEF WorkerDone
  <2>2. Reply[r] = <<"none", None>> /\ Reply' = Reply /\ Asked'[r] = None /\ Asked[r] # None
    BY <2>1, UnderWay DEF Reply, Asked, TypeOK, ReqTypes
  <2>3. Asked' = [Asked EXCEPT ![r] = Asked'[r]]
    BY <2>1, Shown DEF TypeOK, ReqTypes
  <2>4. Reply' = [Reply EXCEPT ![r] = <<"none", None>>]
    BY <2>2 DEF Reply
  <2>. QED
    BY <2>1, <2>2, <2>3, <2>4 DEF Promised!Answer, Promised!NoReply
<1>5. ASSUME NEW r \in Requests, HandlerDone(r) PROVE Promised!Answer(r)
  <2>. DEFINE c == [src |-> content[rd[r]].src, parts |-> buf[r]]
  <2>1. /\ stack' = [stack EXCEPT ![r] = <<>>] /\ saved' = saved /\ pc[r] = "written"
        /\ status' = [status EXCEPT ![r] = "200"] /\ answer' = [answer EXCEPT ![r] = c]
    BY <1>5 DEF HandlerDone
  <2>2. Top(r) = stack[r][1] /\ content[rd[r]] \in ImagesOf[Top(r)]
    BY <2>1 DEF StackInv, Top, HandInv, HandAt, Holds
  <2>3. c \in ImagesOf[Asked[r]]
    BY <2>1, <2>2, UnderWay, PieceOf DEF TypeOK, ReqTypes
  <2>. HIDE DEF c
  <2>4. Reply'[r] = <<"200", c>> /\ Asked'[r] = None /\ Asked[r] # None
    BY <2>1, UnderWay DEF Reply, Asked, TypeOK, ReqTypes
  <2>5. Reply' = [Reply EXCEPT ![r] = Reply'[r]] /\ Asked' = [Asked EXCEPT ![r] = Asked'[r]]
    BY <2>1, Shown DEF TypeOK, ReqTypes
  <2>. QED
    BY <2>1, <2>3, <2>4, <2>5 DEF Promised!Answer
<1>6. ASSUME NEW f \in Frames, GoStore(f)
      PROVE  Stutter \/ \E p \in Providers : \E c \in ImagesOf[p] : Promised!Store(p, c)
  <2>. DEFINE c == [src |-> content[grd[f]].src, parts |-> gbuf[f]]
  <2>1. /\ saved' \in {saved, saved \cup {<<gtile[f], c>>}} /\ gpc[f] = "store"
        /\ UNCHANGED <<stack, status, answer>>
    BY <1>6 DEF GoStore, GoEnd
  <2>2. gtile[f] \in Providers \ NoCache /\ content[grd[f]] \in ImagesOf[gtile[f]]
    BY <2>1 DEF GoInv, GoAt, OwnReaders
  <2>3. c \in ImagesOf[gtile[f]]
    BY <2>2, PieceOf DEF TypeOK, GoTypes
  <2>. HIDE DEF c
  <2>4. UNCHANGED <<Asked, Reply>>
    BY <2>1 DEF Asked, Reply
  <2>5. CASE saved' = saved
    BY <2>4, <2>5
  <2>6. CASE saved' # saved
    <3>1. saved' = saved \cup {<<gtile[f], c>>} /\ <<gtile[f], c>> \notin saved
      BY <2>1, <2>6
    <3>. QED
      BY <2>2, <2>3, <2>4, <3>1 DEF Promised!Store
  <2>. QED
    BY <2>5, <2>6
<1>7. ASSUME Restart PROVE Promised!Forget
  BY <1>7 DEF Restart, Promised!Forget, Promised!NoReply, Asked, Reply
<1>8. ASSUME NEW r \in Requests, CallFallback(r) \/ ReturnInner(r) PROVE Stutter
  BY <1>8, FirstStays DEF CallFallback, ReturnInner
<1>9. ASSUME NEW r \in Requests, CacheHit(r) \/ CacheMiss(r) PROVE Stutter
  BY <1>9 DEF CacheHit, HitAmong, Hand, CacheMiss, Asked, Reply
<1>10. ASSUME NEW r \in Requests, ProviderTile(r) \/ NoFallback(r) PROVE Stutter
  BY <1>10 DEF ProviderTile, NoFallback, Hand, Asked, Reply
<1>11. ASSUME NEW r \in Requests, ReturnUnread(r) \/ ReadSome(r) \/ ReadDone(r) PROVE Stutter
  BY <1>11 DEF ReturnUnread, ReadSome, ReadBefore, ReadDone, ReadUpTo,
       Asked, Reply
<1>12. ASSUME NEW r \in Requests, MakeReader(r) \/ LoadReader(r) \/ WriteBody(r) PROVE Stutter
  BY <1>12 DEF MakeReader, LoadReader, WriteBody, Asked, Reply
<1>13. ASSUME NEW f \in Frames, GoMake(f) \/ GoLoad(f) \/ GoSkip(f) \/ GoRead(f) PROVE Stutter
  BY <1>13 DEF GoMake, GoLoad, GoSkip, GoEnd, GoRead, Asked, Reply
<1>14. ASSUME UNCHANGED vars PROVE Stutter
  BY <1>14 DEF vars, Asked, Reply
<1>. QED
  BY <1>1, <1>2, <1>3, <1>4, <1>5, <1>6, <1>7, <1>8, <1>9, <1>10, <1>11,
     <1>12, <1>13, <1>14 DEF Next, Work, GoWork, Promised!Next

\* TileService implements ServiceContract: one outcome for each request, an error or
\* an image of the provider it named or of those behind it, and only such images in
\* the cache, for any configuration and any number of handlers and workers.
THEOREM ImplementsContract == Spec => KeepsPromise
<1>1. Init => Promised!Init
  BY DEF Init, Promised!Init, Promised!NoReply, Asked, Reply
<1>2. Inv /\ [Next]_vars => [Promised!Next]_<<Asked, Reply, saved>>
  BY PromiseStep
<1>. QED
  BY InvHolds, <1>1, <1>2, PTL DEF Spec, KeepsPromise, Promised!Spec

-----------------------------------------------------------------------------
(* The recursion of the fallbacks *)

\* Every call of FTile inside another one is for a provider that serves for the
\* other's: the call of the stack's place i leads to that of place j.
Chained ==
  \A r \in Requests : \A i, j \in 1..Len(stack[r]) :
    i <= j => ServesFor(stack[r][j], stack[r][i])

\* What serves for p has fallbacks that serve for p.
LEMMA ServesOn ==
  ASSUME NEW p \in Providers, NEW q \in Providers, ServesFor(q, p), NEW o \in Behind(q)
  PROVE  ServesFor(o, p)
BY DEF ServesFor

\* A call further in is for a fallback of the innermost provider so far.
LEMMA ChainStep ==
  ASSUME TypeOK, StackInv, Chained, [Next]_vars
  PROVE  Chained'
<1>. USE DEF TypeOK, ReqTypes, procVars, reqVars, readVars, goVars
<1>1. ASSUME UNCHANGED stack PROVE Chained'
  BY <1>1 DEF Chained
<1>2. ASSUME NEW r \in Requests, stack' = [stack EXCEPT ![r] = <<>>]
      PROVE  Chained'
  BY <1>2 DEF Chained
<1>3. ASSUME NEW r \in Requests, NEW p \in Providers, Request(r, p) PROVE Chained'
  BY <1>3, ServesItself DEF Request, Chained
<1>4. ASSUME NEW r \in Requests, CallFallback(r) PROVE Chained'
  <2>. DEFINE n == Len(stack[r])
              q == Fallback[Top(r)]
              s == Append(stack[r], q)
  <2>1. stack[r] \in Seq(Providers) /\ n \in Nat \ {0} /\ n \in 1..n
    BY <1>4, ConfigAssumption DEF CallFallback, StackInv, Depths
  <2>2. stack' = [stack EXCEPT ![r] = s] /\ q \in Behind(Top(r))
    BY <1>4, FrameAt DEF CallFallback, Behind
  <2>3. Top(r) \in Providers /\ q \in Providers /\ Top(r) = stack[r][n]
    BY <2>1, <2>2, ElementOfSeq DEF Behind, Top
  <2>4. /\ Len(s) = n + 1 /\ s[n + 1] = q
        /\ \A i \in 1..n : s[i] = stack[r][i] /\ stack[r][i] \in Providers
    BY <2>1, <2>3, ElementOfSeq
  <2>5. \A i \in 1..n : ServesFor(q, stack[r][i])
    <3>1. \A i \in 1..n : ServesFor(stack[r][n], stack[r][i])
      BY <2>1 DEF Chained
    <3>. QED
      BY <2>2, <2>3, <2>4, <3>1, ServesOn
  <2>6. \A i, j \in 1..n : i <= j => ServesFor(stack[r][j], stack[r][i])
    BY DEF Chained
  <2>7. stack'[r] = s /\ \A o \in Requests \ {r} : stack'[o] = stack[o]
    BY <2>2
  <2>8. ServesFor(q, q)
    BY <2>3, ServesItself
  <2>. HIDE DEF s, n, q, TypeOK, ReqTypes
  <2>9. \A i, j \in 1..Len(s) : i <= j => ServesFor(s[j], s[i])
    <3>. SUFFICES ASSUME NEW i \in 1..Len(s), NEW j \in 1..Len(s), i <= j
                  PROVE  ServesFor(s[j], s[i])
      OBVIOUS
    <3>1. \/ i = n + 1 /\ j = n + 1
          \/ i \in 1..n /\ j = n + 1
          \/ i \in 1..n /\ j \in 1..n
      BY <2>1, <2>4
    <3>2. CASE i = n + 1 /\ j = n + 1
      BY <2>4, <2>8, <3>2
    <3>3. CASE i \in 1..n /\ j = n + 1
      BY <2>4, <2>5, <3>3
    <3>4. CASE i \in 1..n /\ j \in 1..n
      BY <2>4, <2>6, <3>4
    <3>. QED
      BY <3>1, <3>2, <3>3, <3>4
  <2>. QED
    BY <2>7, <2>9 DEF Chained
<1>5. ASSUME NEW r \in Requests, ReturnInner(r) PROVE Chained'
  <2>. DEFINE n == Len(stack[r]) - 1
              s == SubSeq(stack[r], 1, n)
  <2>1. stack' = [stack EXCEPT ![r] = s] /\ stack[r] \in Seq(Providers)
    BY <1>5 DEF ReturnInner
  <2>2. n \in 1..(Len(stack[r]) - 1)
    BY <1>5 DEF ReturnInner
  <2>3. stack'[r] = s /\ \A o \in Requests \ {r} : stack'[o] = stack[o]
    BY <2>1
  <2>4. Len(s) = n /\ \A i \in 1..n : s[i] = stack[r][i]
    BY <2>1, <2>2, Shorter
  <2>5. \A i, j \in 1..Len(stack[r]) : i <= j => ServesFor(stack[r][j], stack[r][i])
    BY DEF Chained
  <2>. HIDE DEF s, n, TypeOK, ReqTypes
  <2>6. \A i, j \in 1..Len(s) : i <= j => ServesFor(s[j], s[i])
    <3>. SUFFICES ASSUME NEW i \in 1..Len(s), NEW j \in 1..Len(s), i <= j
                  PROVE  ServesFor(s[j], s[i])
      OBVIOUS
    <3>1. i \in 1..n /\ j \in 1..n
      BY <2>4
    <3>2. i \in 1..Len(stack[r]) /\ j \in 1..Len(stack[r])
      BY <2>1, <2>2, <3>1, LenProperties
    <3>. QED
      BY <2>4, <2>5, <3>1, <3>2
  <2>. QED
    BY <2>3, <2>6 DEF Chained
<1>6. ASSUME Restart PROVE Chained'
  BY <1>6 DEF Restart, Chained
<1>7. ASSUME NEW r \in Requests, BadRequest(r) \/ CacheHit(r) \/ CacheMiss(r)
      PROVE  Chained'
  BY <1>7, <1>1 DEF BadRequest, CacheHit, HitAmong, Hand, CacheMiss
<1>8. ASSUME NEW r \in Requests, ProviderTile(r) \/ NoFallback(r)
      PROVE  Chained'
  BY <1>8, <1>1 DEF ProviderTile, NoFallback, Hand
<1>9. ASSUME NEW r \in Requests, ProviderError(r) \/ ProviderPanic(r) \/ ReadError(r)
      PROVE  Chained'
  BY <1>9, <1>2 DEF ProviderError, ProviderPanic, ReadError, Fail,
       FailWith
<1>10. ASSUME NEW r \in Requests, ReturnUnread(r) \/ ReadSome(r) \/ ReadDone(r)
      PROVE  Chained'
  BY <1>10, <1>1 DEF ReturnUnread, ReadSome, ReadBefore, ReadDone,
       ReadUpTo
<1>11. ASSUME NEW r \in Requests, MakeReader(r) \/ LoadReader(r) \/ WriteBody(r)
      PROVE  Chained'
  BY <1>11, <1>1 DEF MakeReader, LoadReader, WriteBody
<1>12. ASSUME NEW r \in Requests, WorkerDone(r) \/ HandlerDone(r)
      PROVE  Chained'
  BY <1>12, <1>2 DEF WorkerDone, HandlerDone
<1>13. ASSUME NEW f \in Frames, GoWork(f)
      PROVE  Chained'
  BY <1>13, <1>1 DEF GoWork, GoMake, GoLoad, GoSkip, GoEnd, GoRead,
       GoStore
<1>. QED
  BY <1>1, <1>2, <1>3, <1>4, <1>5, <1>6, <1>7, <1>8, <1>9, <1>10, <1>11,
     <1>12, <1>13 DEF Next, Work, vars

\* The calls inside one another always form such a chain.
LEMMA ChainHolds == Spec => []Chained
<1>1. Init => Chained
  BY DEF Init, Chained
<1>2. Inv /\ Chained /\ [Next]_vars => Chained'
  BY ChainStep DEF Inv
<1>. QED
  BY InvHolds, <1>1, <1>2, PTL DEF Spec

\* No provider serves for one that is behind it: the fallbacks of the configuration
\* do not lead back to where they started.
NoCycle == \A p \in Providers : \A q \in Behind(p) : ~ServesFor(p, q)

\* In a chain that does not lead back each provider is asked once.
LEMMA NoneAgain ==
  ASSUME Inv, Chained, NoCycle
  PROVE  NoReentry
<1>. SUFFICES ASSUME NEW r \in Requests,
                     NEW i \in 1..Len(stack[r]), NEW j \in 1..Len(stack[r]), i < j
              PROVE  stack[r][i] # stack[r][j]
  <2>1. \A r \in Requests : stack[r] \in Seq(Providers)
    BY DEF Inv, TypeOK, ReqTypes
  <2>2. \A r \in Requests : DOMAIN stack[r] = 1..Len(stack[r]) /\ Len(stack[r]) \in Nat
    BY <2>1, LenProperties
  <2>. QED
    BY <2>2 DEF NoReentry
<1>1. stack[r] \in Seq(Providers) /\ Len(stack[r]) \in Nat
  BY DEF Inv, TypeOK, ReqTypes
<1>2. i + 1 \in 1..Len(stack[r]) /\ i + 1 <= j /\ i \in 1..(Len(stack[r]) - 1)
  BY <1>1
<1>3. stack[r][i] \in Providers
  BY <1>1, ElementOfSeq
<1>4. stack[r][i + 1] \in Behind(stack[r][i]) /\ ServesFor(stack[r][j], stack[r][i + 1])
  BY <1>2 DEF Inv, StackInv, Chained
<1>. QED
  BY <1>3, <1>4 DEF NoCycle

\* If the fallbacks form no cycle, no call of FTile is ever inside one for the same
\* provider: the recursion ends, however long the chain.
THEOREM RecursionEnds == ASSUME NoCycle PROVE Spec => []NoReentry
<1>1. Inv /\ Chained => NoReentry
  BY NoneAgain
<1>. QED
  BY <1>1, InvHolds, ChainHolds, PTL

\* Then no request ever has more calls of FTile inside one another than there are
\* providers: MaxDepth cuts nothing off where it is as large.
DepthInv == \A r \in Requests : Len(stack[r]) <= Cardinality(Providers)

THEOREM DepthBounded ==
  ASSUME NoCycle, IsFiniteSet(Providers)
  PROVE  Spec => []DepthInv
<1>1. Inv /\ NoReentry => DepthInv
  <2>. SUFFICES ASSUME Inv, NoReentry, NEW r \in Requests
                PROVE  Len(stack[r]) <= Cardinality(Providers)
    BY DEF DepthInv
  <2>1. stack[r] \in Seq(Providers)
    BY DEF Inv, TypeOK, ReqTypes
  <2>2. PICK n \in Nat : n = Len(stack[r])
    BY <2>1
  <2>3. stack[r] \in [1..n -> Providers] /\ DOMAIN stack[r] = 1..n
    BY <2>1, <2>2, LenProperties
  <2>4. stack[r] \in Injection(1..n, Providers)
    BY <2>3 DEF NoReentry, Injection, IsInjective
  <2>5. Cardinality(1..n) <= Cardinality(Providers)
    BY <2>4, FS_Injection
  <2>6. Cardinality(1..n) = n
    BY FS_Interval
  <2>. QED
    BY <2>2, <2>5, <2>6
<1>. QED
  BY <1>1, RecursionEnds, InvHolds, PTL

-----------------------------------------------------------------------------
(* What a configuration promises, and the fallbacks keep *)

\* A set of providers whose fallbacks are all in it.
Closed(S) == S \subseteq Providers /\ \A p \in S : Behind(p) \subseteq S

\* What serves for a provider of such a set is in it.
LEMMA StaysIn ==
  ASSUME NEW S, Closed(S), NEW p \in S, NEW q, ServesFor(q, p)
  PROVE  q \in S
BY DEF Closed, ServesFor

\* What a worker works on is prefetchable, by the provider it was listed for.
WorkersInv ==
  \A r \in Workers : stack[r] # <<>> => IsPrefetchable(stack[r][1])

\* A call goes on for the provider it was made for, and the cache is configured once.
LEMMA WorkersStep ==
  ASSUME TypeOK, StackInv, WorkersInv, [Next]_vars
  PROVE  WorkersInv'
<1>. USE DEF procVars, reqVars, readVars, goVars, IsPrefetchable, Requests
<1>1. ASSUME UNCHANGED <<active, stack>> PROVE WorkersInv'
  BY <1>1 DEF WorkersInv
<1>2. ASSUME NEW r \in Requests, UNCHANGED active, stack' = [stack EXCEPT ![r] = <<>>]
      PROVE  WorkersInv'
  BY <1>2 DEF WorkersInv, TypeOK, ReqTypes
<1>3. ASSUME NEW r \in Requests, NEW p \in Providers, Request(r, p) PROVE WorkersInv'
  BY <1>3 DEF WorkersInv, Request, TypeOK, ReqTypes
<1>4. ASSUME NEW r \in Requests, CallFallback(r) \/ ReturnInner(r) PROVE WorkersInv'
  <2>1. active' = active /\ Asked' = Asked
    BY <1>4, FirstStays DEF CallFallback, ReturnInner
  <2>2. \A o \in Requests : stack'[o] # <<>> =>
          /\ stack[o] # <<>> /\ stack'[o][1] = stack[o][1]
    <3>1. \A o \in Requests \ {r} : stack'[o] = stack[o]
      BY <1>4 DEF CallFallback, ReturnInner, TypeOK, ReqTypes
    <3>2. stack[r] # <<>>
      BY <1>4 DEF CallFallback, ReturnInner, StackInv
    <3>3. stack'[r] # <<>> => stack'[r][1] = stack[r][1]
      BY <2>1, <3>2 DEF Asked
    <3>. QED
      BY <3>1, <3>2, <3>3
  <2>. QED
    BY <2>1, <2>2 DEF WorkersInv
<1>5. ASSUME Restart PROVE WorkersInv'
  BY <1>5 DEF Restart, WorkersInv
<1>6. ASSUME NEW r \in Requests, BadRequest(r) \/ CacheHit(r) \/ CacheMiss(r)
      PROVE  WorkersInv'
  BY <1>6, <1>1 DEF BadRequest, CacheHit, HitAmong, Hand, CacheMiss
<1>7. ASSUME NEW r \in Requests, ProviderTile(r) \/ NoFallback(r)
      PROVE  WorkersInv'
  BY <1>7, <1>1 DEF ProviderTile, NoFallback, Hand
<1>8. ASSUME NEW r \in Requests, ProviderError(r) \/ ProviderPanic(r) \/ ReadError(r)
      PROVE  WorkersInv'
  BY <1>8, <1>2 DEF ProviderError, ProviderPanic, ReadError, Fail, FailWith
<1>9. ASSUME NEW r \in Requests, ReturnUnread(r) \/ ReadSome(r) \/ ReadDone(r)
      PROVE  WorkersInv'
  BY <1>9, <1>1 DEF ReturnUnread, ReadSome, ReadBefore, ReadDone, ReadUpTo
<1>10. ASSUME NEW r \in Requests, MakeReader(r) \/ LoadReader(r) \/ WriteBody(r)
      PROVE  WorkersInv'
  BY <1>10, <1>1 DEF MakeReader, LoadReader, WriteBody
<1>11. ASSUME NEW r \in Requests, WorkerDone(r) \/ HandlerDone(r)
      PROVE  WorkersInv'
  BY <1>11, <1>2 DEF WorkerDone, HandlerDone
<1>12. ASSUME NEW f \in Frames, GoWork(f)
      PROVE  WorkersInv'
  BY <1>12, <1>1 DEF GoWork, GoMake, GoLoad, GoSkip, GoEnd, GoRead, GoStore
<1>. QED
  BY <1>1, <1>2, <1>3, <1>4, <1>5, <1>6, <1>7, <1>8, <1>9, <1>10, <1>11,
     <1>12 DEF Next, Work, vars

\* If no provider has a fallback that must not be prefetched, unless it must not be
\* itself, a worker asks no provider that must not be prefetched, however deep its
\* calls of FTile are.
THEOREM NothingForbiddenAsked ==
  ASSUME \A p \in Providers \ NoPrefetch : Behind(p) \cap NoPrefetch = {}
  PROVE  Spec => []PrefetchesAllowedOnly
<1>1. Init => WorkersInv
  BY DEF Init, WorkersInv, Requests
<1>2. Inv /\ WorkersInv /\ [Next]_vars => WorkersInv'
  BY WorkersStep DEF Inv
<1>3. Closed(Providers \ NoPrefetch)
  BY DEF Closed, Behind
<1>4. Inv /\ WorkersInv /\ Chained => PrefetchesAllowedOnly
  <2>. SUFFICES ASSUME Inv, WorkersInv, Chained, NEW r \in Workers, pc[r] = "provider"
                PROVE  Top(r) \notin NoPrefetch
    BY DEF PrefetchesAllowedOnly
  <2>1. r \in Requests
    BY DEF Requests
  <2>2. stack[r] # <<>> /\ stack[r] \in Seq(Providers)
    BY <2>1 DEF Inv, StackInv, TypeOK, ReqTypes
  <2>3. PICK n \in Nat \ {0} : n = Len(stack[r])
    BY <2>2
  <2>4. stack[r][1] \in Providers \ NoPrefetch
    <3>1. stack[r][1] \in Providers
      BY <2>2, <2>3, ElementOfSeq
    <3>. QED
      BY <2>2, <3>1 DEF WorkersInv, IsPrefetchable
  <2>5. ServesFor(stack[r][n], stack[r][1])
    BY <2>1, <2>3 DEF Chained
  <2>. QED
    BY <1>3, <2>3, <2>4, <2>5, StaysIn DEF Top
<1>. QED
  BY <1>1, <1>2, <1>4, InvHolds, ChainHolds, PTL DEF Spec

\* If the fallbacks of the providers that are cached are cached, no image of a
\* provider with nocache is stored, also not under the name of another one.
THEOREM NothingOfNoCache ==
  ASSUME \A p \in Providers \ NoCache : Behind(p) \cap NoCache = {}
  PROVE  Spec => []NoCacheNotStored
<1>1. Closed(Providers \ NoCache)
  BY DEF Closed, Behind
<1>2. Inv => NoCacheNotStored
  <2>. SUFFICES ASSUME Inv, NEW e \in saved PROVE e[2].src \notin NoCache
    BY DEF NoCacheNotStored
  <2>1. e[1] \in Providers \ NoCache /\ e[2] \in ImagesOf[e[1]]
    BY DEF Inv, SavedInv, TypeOK
  <2>2. PICK q \in Providers : ServesFor(q, e[1]) /\ (e[2].src = q \/ e[2].src = EmptyPNG)
    BY <2>1 DEF ImagesOf, ImageFor
  <2>3. q \notin NoCache
    BY <1>1, <2>1, <2>2, StaysIn
  <2>. QED
    BY <2>2, <2>3, ConfigAssumption
<1>. QED
  BY <1>2, InvHolds, PTL

-----------------------------------------------------------------------------
(* What a request has left to do *)

Kinds == {"got", "mem", "own", "save"}

\* A step leaves request o alone, at whatever depth it is.
Untouched(o) ==
  /\ pc'[o] = pc[o] /\ stack'[o] = stack[o] /\ rd'[o] = rd[o] /\ buf'[o] = buf[o]
  /\ status'[o] = status[o] /\ answer'[o] = answer[o]
  /\ \A f \in Frames : f[1] = o => var'[f] = var[f]
  /\ \A x \in Readers : x[1][1] = o => content'[x] = content[x] /\ pos'[x] = pos[x]

\* Only a request under way works.
LEMMA AtWork ==
  ASSUME NEW r \in Requests, Work(r)
  PROVE  pc[r] # "idle"
BY DEF Work, CacheHit, HitAmong, CacheMiss, ProviderTile, ProviderError, ProviderPanic,
   NoFallback, CallFallback, ReturnUnread, ReadSome, ReadBefore, ReadError,
   ReadDone, ReadUpTo, MakeReader, LoadReader, ReturnInner, WorkerDone, WriteBody,
   HandlerDone

\* What is collected is the request's own.
LEMMA CollectsOwn ==
  ASSUME NEW r \in Requests, NEW p, Collect(r, p),
         TypeOK, \A x \in Readers : x[1][1] # r => p[x] = pos[x]
  PROVE  /\ \A f \in Frames : f[1] # r => var'[f] = var[f]
         /\ \A x \in Readers : x[1][1] # r => content'[x] = content[x] /\ pos'[x] = pos[x]
BY DEF Collect, TypeOK, ReadTypes

\* A step of one request leaves the others alone.
LEMMA OthersUntouched ==
  ASSUME TypeOK, StackInv, HandInv, NEW r \in Requests, Work(r)
  PROVE  \A o \in Requests \ {r} : Untouched(o)
<1>. USE DEF Work, Untouched, TypeOK, ReqTypes, ReadTypes, procVars, reqVars, readVars,
         goVars, Goto
<1>0. TypeOK /\ StackInv /\ HandAt(r)
  BY DEF HandInv
<1>1. pc[r] # "idle"
  BY AtWork
<1>2. /\ Frame(r) \in Frames /\ Frame(r)[1] = r
      /\ \A k \in Kinds : <<Frame(r), k>> \in Readers /\ <<Frame(r), k>>[1][1] = r
  BY <1>0, <1>1, FrameAt DEF Kinds
<1>3. Holds(r) => rd[r] \in Readers /\ rd[r][1][1] = r
  BY <1>0 DEF HandAt
<1>4. CASE CacheHit(r) \/ ProviderTile(r) \/ NoFallback(r)
  <2>1. PICK k \in Kinds : \E c, place : Hand(r, k, c, place) /\ var' = var
    BY <1>4 DEF CacheHit, HitAmong, ProviderTile, NoFallback, Kinds
  <2>. QED
    BY <1>2, <2>1 DEF Hand
<1>5. ASSUME NEW p, Collect(r, p), \A x \in Readers : x[1][1] # r => p[x] = pos[x],
             \A o \in Requests \ {r} :
               /\ pc'[o] = pc[o] /\ stack'[o] = stack[o] /\ rd'[o] = rd[o] /\ buf'[o] = buf[o]
               /\ status'[o] = status[o] /\ answer'[o] = answer[o]
      PROVE  \A o \in Requests \ {r} : Untouched(o)
  <2>. HIDE DEF TypeOK
  <2>1. /\ \A f \in Frames : f[1] # r => var'[f] = var[f]
        /\ \A x \in Readers : x[1][1] # r => content'[x] = content[x] /\ pos'[x] = pos[x]
    BY <1>0, <1>5, CollectsOwn
  <2>. QED
    BY <1>5, <2>1 DEF Untouched
<1>6. CASE Fail(r)
  <2>1. Collect(r, pos) /\ \A x \in Readers : x[1][1] # r => pos[x] = pos[x]
    BY <1>6 DEF Fail, FailWith
  <2>. QED
    BY <1>0, <1>6, <2>1, <1>5 DEF Fail, FailWith
<1>7. CASE CacheMiss(r) \/ CallFallback(r) \/ ReturnUnread(r) \/ ReturnInner(r) \/ WriteBody(r)
  <2>1. \A o \in Requests \ {r} : stack'[o] = stack[o]
    BY <1>0, <1>7 DEF CacheMiss, CallFallback, ReturnUnread, ReturnInner, WriteBody
  <2>. QED
    BY <1>0, <1>7, <2>1 DEF CacheMiss, CallFallback, ReturnUnread, ReturnInner, WriteBody
<1>8. CASE ReadSome(r)
  BY <1>0, <1>3, <1>8 DEF ReadSome, ReadBefore, Holds
<1>9. CASE ReadDone(r)
  <2>1. PICK c : content' = [content EXCEPT ![<<Frame(r), "own">>] = c, ![<<Frame(r), "save">>] = c]
    BY <1>9 DEF ReadDone, ReadUpTo
  <2>2. \A x \in Readers : x[1][1] # r => content'[x] = content[x]
    BY <1>0, <1>2, <2>1
  <2>. QED
    BY <1>0, <1>9, <2>2 DEF ReadDone, ReadUpTo
<1>10. CASE MakeReader(r)
  BY <1>0, <1>2, <1>10 DEF MakeReader, Kinds
<1>11. CASE LoadReader(r)
  BY <1>0, <1>11 DEF LoadReader
<1>12. CASE WorkerDone(r)
  <2>1. Collect(r, pos) /\ \A x \in Readers : x[1][1] # r => pos[x] = pos[x]
    BY <1>12 DEF WorkerDone
  <2>. QED
    BY <1>0, <1>12, <2>1, <1>5 DEF WorkerDone
<1>13. CASE HandlerDone(r)
  <2>1. rd[r] \in Readers /\ rd[r][1][1] = r
    BY <1>3, <1>13 DEF HandlerDone, Holds
  <2>. DEFINE p == [pos EXCEPT ![rd[r]] = 2]
  <2>2. Collect(r, p) /\ \A x \in Readers : x[1][1] # r => p[x] = pos[x]
    BY <1>0, <1>13, <2>1 DEF HandlerDone
  <2>. HIDE DEF p
  <2>. QED
    BY <1>0, <1>13, <2>2, <1>5 DEF HandlerDone
<1>. QED
  BY <1>4, <1>6, <1>7, <1>8, <1>9, <1>10, <1>11, <1>12, <1>13
     DEF ProviderError, ProviderPanic, ReadError

\* A call of FTile that has not yet read its image, or is not made yet, or has a
\* call in it that has not returned; and every call of a request that has ended.
Fresh(f) ==
  \/ pc[f[1]] \in {"cache", "provider"}
  \/ pc[f[1]] = "read" /\ f[2] <= Len(stack[f[1]])
  \/ f[2] < Len(stack[f[1]])
  \/ pc[f[1]] = "idle" /\ \A d \in Depths : gpc[<<f[1], d>>] = "none"

\* Such a call has no goroutine, and nothing has set its variable.  And where a
\* goroutine is about to set it, nothing has the reader yet that it will make.
CallAt(f) ==
  /\ Fresh(f) => gpc[f] = "none" /\ var[f] = "got"
  /\ gpc[f] = "make" => /\ var[f] # "save"
                        /\ Holds(f[1]) => rd[f[1]] # <<f, "save">>
CallsInv == \A f \in Frames : CallAt(f)

\* A call of a request that a step leaves alone, and its goroutines with it.
LEMMA CallRests ==
  ASSUME NEW f \in Frames, CallAt(f), Untouched(f[1]),
         \A g \in Frames : g[1] = f[1] => gpc'[g] = gpc[g]
  PROVE  CallAt(f)'
<1>1. f[1] \in Requests /\ \A d \in Depths : <<f[1], d>> \in Frames /\ <<f[1], d>>[1] = f[1]
  BY FrameOf, FrameType
<1>2. gpc'[f] = gpc[f] /\ var'[f] = var[f] /\ \A d \in Depths : gpc'[<<f[1], d>>] = gpc[<<f[1], d>>]
  BY <1>1 DEF Untouched
<1>3. Fresh(f)' <=> Fresh(f)
  BY <1>2 DEF Fresh, Untouched
<1>. QED
  BY <1>2, <1>3 DEF CallAt, Untouched, Holds

\* When a request has ended and its goroutines have, the variables of its calls are
\* collected.
LEMMA CallEnds ==
  ASSUME TypeOK, NEW f \in Frames, NEW p, Collect(f[1], p), pc'[f[1]] = "idle",
         stack'[f[1]] = <<>>, gpc'[f] # "make" \/ (CallAt(f) /\ gpc'[f] = gpc[f])
  PROVE  CallAt(f)'
<1>1. f[1] \in Requests /\ f[2] \in Depths /\ f = <<f[1], f[2]>>
  BY FrameOf
<1>2. ~(f[2] < Len(stack'[f[1]]))
  BY <1>1 DEF Depths
<1>3. CASE \A d \in Depths : gpc'[<<f[1], d>>] = "none"
  <2>1. gpc'[f] = "none" /\ var'[f] = "got"
    BY <1>1, <1>3 DEF Collect, Depths
  <2>. QED
    BY <2>1 DEF CallAt
<1>4. CASE ~\A d \in Depths : gpc'[<<f[1], d>>] = "none"
  <2>1. ~Fresh(f)' /\ ~Holds(f[1])'
    BY <1>2, <1>4 DEF Fresh, Holds
  <2>2. var'[f] = var[f]
    BY <1>4 DEF Collect, Depths
  <2>. QED
    BY <2>1, <2>2 DEF CallAt
<1>. QED
  BY <1>3, <1>4

\* A goroutine moves alone: it leaves the request as it is, and all other requests.
LEMMA GoMoves ==
  ASSUME TypeOK, GoInv, NEW f \in Frames, GoWork(f)
  PROVE  /\ UNCHANGED reqVars /\ gpc[f] # "none" /\ gpc'[f] # "make"
         /\ \A g \in Frames \ {f} : gpc'[g] = gpc[g]
         /\ \A o \in Requests \ {f[1]} : Untouched(o)
<1>. USE DEF reqVars, procVars, readVars, goVars
<1>1. /\ UNCHANGED reqVars /\ gpc[f] # "none" /\ gpc'[f] # "make"
      /\ \A g \in Frames \ {f} : gpc'[g] = gpc[g]
  BY DEF GoWork, GoMake, GoLoad, GoSkip, GoRead, GoStore, GoEnd, TypeOK, GoTypes
<1>2. /\ \A g \in Frames : g[1] # f[1] => var'[g] = var[g]
      /\ \A x \in Readers : x[1][1] # f[1] => content'[x] = content[x] /\ pos'[x] = pos[x]
  <2>1. CASE GoMake(f)
    BY <2>1 DEF GoMake, TypeOK, ReadTypes
  <2>2. CASE GoLoad(f) \/ GoRead(f)
    BY <2>2 DEF GoLoad, GoRead
  <2>3. CASE GoSkip(f) \/ GoStore(f)
    <3>1. PICK p : /\ Collect(f[1], p)
                   /\ p = pos \/ (gpc[f] = "store" /\ p = [pos EXCEPT ![grd[f]] = 2])
      BY <2>3 DEF GoSkip, GoStore, GoEnd
    <3>2. gpc[f] = "store" => grd[f] \in Readers /\ grd[f][1] = f
      BY OwnReadersType DEF GoInv, GoAt
    <3>3. \A x \in Readers : x[1][1] # f[1] => p[x] = pos[x]
      BY <3>1, <3>2 DEF TypeOK, ReadTypes
    <3>4. f[1] \in Requests
      BY FrameOf
    <3>. QED
      BY <3>1, <3>3, <3>4, CollectsOwn
  <2>. QED
    BY <2>1, <2>2, <2>3 DEF GoWork
<1>. QED
  BY <1>1, <1>2 DEF Untouched

\* A request makes each of its calls of FTile once, and each call leaves at most one
\* goroutine behind.
LEMMA CallsStep ==
  ASSUME TypeOK, StackInv, HandInv, GoInv, CallsInv, [Next]_vars
  PROVE  CallsInv'
<1>. USE DEF procVars, reqVars, readVars, goVars, Goto
<1>1. ASSUME NEW r \in Requests, \A o \in Requests \ {r} : Untouched(o),
             \A g \in Frames : g[1] # r => gpc'[g] = gpc[g],
             \A f \in Frames : f[1] = r => CallAt(f)'
      PROVE  CallsInv'
  <2>1. ASSUME NEW f \in Frames, f[1] # r PROVE CallAt(f)'
    <3>1. f[1] \in Requests \ {r}
      BY <2>1, FrameOf
    <3>2. Untouched(f[1]) /\ CallAt(f) /\ \A g \in Frames : g[1] = f[1] => gpc'[g] = gpc[g]
      BY <1>1, <2>1, <3>1 DEF CallsInv
    <3>. QED
      BY <3>2, CallRests
  <2>. QED
    BY <1>1, <2>1 DEF CallsInv
<1>2. ASSUME NEW r \in Requests, Work(r) PROVE CallsInv'
  <2>1. pc[r] # "idle" /\ (\A o \in Requests \ {r} : Untouched(o))
    BY <1>2, AtWork, OthersUntouched
  <2>2. /\ Frame(r) \in Frames /\ Frame(r)[1] = r /\ Frame(r)[2] = Len(stack[r])
        /\ Len(stack[r]) \in Nat /\ stack[r] \in Seq(Providers)
    <3>1. stack[r] \in Seq(Providers)
      BY DEF TypeOK, ReqTypes
    <3>2. Len(stack[r]) \in Nat
      BY <3>1
    <3>3. Frame(r) \in Frames /\ Frame(r)[1] = r
      BY <2>1, FrameAt
    <3>. QED
      BY <3>1, <3>2, <3>3 DEF Frame
  <2>3. \A f \in Frames : f[1] = r /\ f # Frame(r) => f[2] # Len(stack[r])
    BY FrameOf DEF Frame
  <2>. SUFFICES ASSUME NEW f \in Frames, f[1] = r
                PROVE  CallAt(f)' /\ \A g \in Frames : g[1] # r => gpc'[g] = gpc[g]
    BY <1>1, <2>1, <2>2
  <2>4. CallAt(f) /\ f[2] \in Nat
    BY FrameOf DEF CallsInv, Depths
  <2>. USE DEF TypeOK, ReqTypes, GoTypes, ReadTypes
  <2>5. CASE CacheHit(r)
    <3>1. /\ pc[r] = "cache" /\ pc'[r] = "return" /\ stack' = stack /\ gpc' = gpc /\ var' = var
      BY <2>5 DEF CacheHit, HitAmong, Hand
    <3>2. gpc[f] = "none" /\ var[f] = "got"
      BY <2>4, <3>1 DEF CallAt, Fresh
    <3>. QED
      BY <3>1, <3>2 DEF CallAt
  <2>6. CASE CacheMiss(r) \/ CallFallback(r) \/ ProviderTile(r) \/ NoFallback(r)
    <3>1. /\ pc[r] \in {"cache", "provider"} /\ gpc' = gpc /\ var' = var
      BY <2>6 DEF CacheMiss, CallFallback, ProviderTile, NoFallback
    <3>2. gpc[f] = "none" /\ var[f] = "got"
      BY <2>4, <3>1 DEF CallAt, Fresh
    <3>. QED
      BY <3>1, <3>2 DEF CallAt
  <2>7. CASE ProviderError(r) \/ ProviderPanic(r) \/ ReadError(r) \/ WorkerDone(r) \/ HandlerDone(r)
    <3>1. /\ pc'[r] = "idle" /\ stack'[r] = <<>> /\ gpc' = gpc
          /\ \E p : Collect(r, p)
      BY <2>7 DEF ProviderError, ProviderPanic, ReadError, Fail, FailWith, WorkerDone, HandlerDone
    <3>2. CallAt(f)'
      BY <2>4, <3>1, CallEnds
    <3>. QED
      BY <3>1, <3>2
  <2>8. CASE ReturnUnread(r) \/ ReadSome(r) \/ WriteBody(r)
    <3>1. /\ pc[r] \in {"read", "return"} /\ pc'[r] \in {"read", "return", "written"}
          /\ pc[r] = "return" => pc'[r] = "written"
          /\ UNCHANGED <<stack, rd, gpc, var>>
      BY <2>8 DEF ReturnUnread, ReadSome, ReadBefore, WriteBody
    <3>2. Fresh(f)' => Fresh(f)
      BY <3>1 DEF Fresh
    <3>. QED
      BY <2>4, <3>1, <3>2 DEF CallAt, Holds
  <2>9. CASE ReadDone(r)
    <3>1. /\ pc[r] = "read" /\ pc'[r] = "make" /\ UNCHANGED <<stack, rd, var>>
          /\ \A g \in Frames : g # Frame(r) => gpc'[g] = gpc[g]
      BY <2>9 DEF ReadDone, ReadUpTo
    <3>2. Fresh(f)' => Fresh(f) /\ f # Frame(r)
      BY <2>2, <2>3, <2>4, <3>1 DEF Fresh
    <3>3. f = Frame(r) => var[f] = "got"
      BY <2>2, <2>4, <3>1 DEF CallAt, Fresh
    <3>4. \A g \in Frames : g[1] # r => gpc'[g] = gpc[g]
      BY <2>2, <3>1
    <3>5. ~Holds(f[1])'
      BY <3>1 DEF Holds
    <3>. QED
      BY <2>4, <3>1, <3>2, <3>3, <3>4, <3>5 DEF CallAt
  <2>10. CASE MakeReader(r)
    <3>1. /\ pc[r] = "make" /\ pc'[r] = "load" /\ UNCHANGED <<stack, gpc>>
          /\ var'[f] = IF f = Frame(r) THEN "own" ELSE var[f]
      BY <2>2, <2>10 DEF MakeReader
    <3>2. Fresh(f)' => Fresh(f) /\ f # Frame(r)
      BY <2>2, <2>3, <2>4, <3>1 DEF Fresh
    <3>3. ~Holds(f[1])'
      BY <3>1 DEF Holds
    <3>. QED
      BY <2>4, <3>1, <3>2, <3>3 DEF CallAt
  <2>11. CASE LoadReader(r)
    <3>1. /\ pc[r] = "load" /\ pc'[r] = "return" /\ UNCHANGED <<stack, gpc, var>>
          /\ rd'[r] = <<Frame(r), var[Frame(r)]>>
      BY <2>11 DEF LoadReader
    <3>2. Fresh(f)' => Fresh(f)
      BY <3>1 DEF Fresh
    <3>. QED
      BY <2>4, <3>1, <3>2 DEF CallAt
  <2>12. CASE ReturnInner(r)
    <3>1. /\ pc[r] = "return" /\ pc'[r] = "read" /\ UNCHANGED <<rd, gpc, var>>
          /\ stack'[r] = SubSeq(stack[r], 1, Len(stack[r]) - 1) /\ Len(stack[r]) > 1
      BY <2>12 DEF ReturnInner
    <3>2. Len(stack[r]) - 1 \in 1..(Len(stack[r]) - 1)
      BY <2>2, <3>1
    <3>3. Len(stack'[r]) = Len(stack[r]) - 1
      BY <2>2, <3>1, <3>2, Shorter
    <3>4. Fresh(f)' => Fresh(f)
      BY <2>2, <2>4, <3>1, <3>3 DEF Fresh
    <3>. QED
      BY <2>4, <3>1, <3>4 DEF CallAt, Holds
  <2>. QED
    BY <1>2, <2>5, <2>6, <2>7, <2>8, <2>9, <2>10, <2>11, <2>12 DEF Work
<1>3. ASSUME NEW r \in Requests, BadRequest(r) PROVE CallsInv'
  BY <1>3 DEF BadRequest, CallsInv, CallAt, Fresh, Holds
<1>4. ASSUME NEW r \in Requests, NEW p \in Providers, Request(r, p) PROVE CallsInv'
  <2>1. \A o \in Requests \ {r} : Untouched(o)
    BY <1>4 DEF Request, Untouched, TypeOK, ReqTypes
  <2>2. UNCHANGED <<gpc, var>> /\ pc[r] = "idle" /\ \A d \in Depths : gpc[<<r, d>>] = "none"
    BY <1>4 DEF Request, Free, Depths
  <2>3. \A f \in Frames : f[1] = r => gpc'[f] = "none" /\ var'[f] = "got"
    BY <2>2 DEF CallsInv, CallAt, Fresh
  <2>4. \A f \in Frames : f[1] = r => CallAt(f)'
    BY <2>3 DEF CallAt
  <2>. QED
    BY <1>1, <2>1, <2>2, <2>4
<1>5. ASSUME NEW g \in Frames, GoWork(g) PROVE CallsInv'
  <2>1. g[1] \in Requests /\ g[2] \in Depths /\ g = <<g[1], g[2]>>
    BY FrameOf
  <2>2. /\ UNCHANGED reqVars /\ gpc[g] # "none" /\ gpc'[g] # "make"
        /\ \A f \in Frames \ {g} : gpc'[f] = gpc[f]
        /\ \A o \in Requests \ {g[1]} : Untouched(o)
    BY <1>5, GoMoves
  <2>3. \A f \in Frames : f[1] # g[1] => gpc'[f] = gpc[f]
    BY <2>2
  <2>4. ASSUME NEW f \in Frames, f[1] = g[1] PROVE CallAt(f)'
    <3>1. CallAt(f) /\ CallAt(g)
      BY DEF CallsInv
    <3>2. CASE pc[g[1]] = "idle" /\ (GoSkip(g) \/ GoStore(g))
      <4>1. (\E p : Collect(f[1], p)) /\ pc'[f[1]] = "idle" /\ stack'[f[1]] = <<>>
        BY <2>1, <2>2, <2>4, <3>2 DEF GoSkip, GoStore, GoEnd, StackInv
      <4>2. gpc'[f] # "make" \/ gpc'[f] = gpc[f]
        BY <2>2
      <4>. QED
        BY <3>1, <4>1, <4>2, CallEnds
    <3>3. CASE ~(pc[g[1]] = "idle" /\ (GoSkip(g) \/ GoStore(g)))
      <4>1. f # g => var'[f] = var[f] /\ gpc'[f] = gpc[f]
        BY <1>5, <2>1, <2>2, <2>4, <3>3
           DEF GoWork, GoMake, GoLoad, GoRead, GoSkip, GoStore, GoEnd, Collect, TypeOK, ReadTypes
      <4>2. Fresh(g) => FALSE
        BY <2>2, <3>1 DEF CallAt
      <4>3. gpc'[g] # "none" \/ pc'[g[1]] # "idle"
        BY <1>5, <2>2, <3>3 DEF GoWork, GoMake, GoLoad, GoRead, TypeOK, GoTypes
      <4>4. Fresh(f)' => Fresh(f)
        BY <2>1, <2>2, <2>4, <4>3 DEF Fresh
      <4>5. Fresh(g)' => Fresh(g)
        BY <2>1, <2>2, <4>3 DEF Fresh
      <4>6. CASE f = g
        BY <2>2, <4>2, <4>5, <4>6 DEF CallAt
      <4>7. CASE f # g
        BY <2>2, <2>4, <3>1, <4>1, <4>4, <4>7 DEF CallAt, Holds
      <4>. QED
        BY <4>6, <4>7
    <3>. QED
      BY <3>2, <3>3
  <2>. QED
    BY <1>1, <2>1, <2>2, <2>3, <2>4
<1>6. ASSUME Restart PROVE CallsInv'
  BY <1>6 DEF Restart, CallsInv, CallAt
<1>7. ASSUME UNCHANGED vars PROVE CallsInv'
  BY <1>7 DEF vars, CallsInv, CallAt, Fresh, Holds
<1>. QED
  BY <1>2, <1>3, <1>4, <1>5, <1>6, <1>7 DEF Next

\* The steps a request has left, from its place, the parts taken of its reader, the
\* calls it may still make and the calls around the innermost.
Weight(place, q, m, n) ==
  CASE place = "idle" -> 0
    [] place = "written" -> 1 + 6 * n
    [] place = "return" -> 2 + 6 * n
    [] place = "load" -> 3 + 6 * n
    [] place = "make" -> 4 + 6 * n
    [] place = "read" -> (7 - q) + 6 * n
    [] place = "provider" -> 8 + 8 * m + 6 * n
    [] place = "cache" -> 9 + 8 * m + 6 * n

Deeper(r) == MaxDepth - Len(stack[r])
Around(r) == Len(stack[r]) - 1

\* The depth of a request under way.
LEMMA DepthType ==
  TypeOK /\ StackInv =>
    \A r \in Requests : pc[r] # "idle" =>
      /\ stack[r] \in Seq(Providers) /\ Len(stack[r]) \in Depths
      /\ Deeper(r) \in Nat /\ Around(r) \in Nat
<1>. SUFFICES ASSUME TypeOK, StackInv, NEW r \in Requests, pc[r] # "idle"
              PROVE  /\ stack[r] \in Seq(Providers) /\ Len(stack[r]) \in Depths
                     /\ Deeper(r) \in Nat /\ Around(r) \in Nat
  OBVIOUS
<1>1. stack[r] \in Seq(Providers) /\ Len(stack[r]) \in Depths
  BY DEF TypeOK, ReqTypes, StackInv
<1>2. MaxDepth \in Nat
  BY ConfigAssumption
<1>. QED
  BY <1>1, <1>2 DEF Depths, Deeper, Around

LeftWeighs ==
  \A r \in Requests : StepsLeft[r] = Weight(pc[r], pos[rd[r]], Deeper(r), Around(r))

\* That is the number of its steps.
LEMMA LeftIs == TypeOK /\ StackInv => LeftWeighs
<1>. SUFFICES ASSUME TypeOK, StackInv, NEW r \in Requests
              PROVE  StepsLeft[r] = Weight(pc[r], pos[rd[r]], Deeper(r), Around(r))
  BY DEF LeftWeighs
<1>1. CASE pc[r] = "idle"
  BY <1>1 DEF StepsLeft, Weight
<1>2. CASE pc[r] # "idle"
  <2>1. PICK m \in Nat, n \in Nat : m = Deeper(r) /\ n = Around(r)
    BY <1>2, DepthType
  <2>2. StepsLeft[r] = Steps(r) + 6 * n
    BY <1>2, <2>1 DEF StepsLeft, Around
  <2>3. /\ pc[r] = "written" => Steps(r) = 1
        /\ pc[r] = "return" => Steps(r) = 2
        /\ pc[r] = "load" => Steps(r) = 3
        /\ pc[r] = "make" => Steps(r) = 4
        /\ pc[r] = "read" => Steps(r) = 7 - pos[rd[r]]
        /\ pc[r] = "provider" => Steps(r) = 8 + 8 * m
        /\ pc[r] = "cache" => Steps(r) = 9 + 8 * m
    BY <2>1 DEF Steps, Deeper
  <2>4. pc[r] \in {"cache", "provider", "read", "make", "load", "return", "written"}
    BY <1>2 DEF TypeOK, ReqTypes
  <2>. QED
    BY <2>1, <2>2, <2>3, <2>4 DEF Weight
<1>. QED
  BY <1>1, <1>2

\* The order of the places.
LEMMA WeightOrder ==
  ASSUME NEW m \in Nat, NEW n \in Nat, NEW p, NEW q
  PROVE  /\ Weight("cache", p, m, n) > Weight("return", q, m, n)
         /\ Weight("cache", p, m, n) > Weight("provider", q, m, n)
         /\ \A i \in 0..2 : Weight("provider", p, m, n) > Weight("read", i, m, n)
         /\ \A i \in 0..2 : /\ Weight("read", i, m, n) > Weight("return", q, m, n)
                            /\ Weight("read", i, m, n) > Weight("make", q, m, n)
                            /\ \A j \in 0..2 : i < j =>
                                 Weight("read", i, m, n) > Weight("read", j, m, n)
         /\ Weight("make", p, m, n) > Weight("load", q, m, n)
         /\ Weight("load", p, m, n) > Weight("return", q, m, n)
         /\ Weight("return", p, m, n) > Weight("written", q, m, n)
         /\ \A i \in 0..2 : Weight("return", p, m, n + 1) > Weight("read", i, m + 1, n)
         /\ Weight("provider", p, m + 1, n) > Weight("cache", q, m, n + 1)
         /\ \A place \in {"cache", "provider", "return", "written"} :
              Weight(place, p, m, n) > Weight("idle", q, m, n)
         /\ \A i \in 0..2 : Weight("read", i, m, n) > 0
BY DEF Weight

ReadsParts ==
  \A r \in Requests : pc[r] = "read" => rd[r] \in Readers /\ pos[rd[r]] \in 0..2

\* Of the reader a request reads, two parts may be taken.
LEMMA ReadPos == TypeOK /\ HandInv => ReadsParts
BY DEF ReadsParts, HandInv, HandAt, Holds, TypeOK, ReadTypes

\* The number of steps left in terms of the next state.
LEMMA LeftAfter ==
  ASSUME Inv, [Next]_vars, NEW r \in Requests
  PROVE  /\ StepsLeft[r] = Weight(pc[r], pos[rd[r]], Deeper(r), Around(r))
         /\ StepsLeft'[r] = Weight(pc'[r], pos'[rd'[r]], Deeper(r)', Around(r)')
         /\ pc[r] = "read" => rd[r] \in Readers /\ pos[rd[r]] \in 0..2
         /\ pc'[r] = "read" => pos'[rd'[r]] \in 0..2
<1>1. Inv'
  BY InvStep
<1>2. (TypeOK /\ StackInv => LeftWeighs)'
  BY LeftIs, PTL
<1>3. (TypeOK /\ HandInv => ReadsParts)'
  BY ReadPos, PTL
<1>. QED
  BY <1>1, <1>2, <1>3, LeftIs, ReadPos DEF Inv, LeftWeighs, ReadsParts

\* Whatever a request does leaves it less to do.
LEMMA WorkShrinks ==
  ASSUME Inv, NEW r \in Requests, Work(r)
  PROVE  StepsLeft'[r] < StepsLeft[r]
<1>. USE DEF procVars, reqVars, readVars, goVars, Goto
<1>0. [Next]_vars /\ pc[r] # "idle"
  BY AtWork DEF Next
<1>1. PICK m \in Nat, n \in Nat : m = Deeper(r) /\ n = Around(r)
  BY <1>0, DepthType DEF Inv
<1>2. /\ StepsLeft[r] = Weight(pc[r], pos[rd[r]], m, n)
      /\ StepsLeft'[r] = Weight(pc'[r], pos'[rd'[r]], Deeper(r)', Around(r)')
      /\ pc[r] = "read" => rd[r] \in Readers /\ pos[rd[r]] \in 0..2
      /\ pc'[r] = "read" => pos'[rd'[r]] \in 0..2
  BY <1>0, <1>1, LeftAfter
<1>3. UNCHANGED stack => Deeper(r)' = m /\ Around(r)' = n
  BY <1>1 DEF Deeper, Around
<1>4. /\ DOMAIN pc = Requests /\ \A place : [pc EXCEPT ![r] = place][r] = place
      /\ stack[r] \in Seq(Providers) /\ Len(stack[r]) \in Depths
  BY <1>0, DepthType DEF Inv, TypeOK, ReqTypes
<1>5. CASE CacheHit(r)
  <2>1. pc[r] = "cache" /\ pc'[r] = "return" /\ UNCHANGED stack
    BY <1>4, <1>5 DEF CacheHit, HitAmong, Hand
  <2>. QED
    BY <1>2, <1>3, <2>1, WeightOrder
<1>6. CASE CacheMiss(r)
  <2>1. pc[r] = "cache" /\ pc'[r] = "provider" /\ UNCHANGED stack
    BY <1>4, <1>6 DEF CacheMiss
  <2>. QED
    BY <1>2, <1>3, <2>1, WeightOrder
<1>7. CASE ProviderTile(r) \/ NoFallback(r)
  <2>1. pc[r] = "provider" /\ pc'[r] = "read" /\ UNCHANGED stack
    BY <1>4, <1>7 DEF ProviderTile, NoFallback, Hand
  <2>. QED
    BY <1>2, <1>3, <2>1, WeightOrder
<1>8. CASE CallFallback(r)
  <2>1. PICK q \in Providers :
          /\ pc[r] = "provider" /\ pc'[r] = "cache" /\ Len(stack[r]) < MaxDepth
          /\ stack' = [stack EXCEPT ![r] = Append(stack[r], q)]
    BY <1>4, <1>8 DEF CallFallback
  <2>2. Len(stack'[r]) = Len(stack[r]) + 1
    BY <1>4, <2>1 DEF Inv, TypeOK, ReqTypes
  <2>3. PICK k \in Nat, M \in Nat : k = Len(stack[r]) /\ M = MaxDepth
    BY <1>4, ConfigAssumption
  <2>4. m = M - k /\ n = k - 1 /\ k < M /\ Deeper(r)' = M - (k + 1) /\ Around(r)' = (k + 1) - 1
    BY <1>1, <2>1, <2>2, <2>3 DEF Deeper, Around
  <2>5. PICK i \in Nat : m = i + 1 /\ Deeper(r)' = i /\ Around(r)' = n + 1
    <3>1. M - (k + 1) \in Nat /\ m = (M - (k + 1)) + 1 /\ (k + 1) - 1 = n + 1
      BY <2>4
    <3>. QED
      BY <2>4, <3>1
  <2>6. \A s, t : \A l \in Nat :
          Weight("provider", s, l + 1, n) > Weight("cache", t, l, n + 1)
    BY WeightOrder
  <2>. QED
    BY <1>2, <2>1, <2>5, <2>6
<1>9. CASE ReturnUnread(r)
  <2>1. pc[r] = "read" /\ pc'[r] = "return" /\ UNCHANGED stack
    BY <1>4, <1>9 DEF ReturnUnread
  <2>. QED
    BY <1>2, <1>3, <2>1, WeightOrder
<1>10. CASE ReadSome(r)
  <2>1. /\ pc[r] = "read" /\ UNCHANGED <<pc, stack, rd>>
        /\ pos' = [pos EXCEPT ![rd[r]] = pos[rd[r]] + 1]
    BY <1>10 DEF ReadSome, ReadBefore
  <2>2. pos'[rd'[r]] = pos[rd[r]] + 1
    BY <1>2, <2>1 DEF Inv, TypeOK, ReadTypes
  <2>3. PICK i \in 0..2, j \in 0..2 : i = pos[rd[r]] /\ j = pos'[rd'[r]] /\ i < j
    BY <1>2, <2>1, <2>2
  <2>. QED
    BY <1>2, <1>3, <2>1, <2>3, WeightOrder
<1>11. CASE ReadDone(r)
  <2>1. pc[r] = "read" /\ pc'[r] = "make" /\ UNCHANGED stack
    BY <1>4, <1>11 DEF ReadDone, ReadUpTo
  <2>. QED
    BY <1>2, <1>3, <2>1, WeightOrder
<1>12. CASE MakeReader(r)
  <2>1. pc[r] = "make" /\ pc'[r] = "load" /\ UNCHANGED stack
    BY <1>4, <1>12 DEF MakeReader
  <2>. QED
    BY <1>2, <1>3, <2>1, WeightOrder
<1>13. CASE LoadReader(r)
  <2>1. pc[r] = "load" /\ pc'[r] = "return" /\ UNCHANGED stack
    BY <1>4, <1>13 DEF LoadReader
  <2>. QED
    BY <1>2, <1>3, <2>1, WeightOrder
<1>14. CASE ReturnInner(r)
  <2>. DEFINE t == SubSeq(stack[r], 1, Len(stack[r]) - 1)
  <2>1. /\ pc[r] = "return" /\ pc'[r] = "read" /\ Len(stack[r]) > 1
        /\ stack' = [stack EXCEPT ![r] = t]
    BY <1>4, <1>14 DEF ReturnInner
  <2>2. stack'[r] = t
    BY <2>1 DEF Inv, TypeOK, ReqTypes
  <2>3. Len(stack[r]) - 1 \in 1..(Len(stack[r]) - 1)
    BY <1>4, <2>1
  <2>4. Len(stack'[r]) = Len(stack[r]) - 1
    BY <1>4, <2>2, <2>3, Shorter
  <2>5. PICK k \in Nat, M \in Nat : k = Len(stack[r]) /\ M = MaxDepth
    BY <1>4, ConfigAssumption
  <2>6. /\ m = M - k /\ n = k - 1 /\ k > 1
        /\ Deeper(r)' = M - (k - 1) /\ Around(r)' = (k - 1) - 1
    BY <1>1, <2>1, <2>4, <2>5 DEF Deeper, Around
  <2>7. PICK i \in Nat : n = i + 1 /\ Around(r)' = i /\ Deeper(r)' = m + 1
    <3>1. (k - 1) - 1 \in Nat /\ n = ((k - 1) - 1) + 1 /\ M - (k - 1) = m + 1
      BY <2>6
    <3>. QED
      BY <2>6, <3>1
  <2>8. \A s : \A l \in Nat : \A e \in 0..2 :
          Weight("return", s, m, l + 1) > Weight("read", e, m + 1, l)
    BY WeightOrder
  <2>9. PICK j \in 0..2 : j = pos'[rd'[r]]
    BY <1>2, <2>1
  <2>10. /\ StepsLeft[r] = Weight("return", pos[rd[r]], m, i + 1)
         /\ StepsLeft'[r] = Weight("read", j, m + 1, i)
    BY <1>2, <2>1, <2>7, <2>9
  <2>. QED
    BY <2>7, <2>8, <2>9, <2>10
<1>15. CASE WriteBody(r)
  <2>1. pc[r] = "return" /\ pc'[r] = "written" /\ UNCHANGED stack
    BY <1>4, <1>15 DEF WriteBody
  <2>. QED
    BY <1>2, <1>3, <2>1, WeightOrder
<1>16. CASE ProviderError(r) \/ ProviderPanic(r) \/ ReadError(r) \/ WorkerDone(r) \/ HandlerDone(r)
  <2>1. pc[r] \in {"provider", "read", "return", "written"} /\ pc'[r] = "idle"
    BY <1>4, <1>16 DEF ProviderError, ProviderPanic, ReadError, Fail, FailWith, WorkerDone,
       HandlerDone
  <2>2. StepsLeft'[r] = 0
    BY <1>2, <2>1 DEF Weight
  <2>3. Weight("idle", 0, m, n) = 0
    BY DEF Weight
  <2>. QED
    BY <1>2, <2>1, <2>2, <2>3, WeightOrder
<1>. QED
  BY <1>5, <1>6, <1>7, <1>8, <1>9, <1>10, <1>11, <1>12, <1>13, <1>14, <1>15, <1>16 DEF Work

\* Its own goroutines take parts of its reader at most, and give none back.
LEMMA GoLeavesLess ==
  ASSUME Inv, CallsInv, NEW f \in Frames, GoWork(f), pc[f[1]] # "idle"
  PROVE  StepsLeft'[f[1]] <= StepsLeft[f[1]]
<1>. USE DEF procVars, reqVars, readVars, goVars
<1>. DEFINE r == f[1]
<1>0. [Next]_vars /\ r \in Requests /\ UNCHANGED reqVars /\ TypeOK
  BY FrameOf, GoMoves DEF Next, Inv
<1>1. PICK m \in Nat, n \in Nat : m = Deeper(r) /\ n = Around(r)
  BY <1>0, DepthType DEF Inv
<1>2. /\ StepsLeft[r] = Weight(pc[r], pos[rd[r]], m, n)
      /\ StepsLeft'[r] = Weight(pc[r], pos'[rd[r]], m, n)
      /\ pc[r] = "read" => /\ rd[r] \in Readers /\ pos[rd[r]] \in 0..2
                           /\ pos'[rd[r]] \in 0..2
  BY <1>0, <1>1, LeftAfter DEF Deeper, Around
<1>3. pc[r] = "read" => pos'[rd[r]] >= pos[rd[r]]
  <2>. SUFFICES ASSUME pc[r] = "read" PROVE pos'[rd[r]] >= pos[rd[r]]
    OBVIOUS
  <2>1. rd[r] \in Readers /\ pos[rd[r]] \in 0..2
    BY <1>2
  <2>2. CASE GoMake(f)
    <3>1. rd[r] # <<f, "save">>
      BY <2>2 DEF CallsInv, CallAt, Holds, GoMake
    <3>. QED
      BY <1>0, <2>1, <2>2, <3>1 DEF GoMake, TypeOK, ReadTypes
  <2>3. CASE GoLoad(f) \/ GoRead(f)
    BY <2>1, <2>3 DEF GoLoad, GoRead
  <2>4. CASE GoSkip(f) \/ GoStore(f)
    <3>1. PICK p : /\ Collect(r, p)
                   /\ p = pos \/ (gpc[f] = "store" /\ p = [pos EXCEPT ![grd[f]] = 2])
      BY <2>4 DEF GoSkip, GoStore, GoEnd
    <3>2. p[rd[r]] = pos[rd[r]] \/ p[rd[r]] = 2
      BY <1>0, <2>1, <3>1 DEF TypeOK, ReadTypes
    <3>3. pos'[rd[r]] = p[rd[r]]
      BY <1>0, <2>1, <3>1 DEF Collect
    <3>. QED
      BY <2>1, <3>2, <3>3
  <2>. QED
    BY <2>2, <2>3, <2>4 DEF GoWork
<1>4. CASE pc[r] = "read"
  <2>1. PICK i \in 0..2, j \in 0..2 : i = pos[rd[r]] /\ j = pos'[rd[r]] /\ i <= j
    BY <1>2, <1>3, <1>4
  <2>2. Weight("read", j, m, n) <= Weight("read", i, m, n)
    BY <2>1 DEF Weight
  <2>. QED
    BY <1>2, <1>4, <2>1, <2>2
<1>5. CASE pc[r] # "read"
  <2>1. pc[r] \in {"idle", "cache", "provider", "make", "load", "return", "written"}
    BY <1>0, <1>5 DEF TypeOK, ReqTypes
  <2>2. \A place \in {"idle", "cache", "provider", "make", "load", "return", "written"} :
          \A i, j : Weight(place, j, m, n) <= Weight(place, i, m, n)
    BY DEF Weight
  <2>. QED
    BY <1>2, <2>1, <2>2
<1>. QED
  BY <1>4, <1>5

\* Others leave a request its reader as it is.
LEMMA LeftStays ==
  ASSUME Inv, [Next]_vars, NEW r \in Requests, pc[r] # "idle", Untouched(r)
  PROVE  StepsLeft'[r] = StepsLeft[r]
<1>1. Deeper(r)' = Deeper(r) /\ Around(r)' = Around(r)
  BY DEF Untouched, Deeper, Around
<1>2. CASE pc[r] = "read"
  <2>1. rd[r] \in Readers /\ rd[r][1][1] = r
    BY <1>2 DEF Inv, HandInv, HandAt, Holds
  <2>2. pos'[rd'[r]] = pos[rd[r]]
    BY <2>1 DEF Untouched
  <2>. QED
    BY <1>1, <2>2, LeftAfter DEF Untouched
<1>3. CASE pc[r] # "read"
  <2>1. pc[r] \in {"cache", "provider", "make", "load", "return", "written"}
    BY <1>3 DEF Inv, TypeOK, ReqTypes
  <2>2. \A place \in {"cache", "provider", "make", "load", "return", "written"} :
          \A m, n, i, j : Weight(place, j, m, n) = Weight(place, i, m, n)
    BY DEF Weight
  <2>. QED
    BY <1>1, <2>1, <2>2, LeftAfter DEF Untouched
<1>. QED
  BY <1>2, <1>3

\* A request under way has something left to do.
LEMMA SomeLeft ==
  ASSUME Inv, NEW r \in Requests, pc[r] # "idle"
  PROVE  StepsLeft[r] \in Nat /\ StepsLeft[r] > 0
<1>1. PICK m \in Nat, n \in Nat : m = Deeper(r) /\ n = Around(r)
  BY DepthType DEF Inv
<1>2. StepsLeft[r] = Weight(pc[r], pos[rd[r]], m, n)
  BY <1>1, LeftIs DEF Inv, LeftWeighs
<1>3. CASE pc[r] = "read"
  <2>1. PICK i \in 0..2 : i = pos[rd[r]]
    BY <1>3, ReadPos DEF Inv, ReadsParts
  <2>. QED
    BY <1>2, <1>3, <2>1 DEF Weight
<1>4. CASE pc[r] # "read"
  <2>1. pc[r] \in {"cache", "provider", "make", "load", "return", "written"}
    BY <1>4 DEF Inv, TypeOK, ReqTypes
  <2>. QED
    BY <1>2, <2>1 DEF Weight
<1>. QED
  BY <1>3, <1>4

LeftIsNat == \A r \in Requests : StepsLeft[r] \in Nat

\* And what it has left can be counted.
LEMMA LeftNat == Inv => LeftIsNat
<1>. SUFFICES ASSUME Inv, NEW r \in Requests, pc[r] = "idle" PROVE StepsLeft[r] \in Nat
  BY SomeLeft DEF LeftIsNat
<1>. QED
  BY LeftIs DEF Inv, LeftWeighs, Weight

\* The calls of every request, and the order of their goroutines.
LEMMA CallsHold == Spec => []CallsInv
<1>1. Init => CallsInv
  BY DEF Init, CallsInv, CallAt
<1>2. Inv /\ CallsInv /\ [Next]_vars => CallsInv'
  BY CallsStep DEF Inv
<1>. QED
  BY <1>1, <1>2, InvHolds, PTL DEF Spec

\* What a request shows of itself.
Own(r) == <<pc[r], stack[r], rd[r], buf[r]>>

\* Nothing ever gives a request more to do, and whatever it does leaves it less, for
\* any fallbacks, any number of requests and of calls inside one another.  A request
\* under way can always go on, as each place has an action with no other guard (in
\* "read" one of ReturnUnread, ReadSome and ReadDone), so it ends after at most
\* StepsLeft of its own steps: no provider is asked for ever.
THEOREM RequestsEndInTime == Spec => RequestsGetOn
<1>1. ASSUME Inv, CallsInv, [Next]_vars, NEW r \in Requests, pc[r] # "idle"
      PROVE  /\ StepsLeft'[r] <= StepsLeft[r]
             /\ Own(r)' # Own(r) => StepsLeft'[r] < StepsLeft[r]
  <2>. USE DEF reqVars, Own
  <2>1. StepsLeft[r] \in Nat /\ StepsLeft[r] > 0
    BY <1>1, SomeLeft
  <2>2. CASE Work(r)
    <3>1. StepsLeft'[r] < StepsLeft[r]
      BY <1>1, <2>2, WorkShrinks
    <3>2. StepsLeft'[r] \in Nat
      <4>1. (Inv => LeftIsNat)'
        BY LeftNat, PTL
      <4>. QED
        BY <1>1, <4>1, InvStep DEF LeftIsNat
    <3>. QED
      BY <2>1, <3>1, <3>2
  <2>3. CASE Untouched(r)
    <3>1. StepsLeft'[r] = StepsLeft[r] /\ Own(r)' = Own(r)
      BY <1>1, <2>3, LeftStays DEF Untouched
    <3>. QED
      BY <2>1, <3>1
  <2>4. ASSUME NEW o \in Requests, BadRequest(o) \/ \E p \in Providers : Request(o, p)
        PROVE  Untouched(r)
    BY <1>1, <2>4 DEF BadRequest, Request, Free, Untouched, Goto, Inv, TypeOK, ReqTypes,
       readVars, goVars
  <2>5. ASSUME NEW o \in Requests, o # r, Work(o) PROVE Untouched(r)
    BY <1>1, <2>5, OthersUntouched DEF Inv
  <2>6. ASSUME NEW f \in Frames, GoWork(f), f[1] # r PROVE Untouched(r)
    BY <1>1, <2>6, GoMoves DEF Inv
  <2>7. ASSUME NEW f \in Frames, GoWork(f), f[1] = r
        PROVE  StepsLeft'[r] <= StepsLeft[r] /\ Own(r)' = Own(r)
    <3>1. UNCHANGED reqVars
      BY <1>1, <2>7, GoMoves DEF Inv
    <3>. QED
      BY <1>1, <2>7, <3>1, GoLeavesLess
  <2>8. CASE Restart
    <3>1. pc'[r] = "idle"
      BY <2>8 DEF Restart
    <3>2. StepsLeft'[r] = 0
      BY <1>1, <3>1, LeftAfter DEF Weight
    <3>. QED
      BY <2>1, <3>2
  <2>9. UNCHANGED vars => Untouched(r)
    BY DEF vars, Untouched, readVars
  <2>. QED
    BY <1>1, <2>2, <2>3, <2>4, <2>5, <2>6, <2>7, <2>8, <2>9 DEF Next
<1>2. Inv /\ CallsInv /\ [Next]_vars =>
        [\A r \in Requests : pc[r] # "idle" =>
          /\ StepsLeft'[r] <= StepsLeft[r]
          /\ <<pc[r], stack[r], rd[r], buf[r]>>' # <<pc[r], stack[r], rd[r], buf[r]>>
               => StepsLeft'[r] < StepsLeft[r]]_vars
  BY <1>1 DEF Own
<1>. QED
  BY <1>2, InvHolds, CallsHold, PTL DEF Spec, RequestsGetOn

\* A goroutine only goes on, and none is started in the place of one that runs.
THEOREM SavesEndInTime == Spec => SavesGetOn
<1>1. ASSUME Inv, CallsInv, [Next]_vars, NEW f \in Frames, gpc[f] # "none", gpc'[f] # gpc[f]
      PROVE  GoStepsLeft'[f] < GoStepsLeft[f]
  <2>. USE DEF Inv, TypeOK, GoTypes, GoStepsLeft
  <2>1. gpc[f] \in {"make", "load", "save", "store"}
    BY <1>1
  <2>2. CASE Restart
    <3>1. gpc'[f] = "none"
      BY <2>2 DEF Restart
    <3>. QED
      BY <2>1, <3>1
  <2>3. ASSUME NEW g \in Frames, GoWork(g) PROVE GoStepsLeft'[f] < GoStepsLeft[f]
    <3>1. f = g
      BY <1>1, <2>3, GoMoves
    <3>2. \/ gpc[f] = "make" /\ gpc'[f] = "load"
          \/ gpc[f] = "load" /\ gpc'[f] = "save"
          \/ gpc[f] = "save" /\ gpc'[f] \in {"none", "store"}
          \/ gpc[f] = "store" /\ gpc'[f] = "none"
      <4>1. \A place : [gpc EXCEPT ![f] = place][f] = place
        <5>1. DOMAIN gpc = Frames
          BY <1>1
        <5>. HIDE DEF Inv
        <5>. QED
          BY <5>1
      <4>. HIDE DEF Inv, TypeOK, GoTypes
      <4>. QED
        BY <2>3, <3>1, <4>1 DEF GoWork, GoMake, GoLoad, GoSkip, GoRead, GoStore, GoEnd
    <3>. QED
      BY <3>2
  <2>4. ASSUME NEW r \in Requests, ReadDone(r) PROVE FALSE
    <3>1. f = Frame(r)
      BY <1>1, <2>4 DEF ReadDone, ReadUpTo
    <3>2. pc[r] = "read"
      BY <2>4 DEF ReadDone, ReadUpTo
    <3>3. Frame(r)[1] = r /\ Frame(r)[2] = Len(stack[r]) /\ Len(stack[r]) \in Nat
      BY <3>2, DepthType DEF Frame, Depths
    <3>4. Fresh(f)
      BY <3>1, <3>2, <3>3 DEF Fresh
    <3>. QED
      BY <1>1, <3>4 DEF CallsInv, CallAt
  <2>5. ASSUME NEW r \in Requests, BadRequest(r) \/ \E p \in Providers : Request(r, p)
        PROVE  gpc' = gpc
    BY <2>5 DEF BadRequest, Request, goVars
  <2>6. ASSUME NEW r \in Requests, Work(r), ~ReadDone(r) PROVE gpc' = gpc
    BY <2>6 DEF Work, CacheHit, HitAmong, CacheMiss, ProviderTile, ProviderError, ProviderPanic,
       NoFallback, CallFallback, ReturnUnread, ReadSome, ReadBefore, ReadError, Fail,
       FailWith, MakeReader, LoadReader, ReturnInner, WorkerDone, WriteBody, HandlerDone, goVars
  <2>. QED
    BY <1>1, <2>2, <2>3, <2>4, <2>5, <2>6 DEF Next, vars, goVars
<1>2. Inv /\ CallsInv /\ [Next]_vars =>
        [\A f \in Frames : gpc[f] # "none" /\ gpc'[f] # gpc[f] =>
          GoStepsLeft'[f] < GoStepsLeft[f]]_vars
  BY <1>1
<1>. QED
  BY <1>2, InvHolds, CallsHold, PTL DEF Spec, SavesGetOn

\* Both together: what is left of FTile and of its goroutines only ever shrinks.
THEOREM WorkEndsInTime == Spec => WorkGetsOn
BY RequestsEndInTime, SavesEndInTime DEF WorkGetsOn
=============================================================================
