-------------------------- MODULE SharedReaderProofs --------------------------
(***************************************************************************)
(* FTile and the goroutine it starts share the variable rd, so that both   *)
(* may read from one reader.  What that can and what it cannot do to the   *)
(* image, for any number of handlers and workers and any providers, where  *)
(* no fallback is configured and no body breaks.                           *)
(***************************************************************************)
EXTENDS TileServiceProofs

\* Every body comes whole, and no provider has a configured fallback.
Unbroken == ~Faults /\ \A p \in Providers : Behind(p) = {}

\* The outermost call of FTile, its readers, and the two of them that it shares with
\* its goroutine.
Call(r) == <<r, 1>>
Shared == {"own", "save"}
Reader(r, k) == <<Call(r), k>>
Quiet(r) == gpc[Call(r)] = "none"

\* The goroutine has read the whole image and has ended.
Stored(r) == Quiet(r) /\ gbuf[Call(r)] = Parts /\ active

\* Until FTile has read the image there is no goroutine, and nothing was taken.
FreshAt(r) ==
  /\ \A d \in 2..MaxDepth : gpc[<<r, d>>] = "none"
  /\ pc[r] \in {"cache", "provider", "read"} \/ (pc[r] = "idle" /\ Quiet(r)) =>
       /\ Quiet(r) /\ var[Call(r)] = "got"
       /\ \A k \in Shared : pos[Reader(r, k)] = 0
  /\ pc[r] \notin {"read", "written"} => buf[r] = {}

\* FTile reads the whole image of the provider, from its beginning.
ReadAt(r) ==
  pc[r] = "read" =>
    \E k \in {"got", "mem"} :
      /\ rd[r] = Reader(r, k) /\ content[Reader(r, k)].parts = Parts
      /\ buf[r] = {i \in Parts : i <= pos[Reader(r, k)]}
      /\ PassThrough(r) => pos[Reader(r, k)] = 0

\* The readers in memory are over the whole image, and so is the one returned.
WholeAt(r) ==
  /\ pc[r] \in {"make", "load"} \/ ~Quiet(r) =>
       \A k \in Shared : content[Reader(r, k)].parts = Parts
  /\ pc[r] \in {"return", "written"} =>
       \E k \in Kinds : /\ rd[r] = Reader(r, k) /\ content[Reader(r, k)].parts = Parts
                        /\ k \in Shared \/ pos[Reader(r, k)] = 0

\* A reader in memory is read at once or not at all, and what one of the two was
\* late for the other has got.
TakenAt(r) ==
  /\ \A k \in Shared :
       /\ pos[Reader(r, k)] \in {0, 2}
       /\ pos[Reader(r, k)] = 2 =>
            \/ pc[r] # "idle" /\ Stored(r) /\ IsCached(Top(r))
            \/ pc[r] = "idle" /\ answer[r].parts = Parts
  /\ gpc[Call(r)] = "store" =>
       gbuf[Call(r)] = Parts \/ (gbuf[Call(r)] = {} /\ pc[r] = "idle")
  /\ ~Quiet(r) => active /\ (pc[r] # "idle" => IsCached(Top(r)))

\* What the client has got.
AnswerAt(r) ==
  /\ pc[r] = "written" =>
       buf[r] = Parts \/ (buf[r] = {} /\ Stored(r) /\ IsCached(Top(r)))
  /\ status[r] = "200" =>
       /\ answer[r] \in Content
       /\ answer[r].parts = Parts \/ (Stored(r) /\ answer[r].src \notin NoCache)

ShareAt(r) ==
  FreshAt(r) /\ ReadAt(r) /\ WholeAt(r) /\ TakenAt(r) /\ AnswerAt(r)
ShareInv == \A r \in Requests : ShareAt(r)
\* No piece of an image is saved, only all of it or nothing.
PartsInv == \A e \in saved : e[2].parts \in {Parts, {}}

SInv == Inv /\ ShareInv /\ PartsInv

-----------------------------------------------------------------------------
(* Calls, readers, and what a step leaves alone *)

LEMMA ReaderType ==
  ASSUME NEW r \in Requests
  PROVE  /\ Call(r) \in Frames /\ Call(r)[1] = r
         /\ \A d \in Depths : <<r, d>> \in Frames
         /\ \A k \in Kinds : Reader(r, k) \in Readers /\ Reader(r, k)[1] = Call(r)
BY ConfigAssumption DEF Call, Frames, Depths, Reader, Readers, Kinds

LEMMA ReadersDiffer ==
  ASSUME NEW r, NEW o, NEW k, NEW m, Reader(r, k) = Reader(o, m)
  PROVE  r = o /\ k = m
BY DEF Reader, Call

\* Without fallbacks a request has one call of FTile.
LEMMA OneCall ==
  ASSUME TypeOK, StackInv, Unbroken, NEW r \in Requests, pc[r] # "idle"
  PROVE  /\ Len(stack[r]) = 1 /\ Frame(r) = Call(r)
         /\ Top(r) \in Providers /\ Behind(Top(r)) = {}
<1>1. stack[r] \in Seq(Providers) /\ Len(stack[r]) \in Depths
  BY DEF TypeOK, ReqTypes, StackInv
<1>2. CASE Len(stack[r]) # 1
  <2>1. 1 \in 1..(Len(stack[r]) - 1) /\ 1 \in 1..Len(stack[r])
    <3>1. Len(stack[r]) \in Nat \ {0, 1}
      BY <1>1, <1>2, ConfigAssumption DEF Depths
    <3>2. \A n \in Nat \ {0, 1} : 1 \in 1..(n - 1) /\ 1 \in 1..n
      OBVIOUS
    <3>. QED
      BY <3>1, <3>2, Zenon
  <2>2. stack[r][1] \in Providers /\ stack[r][1 + 1] \in Behind(stack[r][1])
    BY <1>1, <2>1, ElementOfSeq DEF StackInv
  <2>. QED
    BY <2>2 DEF Unbroken
<1>3. CASE Len(stack[r]) = 1
  BY <1>3, FrameAt DEF Frame, Call, Unbroken
<1>. QED
  BY <1>2, <1>3

\* The image of a provider that is cached does not come from one that is not.
LEMMA CachedSource ==
  ASSUME Unbroken, NEW p \in Providers, IsCached(p), NEW c \in ImagesOf[p]
  PROVE  c.src \notin NoCache
<1>1. PICK q \in Providers : ServesFor(q, p) /\ (c.src = q \/ c.src = EmptyPNG)
  BY DEF ImagesOf, ImageFor
<1>2. q = p
  <2>1. {p} \in SUBSET Providers /\ p \in {p} /\ \A o \in {p} : Behind(o) \subseteq {p}
    BY DEF Unbroken
  <2>2. q \in {p}
    BY <1>1, <2>1 DEF ServesFor
  <2>. QED
    BY <2>2
<1>. QED
  BY <1>1, <1>2, ConfigAssumption DEF IsCached

\* A step leaves all of request o alone, and its goroutines.
Same(o) ==
  /\ pc'[o] = pc[o] /\ stack'[o] = stack[o] /\ rd'[o] = rd[o] /\ buf'[o] = buf[o]
  /\ status'[o] = status[o] /\ answer'[o] = answer[o] /\ active' = active
  /\ \A d \in Depths : gpc'[<<o, d>>] = gpc[<<o, d>>]
  /\ gbuf'[Call(o)] = gbuf[Call(o)] /\ var'[Call(o)] = var[Call(o)]
  /\ \A k \in Kinds : /\ content'[Reader(o, k)] = content[Reader(o, k)]
                      /\ pos'[Reader(o, k)] = pos[Reader(o, k)]
Others(r) == \A o \in Requests \ {r} : Same(o)

LEMMA Rest ==
  ASSUME NEW o \in Requests, Same(o), ShareAt(o)
  PROVE  ShareAt(o)'
<1>1. /\ 2..MaxDepth \subseteq Depths /\ gpc'[Call(o)] = gpc[Call(o)]
      /\ {"got", "mem"} \subseteq Kinds /\ Shared \subseteq Kinds
  BY ConfigAssumption DEF Same, Depths, Call, Kinds, Shared
<1>2. /\ Top(o)' = Top(o) /\ Quiet(o)' = Quiet(o) /\ Stored(o)' = Stored(o)
      /\ IsCached(Top(o))' = IsCached(Top(o)) /\ PassThrough(o)' = PassThrough(o)
  BY <1>1 DEF Same, Top, Quiet, Stored, IsCached, PassThrough
<1>3. FreshAt(o)'
  BY <1>1, <1>2 DEF ShareAt, FreshAt, Same
<1>4. ReadAt(o)'
  BY <1>1, <1>2 DEF ShareAt, ReadAt, Same
<1>5. WholeAt(o)'
  BY <1>1, <1>2 DEF ShareAt, WholeAt, Same
<1>6. TakenAt(o)'
  BY <1>1, <1>2 DEF ShareAt, TakenAt, Same
<1>7. AnswerAt(o)'
  BY <1>1, <1>2 DEF ShareAt, AnswerAt, Same
<1>. QED
  BY <1>3, <1>4, <1>5, <1>6, <1>7 DEF ShareAt

LEMMA Moves ==
  ASSUME ShareInv, NEW r \in Requests, Others(r), ShareAt(r)'
  PROVE  ShareInv'
BY Rest DEF ShareInv, Others

\* Whose goroutine it is that is there.
LEMMA GoCall ==
  ASSUME ShareInv, NEW f \in Frames, gpc[f] # "none"
  PROVE  f[1] \in Requests /\ f = Call(f[1]) /\ ~Quiet(f[1])
<1>1. f[1] \in Requests /\ f[2] \in Depths /\ f = <<f[1], f[2]>>
  BY FrameOf
<1>2. f[2] = 1 \/ f[2] \in 2..MaxDepth
  BY <1>1, ConfigAssumption DEF Depths
<1>3. \A d \in 2..MaxDepth : gpc[<<f[1], d>>] = "none"
  BY <1>1 DEF ShareInv, ShareAt, FreshAt
<1>4. f[2] = 1
  BY <1>1, <1>2, <1>3
<1>. QED
  BY <1>1, <1>4 DEF Call, Quiet

\* What is collected, and what not.
LEMMA CollectShare ==
  ASSUME TypeOK, NEW r \in Requests, NEW p \in [Readers -> 0..2], Collect(r, p)
  PROVE  /\ \A o \in Requests \ {r} :
              /\ var'[Call(o)] = var[Call(o)]
              /\ \A k \in Kinds : /\ content'[Reader(o, k)] = content[Reader(o, k)]
                                  /\ pos'[Reader(o, k)] = p[Reader(o, k)]
         /\ \/ /\ pc'[r] = "idle" /\ \A d \in Depths : gpc'[<<r, d>>] = "none"
               /\ var'[Call(r)] = "got" /\ \A k \in Kinds : pos'[Reader(r, k)] = 0
            \/ /\ pc'[r] # "idle" \/ \E d \in Depths : gpc'[<<r, d>>] # "none"
               /\ var'[Call(r)] = var[Call(r)]
               /\ \A k \in Kinds : /\ content'[Reader(r, k)] = content[Reader(r, k)]
                                   /\ pos'[Reader(r, k)] = p[Reader(r, k)]
<1>1. \A o \in Requests, k \in Kinds :
        /\ Reader(o, k) \in Readers /\ Reader(o, k)[1][1] = o
        /\ Call(o) \in Frames /\ Call(o)[1] = o
  BY ReaderType
<1>2. /\ \A x \in Readers : x[1][1] # r => content'[x] = content[x] /\ pos'[x] = p[x]
      /\ \A f \in Frames : f[1] # r => var'[f] = var[f]
  BY DEF Collect
<1>3. \A o \in Requests \ {r} :
        /\ var'[Call(o)] = var[Call(o)]
        /\ \A k \in Kinds : /\ content'[Reader(o, k)] = content[Reader(o, k)]
                            /\ pos'[Reader(o, k)] = p[Reader(o, k)]
  <2>. SUFFICES ASSUME NEW o \in Requests \ {r}, NEW k \in Kinds
                PROVE  /\ var'[Call(o)] = var[Call(o)]
                       /\ content'[Reader(o, k)] = content[Reader(o, k)]
                       /\ pos'[Reader(o, k)] = p[Reader(o, k)]
    BY DEF Kinds
  <2>1. /\ Reader(o, k) \in Readers /\ Reader(o, k)[1][1] # r
        /\ Call(o) \in Frames /\ Call(o)[1] # r
    BY <1>1
  <2>. HIDE DEF Reader, Call
  <2>. QED
    BY <1>2, <2>1
<1>4. CASE pc'[r] = "idle" /\ \A d \in Depths : gpc'[<<r, d>>] = "none"
  <2>1. /\ \A x \in Readers : x[1][1] = r => pos'[x] = 0
        /\ \A f \in Frames : f[1] = r => var'[f] = "got"
    BY <1>4 DEF Collect, Depths
  <2>2. var'[Call(r)] = "got" /\ \A k \in Kinds : pos'[Reader(r, k)] = 0
    <3>. SUFFICES ASSUME NEW k \in Kinds
                  PROVE  var'[Call(r)] = "got" /\ pos'[Reader(r, k)] = 0
      BY DEF Kinds
    <3>1. /\ Reader(r, k) \in Readers /\ Reader(r, k)[1][1] = r
          /\ Call(r) \in Frames /\ Call(r)[1] = r
      BY <1>1
    <3>. QED
      BY <2>1, <3>1
  <2>. QED
    BY <1>3, <1>4, <2>2
<1>5. CASE pc'[r] # "idle" \/ \E d \in Depths : gpc'[<<r, d>>] # "none"
  <2>1. /\ \A x \in Readers : content'[x] = content[x] /\ pos'[x] = p[x]
        /\ \A f \in Frames : var'[f] = var[f]
    BY <1>5 DEF Collect, Depths
  <2>2. /\ var'[Call(r)] = var[Call(r)]
        /\ \A k \in Kinds : /\ content'[Reader(r, k)] = content[Reader(r, k)]
                            /\ pos'[Reader(r, k)] = p[Reader(r, k)]
    <3>. SUFFICES ASSUME NEW k \in Kinds
                  PROVE  /\ var'[Call(r)] = var[Call(r)]
                         /\ content'[Reader(r, k)] = content[Reader(r, k)]
                         /\ pos'[Reader(r, k)] = p[Reader(r, k)]
      BY DEF Kinds
    <3>1. Reader(r, k) \in Readers /\ Call(r) \in Frames
      BY <1>1
    <3>. QED
      BY <2>1, <3>1
  <2>. QED
    BY <1>3, <1>5, <2>2
<1>. QED
  BY <1>4, <1>5

\* A request that fails leaves nothing behind.
LEMMA FailShare ==
  ASSUME TypeOK, StackInv, NEW r \in Requests, ShareAt(r), Fail(r),
         pc[r] \in {"provider", "read"}, UNCHANGED <<active, gbuf>>
  PROVE  Others(r) /\ ShareAt(r)'
<1>1. /\ Collect(r, pos) /\ pos \in [Readers -> 0..2] /\ UNCHANGED <<gpc, answer>>
      /\ pc'[r] = "idle" /\ buf'[r] = {} /\ status'[r] = "500"
      /\ \A o \in Requests \ {r} :
           /\ pc'[o] = pc[o] /\ stack'[o] = stack[o] /\ rd'[o] = rd[o]
           /\ buf'[o] = buf[o] /\ status'[o] = status[o]
  BY DEF Fail, FailWith, Goto, TypeOK, ReqTypes, ReadTypes
<1>2. Others(r)
  BY <1>1, CollectShare DEF Others, Same
<1>3. \A d \in Depths : gpc'[<<r, d>>] = "none"
  BY <1>1, ConfigAssumption DEF ShareAt, FreshAt, Quiet, Call, Depths
<1>4. var'[Call(r)] = "got" /\ \A k \in Kinds : pos'[Reader(r, k)] = 0
  BY <1>1, <1>3, CollectShare
<1>5. /\ 2..MaxDepth \subseteq Depths /\ Quiet(r)' /\ Shared \subseteq Kinds
  BY <1>3, ConfigAssumption DEF Quiet, Call, Depths, Shared, Kinds
<1>. QED
  BY <1>1, <1>2, <1>3, <1>4, <1>5
     DEF ShareAt, FreshAt, ReadAt, WholeAt, TakenAt, AnswerAt

\* A request is given a reader over a whole image.
LEMMA HandShare ==
  ASSUME TypeOK, StackInv, Unbroken, NEW r \in Requests, ShareAt(r),
         NEW k \in {"got", "mem"}, NEW c, c.parts = Parts,
         NEW place \in {"read", "return"},
         Hand(r, k, c, place), pc[r] \in {"cache", "provider"},
         UNCHANGED <<active, var, goVars>>
  PROVE  Others(r) /\ ShareAt(r)'
<1>. DEFINE x == Reader(r, k)
<1>1. x = <<Frame(r), k>> /\ x \in Readers /\ k \in Kinds
  BY OneCall, ReaderType DEF Reader, Kinds
<1>2. /\ rd' = [rd EXCEPT ![r] = x] /\ content' = [content EXCEPT ![x] = c]
      /\ pos' = [pos EXCEPT ![x] = 0] /\ pc' = [pc EXCEPT ![r] = place]
      /\ UNCHANGED <<stack, buf, status, answer, gpc, gbuf>>
  BY <1>1 DEF Hand, Goto, goVars
<1>. HIDE DEF x
<1>3. /\ rd'[r] = x /\ content'[x] = c /\ pos'[x] = 0 /\ pc'[r] = place
      /\ \A y \in Readers \ {x} : content'[y] = content[y] /\ pos'[y] = pos[y]
      /\ \A o \in Requests \ {r} : rd'[o] = rd[o] /\ pc'[o] = pc[o]
  BY <1>1, <1>2 DEF TypeOK, ReqTypes, ReadTypes
<1>4. /\ \A o \in Requests \ {r}, m \in Kinds : Reader(o, m) \in Readers \ {x}
      /\ \A m \in Shared : m \in Kinds /\ Reader(r, m) \in Readers \ {x}
  BY ReaderType, ReadersDiffer DEF x, Shared, Kinds
<1>5. Others(r)
  BY <1>2, <1>3, <1>4 DEF Others, Same
<1>6. /\ Quiet(r) /\ Quiet(r)' /\ var[Call(r)] = "got" /\ buf[r] = {}
      /\ status[r] = "none" /\ gpc[Call(r)] = "none"
      /\ \A m \in Shared : pos[Reader(r, m)] = 0
  BY <1>2 DEF ShareAt, FreshAt, StackInv, Quiet
<1>7. FreshAt(r)'
  BY <1>2, <1>3, <1>4, <1>6 DEF ShareAt, FreshAt
<1>8. ReadAt(r)' /\ WholeAt(r)'
  <2>1. {i \in Parts : i <= 0} = {}
    BY DEF Parts
  <2>. QED
    BY <1>1, <1>2, <1>3, <1>6, <2>1 DEF ReadAt, WholeAt, x
<1>9. TakenAt(r)' /\ AnswerAt(r)'
  BY <1>2, <1>3, <1>4, <1>6 DEF TakenAt, AnswerAt, Quiet
<1>. QED
  BY <1>5, <1>7, <1>8, <1>9 DEF ShareAt

-----------------------------------------------------------------------------
(* The steps *)

\* No step of a request or of its goroutine loses the image.
LEMMA ShareStep ==
  ASSUME Inv, ShareInv, PartsInv, Unbroken, [Next]_vars
  PROVE  ShareInv'
<1>. USE DEF Inv, procVars, reqVars, readVars, goVars
<1>1. ASSUME NEW r \in Requests, BadRequest(r) PROVE ShareInv'
  <2>1. Others(r)
    BY <1>1 DEF BadRequest, Others, Same, TypeOK, ReqTypes
  <2>2. /\ pc'[r] = "idle" /\ pc[r] = "idle" /\ Quiet(r) /\ gpc' = gpc /\ pos' = pos
        /\ var' = var /\ buf' = buf /\ status'[r] = "400"
    <3>1. Free(r) /\ UNCHANGED <<pc, gpc, pos, var, buf>> /\ status' = [status EXCEPT ![r] = "400"]
      BY <1>1 DEF BadRequest
    <3>2. pc[r] = "idle" /\ gpc[<<r, 1>>] = "none"
      BY <3>1, ConfigAssumption DEF Free
    <3>. QED
      BY <3>1, <3>2 DEF Quiet, Call, TypeOK, ReqTypes
  <2>3. ShareAt(r)
    BY DEF ShareInv
  <2>4. ShareAt(r)'
    BY <2>2, <2>3 DEF ShareAt, FreshAt, ReadAt, WholeAt, TakenAt, AnswerAt, Quiet
  <2>. QED
    BY <2>1, <2>4, Moves
<1>2. ASSUME NEW r \in Requests, NEW p \in Providers, Request(r, p) PROVE ShareInv'
  <2>1. Others(r)
    <3>1. \A o \in Requests : Call(o) \in Frames /\ Call(o)[1] = o
      BY ReaderType
    <3>2. \A o \in Requests \ {r} : gbuf'[Call(o)] = gbuf[Call(o)]
      BY <1>2, <3>1 DEF Request
    <3>. QED
      BY <1>2, <3>2 DEF Request, Goto, Others, Same, TypeOK, ReqTypes
  <2>2. /\ pc'[r] = "cache" /\ pc[r] = "idle" /\ Quiet(r) /\ gpc' = gpc /\ pos' = pos
        /\ var' = var /\ buf' = buf /\ status'[r] = "none"
    BY <1>2, ConfigAssumption
       DEF Request, Goto, Free, Quiet, Call, TypeOK, ReqTypes
  <2>3. ShareAt(r)
    BY DEF ShareInv
  <2>4. ShareAt(r)'
    BY <2>2, <2>3 DEF ShareAt, FreshAt, ReadAt, WholeAt, TakenAt, AnswerAt, Quiet
  <2>. QED
    BY <2>1, <2>4, Moves
<1>3. ASSUME NEW r \in Requests, CacheHit(r) PROVE ShareInv'
  <2>1. PICK e \in saved : e[2].parts # {} /\ Hand(r, "got", e[2], "return")
    BY <1>3 DEF CacheHit, HitAmong
  <2>2. e[2].parts = Parts
    BY <2>1 DEF PartsInv
  <2>3. pc[r] = "cache" /\ UNCHANGED <<active, var, goVars>> /\ ShareAt(r)
    BY <1>3 DEF CacheHit, HitAmong, ShareInv
  <2>. QED
    BY <2>1, <2>2, <2>3, HandShare, Moves
<1>4. ASSUME NEW r \in Requests, ProviderTile(r) PROVE ShareInv'
  <2>1. PICK k \in {"got", "mem"} : Hand(r, k, Image(Top(r)), "read")
    BY <1>4 DEF ProviderTile
  <2>2. /\ Image(Top(r)).parts = Parts /\ pc[r] = "provider" /\ ShareAt(r)
        /\ UNCHANGED <<active, var, goVars>>
    BY <1>4 DEF ProviderTile, Image, ShareInv
  <2>. QED
    BY <2>1, <2>2, HandShare, Moves
<1>5. ASSUME NEW r \in Requests, NoFallback(r) PROVE ShareInv'
  <2>1. /\ Hand(r, "mem", Image(EmptyPNG), "read")
        /\ Image(EmptyPNG).parts = Parts /\ pc[r] = "provider" /\ ShareAt(r)
        /\ UNCHANGED <<active, var, goVars>>
    BY <1>5 DEF NoFallback, Image, ShareInv
  <2>. QED
    BY <2>1, HandShare, Moves
<1>6. ASSUME NEW r \in Requests, ProviderError(r) \/ ProviderPanic(r) PROVE ShareInv'
  <2>1. Fail(r) /\ pc[r] = "provider" /\ UNCHANGED <<active, gbuf>> /\ ShareAt(r)
    BY <1>6 DEF ProviderError, ProviderPanic, ShareInv
  <2>. QED
    BY <2>1, FailShare, Moves
<1>7. ASSUME NEW r \in Requests, CacheMiss(r) PROVE ShareInv'
  <2>1. Others(r)
    BY <1>7 DEF CacheMiss, Goto, Others, Same, TypeOK, ReqTypes
  <2>2. /\ pc[r] = "cache" /\ pc'[r] = "provider" /\ gpc' = gpc /\ pos' = pos
        /\ var' = var /\ buf' = buf /\ status'[r] = "none"
    BY <1>7 DEF CacheMiss, Goto, TypeOK, ReqTypes, StackInv
  <2>3. ShareAt(r)
    BY DEF ShareInv
  <2>4. ShareAt(r)'
    BY <2>2, <2>3 DEF ShareAt, FreshAt, ReadAt, WholeAt, TakenAt, AnswerAt, Quiet
  <2>. QED
    BY <2>1, <2>4, Moves
<1>8. ASSUME NEW r \in Requests, CallFallback(r) \/ ReturnInner(r) \/ ReadError(r)
      PROVE  ShareInv'
  <2>1. pc[r] # "idle" /\ ~Faults
    BY <1>8 DEF CallFallback, ReturnInner, ReadError, Unbroken
  <2>2. Len(stack[r]) = 1 /\ Top(r) \in Providers /\ Behind(Top(r)) = {}
    BY <2>1, OneCall
  <2>3. CASE CallFallback(r)
    BY <2>2, <2>3 DEF CallFallback, Behind
  <2>4. CASE ReturnInner(r)
    BY <2>2, <2>4 DEF ReturnInner
  <2>5. CASE ReadError(r)
    BY <2>1, <2>5 DEF ReadError, Breaks
  <2>. QED
    BY <1>8, <2>3, <2>4, <2>5
<1>9. ASSUME NEW r \in Requests, ReturnUnread(r) PROVE ShareInv'
  <2>1. Others(r)
    BY <1>9 DEF ReturnUnread, Goto, Others, Same, TypeOK, ReqTypes
  <2>2. /\ pc[r] = "read" /\ pc'[r] = "return" /\ PassThrough(r) /\ status'[r] = "none"
        /\ UNCHANGED <<gpc, pos, var, buf, rd, content>>
    BY <1>9 DEF ReturnUnread, Goto, TypeOK, ReqTypes, StackInv
  <2>3. ShareAt(r)
    BY DEF ShareInv
  <2>4. PICK k \in {"got", "mem"} :
          /\ rd[r] = Reader(r, k) /\ content[Reader(r, k)].parts = Parts
          /\ pos[Reader(r, k)] = 0 /\ buf[r] = {i \in Parts : i <= pos[Reader(r, k)]}
    BY <2>2, <2>3 DEF ShareAt, ReadAt
  <2>5. buf[r] = {} /\ k \in Kinds
    BY <2>4 DEF Parts, Kinds
  <2>6. FreshAt(r)' /\ ReadAt(r)' /\ TakenAt(r)' /\ AnswerAt(r)'
    BY <2>2, <2>3, <2>5 DEF ShareAt, FreshAt, ReadAt, TakenAt, AnswerAt, Quiet
  <2>7. WholeAt(r)'
    BY <2>2, <2>3, <2>4, <2>5 DEF ShareAt, FreshAt, WholeAt, Quiet
  <2>. QED
    BY <2>1, <2>6, <2>7, Moves DEF ShareAt
<1>10. ASSUME NEW r \in Requests, ReadSome(r) PROVE ShareInv'
  <2>1. ShareAt(r) /\ pc[r] = "read"
    BY <1>10 DEF ReadSome, ReadBefore, ShareInv
  <2>2. PICK k \in {"got", "mem"} :
          /\ rd[r] = Reader(r, k) /\ content[Reader(r, k)].parts = Parts
          /\ buf[r] = {i \in Parts : i <= pos[Reader(r, k)]}
    BY <2>1 DEF ShareAt, ReadAt
  <2>. DEFINE x == Reader(r, k)
              n == pos[x]
  <2>3. x \in Readers /\ k \in Kinds /\ n \in 0..2
    BY <2>2, ReaderType DEF Kinds, TypeOK, ReadTypes
  <2>4. /\ ~PassThrough(r) /\ n < 2 /\ rd[r] = x /\ content[x].parts = Parts
        /\ buf' = [buf EXCEPT ![r] = buf[r] \cup (Parts \cap {n + 1})]
        /\ pos' = [pos EXCEPT ![x] = n + 1]
        /\ UNCHANGED <<procVars, pc, stack, rd, status, answer, content, var, goVars>>
    BY <1>10, <2>2 DEF ReadSome, ReadBefore
  <2>5. /\ pos'[x] = n + 1 /\ buf'[r] = buf[r] \cup (Parts \cap {n + 1})
        /\ \A y \in Readers \ {x} : pos'[y] = pos[y]
        /\ \A o \in Requests \ {r} : buf'[o] = buf[o]
    BY <2>3, <2>4 DEF TypeOK, ReqTypes, ReadTypes
  <2>6. /\ \A o \in Requests \ {r}, m \in Kinds : Reader(o, m) \in Readers \ {x}
        /\ \A m \in Shared : Reader(r, m) \in Readers \ {x}
    BY ReaderType, ReadersDiffer DEF Shared, Kinds
  <2>7. buf'[r] = {i \in Parts : i <= n + 1}
    <3>1. ASSUME NEW m \in 0..2
          PROVE  {i \in Parts : i <= m} \cup (Parts \cap {m + 1}) = {i \in Parts : i <= m + 1}
      <4>1. \A i \in {1, 2} : i <= m \/ i = m + 1 <=> i <= m + 1
        OBVIOUS
      <4>. QED
        BY <4>1, Zenon DEF Parts
    <3>2. buf[r] = {i \in Parts : i <= n}
      BY <2>2
    <3>. HIDE DEF n
    <3>. QED
      BY <2>3, <2>5, <3>1, <3>2
  <2>. HIDE DEF x, n
  <2>8. Others(r)
    BY <2>4, <2>5, <2>6 DEF Others, Same
  <2>9. ReadAt(r)'
    BY <2>1, <2>2, <2>4, <2>5, <2>7 DEF ReadAt, PassThrough, Top, IsCached, x
  <2>10. FreshAt(r)' /\ WholeAt(r)' /\ TakenAt(r)' /\ AnswerAt(r)'
    BY <2>1, <2>4, <2>6 DEF ShareAt, FreshAt, WholeAt, TakenAt, AnswerAt, Quiet, StackInv
  <2>. QED
    BY <2>8, <2>9, <2>10, Moves DEF ShareAt
<1>11. ASSUME NEW r \in Requests, ReadDone(r) PROVE ShareInv'
  <2>1. /\ pc[r] = "read" /\ ShareAt(r) /\ Frame(r) = Call(r)
    BY <1>11, OneCall DEF ReadDone, ReadUpTo, ShareInv
  <2>2. PICK k \in {"got", "mem"} :
          rd[r] = Reader(r, k) /\ buf[r] = {i \in Parts : i <= pos[Reader(r, k)]}
    BY <2>1 DEF ShareAt, ReadAt
  <2>3. /\ ~PassThrough(r) /\ pos[rd[r]] >= 2
        /\ \E c : /\ c.parts = buf[r]
                  /\ content' = [content EXCEPT ![Reader(r, "own")] = c, ![Reader(r, "save")] = c]
        /\ gpc' = [gpc EXCEPT ![Call(r)] = IF IsCached(Top(r)) THEN "make" ELSE "none"]
        /\ buf' = [buf EXCEPT ![r] = {}] /\ pc' = [pc EXCEPT ![r] = "make"]
        /\ UNCHANGED <<procVars, stack, rd, status, answer, pos, var, grd, gbuf>>
    BY <1>11, <2>1 DEF ReadDone, ReadUpTo, Goto, Reader
  <2>4. buf[r] = Parts
    <3>1. Reader(r, k) \in Readers
      BY ReaderType DEF Kinds
    <3>2. pos[Reader(r, k)] \in 0..2 /\ pos[Reader(r, k)] >= 2
      BY <2>2, <2>3, <3>1 DEF TypeOK, ReadTypes
    <3>3. \A n \in 0..2 : n >= 2 => {i \in Parts : i <= n} = Parts
      BY DEF Parts
    <3>. QED
      BY <2>2, <3>2, <3>3
  <2>5. \A m \in Shared : content'[Reader(r, m)].parts = Parts
    <3>1. Reader(r, "own") \in Readers /\ Reader(r, "save") \in Readers
      BY ReaderType DEF Kinds
    <3>2. Reader(r, "own") # Reader(r, "save")
      BY ReadersDiffer
    <3>. QED
      BY <2>3, <2>4, <3>1, <3>2 DEF Shared, TypeOK, ReadTypes
  <2>6. Others(r)
    <3>1. ASSUME NEW o \in Requests \ {r}, NEW m \in Kinds
          PROVE  content'[Reader(o, m)] = content[Reader(o, m)]
      <4>1. /\ Reader(o, m) \in Readers /\ Reader(o, m) # Reader(r, "own")
            /\ Reader(o, m) # Reader(r, "save")
        BY ReaderType, ReadersDiffer
      <4>. QED
        BY <2>3, <4>1 DEF TypeOK, ReadTypes
    <3>2. ASSUME NEW o \in Requests \ {r}, NEW d \in Depths
          PROVE  gpc'[<<o, d>>] = gpc[<<o, d>>]
      <4>1. <<o, d>> \in Frames /\ <<o, d>> # Call(r)
        BY ReaderType DEF Call
      <4>. QED
        BY <2>3, <4>1 DEF TypeOK, GoTypes
    <3>. QED
      BY <2>3, <3>1, <3>2 DEF Others, Same, TypeOK, ReqTypes
  <2>7. /\ \A d \in 2..MaxDepth : gpc'[<<r, d>>] = gpc[<<r, d>>]
        /\ gpc'[Call(r)] = IF IsCached(Top(r)) THEN "make" ELSE "none"
    <3>1. ASSUME NEW d \in 2..MaxDepth PROVE <<r, d>> \in Frames /\ <<r, d>> # Call(r)
      <4>1. d \in Depths /\ d # 1
        BY ConfigAssumption DEF Depths
      <4>. QED
        BY <4>1, ReaderType DEF Call
    <3>. QED
      BY <2>3, <3>1, ReaderType DEF TypeOK, GoTypes
  <2>8. pc'[r] = "make" /\ buf'[r] = {} /\ status'[r] = "none" /\ stack'[r] = stack[r]
    BY <2>1, <2>3 DEF TypeOK, ReqTypes, StackInv
  <2>9. IsCached(Top(r)) => active
    BY <2>3 DEF PassThrough
  <2>10. FreshAt(r)' /\ ReadAt(r)' /\ WholeAt(r)' /\ AnswerAt(r)'
    BY <2>1, <2>5, <2>7, <2>8 DEF ShareAt, FreshAt, ReadAt, WholeAt, AnswerAt, Quiet
  <2>11. TakenAt(r)'
    BY <2>1, <2>3, <2>7, <2>8, <2>9
       DEF ShareAt, FreshAt, TakenAt, Quiet, IsCached, Top
  <2>. QED
    BY <2>6, <2>10, <2>11, Moves DEF ShareAt
<1>12. ASSUME NEW r \in Requests, MakeReader(r) PROVE ShareInv'
  <2>1. ShareAt(r) /\ pc[r] = "make" /\ Frame(r) = Call(r)
    BY <1>12, OneCall DEF MakeReader, ShareInv
  <2>. DEFINE x == Reader(r, "own")
  <2>2. /\ var' = [var EXCEPT ![Call(r)] = "own"] /\ pos' = [pos EXCEPT ![x] = 0]
        /\ pc' = [pc EXCEPT ![r] = "load"]
        /\ UNCHANGED <<procVars, stack, rd, buf, status, answer, content, goVars>>
    BY <1>12, <2>1 DEF MakeReader, Goto, Reader
  <2>3. /\ x \in Readers /\ \A o \in Requests : Call(o) \in Frames
        /\ \A o \in Requests \ {r} : Call(o) # Call(r)
        /\ \A o \in Requests \ {r}, m \in Kinds : Reader(o, m) \in Readers \ {x}
        /\ Reader(r, "save") \in Readers \ {x}
    BY ReaderType, ReadersDiffer DEF Kinds, Call
  <2>. HIDE DEF x
  <2>4. /\ pos'[x] = 0 /\ \A y \in Readers \ {x} : pos'[y] = pos[y]
        /\ pc'[r] = "load" /\ status'[r] = "none"
    BY <2>1, <2>2, <2>3 DEF TypeOK, ReqTypes, ReadTypes, StackInv
  <2>5. Others(r)
    BY <2>2, <2>3, <2>4 DEF Others, Same, TypeOK, ReqTypes, ReadTypes
  <2>6. FreshAt(r)' /\ ReadAt(r)' /\ WholeAt(r)' /\ AnswerAt(r)'
    BY <2>1, <2>2, <2>4 DEF ShareAt, FreshAt, ReadAt, WholeAt, AnswerAt, Quiet
  <2>7. TakenAt(r)'
    <3>1. \A m \in Shared : /\ pos'[Reader(r, m)] \in {0, pos[Reader(r, m)]}
      BY <2>3, <2>4 DEF Shared, x
    <3>. QED
      BY <2>1, <2>2, <2>4, <3>1 DEF ShareAt, TakenAt, Stored, Quiet, IsCached, Top
  <2>. QED
    BY <2>5, <2>6, <2>7, Moves DEF ShareAt
<1>13. ASSUME NEW r \in Requests, LoadReader(r) PROVE ShareInv'
  <2>1. ShareAt(r) /\ pc[r] = "load" /\ Frame(r) = Call(r)
    BY <1>13, OneCall DEF LoadReader, ShareInv
  <2>2. PICK k \in Shared : var[Call(r)] = k
    BY <2>1 DEF HandInv, HandAt, Made, Shared
  <2>3. /\ rd' = [rd EXCEPT ![r] = Reader(r, k)] /\ pc' = [pc EXCEPT ![r] = "return"]
        /\ UNCHANGED <<procVars, stack, buf, status, answer, readVars, var, goVars>>
    BY <1>13, <2>1, <2>2 DEF LoadReader, Goto, Reader
  <2>4. Others(r)
    BY <2>3 DEF Others, Same, TypeOK, ReqTypes
  <2>5. rd'[r] = Reader(r, k) /\ pc'[r] = "return" /\ status'[r] = "none" /\ k \in Kinds
    BY <2>1, <2>3 DEF TypeOK, ReqTypes, StackInv, Shared, Kinds
  <2>6. FreshAt(r)' /\ ReadAt(r)' /\ AnswerAt(r)'
    BY <2>1, <2>3, <2>5 DEF ShareAt, FreshAt, ReadAt, AnswerAt, Quiet
  <2>7. WholeAt(r)'
    BY <2>1, <2>3, <2>5 DEF ShareAt, WholeAt, Quiet
  <2>8. TakenAt(r)'
    BY <2>1, <2>3, <2>5 DEF ShareAt, TakenAt, Stored, Quiet, IsCached, Top
  <2>. QED
    BY <2>4, <2>6, <2>7, <2>8, Moves DEF ShareAt
<1>14. ASSUME NEW r \in Requests, WorkerDone(r) PROVE ShareInv'
  <2>1. /\ ShareAt(r) /\ pc[r] = "return" /\ pc'[r] = "idle" /\ status'[r] = "none"
        /\ Collect(r, pos) /\ pos \in [Readers -> 0..2]
        /\ UNCHANGED <<procVars, buf, status, answer, goVars>>
    BY <1>14 DEF WorkerDone, Goto, ShareInv, StackInv, TypeOK, ReqTypes, ReadTypes
  <2>2. \A o \in Requests \ {r} : pc'[o] = pc[o] /\ rd'[o] = rd[o] /\ stack'[o] = stack[o]
    BY <1>14 DEF WorkerDone, Goto, TypeOK, ReqTypes
  <2>3. Others(r)
    BY <2>1, <2>2, CollectShare DEF Others, Same
  <2>. DEFINE Gone == /\ \A d \in Depths : gpc[<<r, d>>] = "none"
                      /\ var'[Call(r)] = "got" /\ \A k \in Kinds : pos'[Reader(r, k)] = 0
              Kept == /\ ~Quiet(r) /\ var'[Call(r)] = var[Call(r)]
                      /\ \A k \in Kinds : /\ content'[Reader(r, k)] = content[Reader(r, k)]
                                          /\ pos'[Reader(r, k)] = pos[Reader(r, k)]
  <2>4. Gone \/ Kept
    <3>1. ASSUME NEW d \in Depths, gpc[<<r, d>>] # "none" PROVE ~Quiet(r)
      BY <3>1, ReaderType, GoCall
    <3>. QED
      BY <2>1, <3>1, CollectShare
  <2>5. /\ 1 \in Depths /\ 2..MaxDepth \subseteq Depths /\ Shared \subseteq Kinds
        /\ Quiet(r)' = Quiet(r)
    BY <2>1, ConfigAssumption DEF Depths, Shared, Kinds, Quiet
  <2>6. FreshAt(r)'
    BY <2>1, <2>4, <2>5 DEF ShareAt, FreshAt, Quiet, Call
  <2>7. ReadAt(r)' /\ AnswerAt(r)'
    BY <2>1 DEF ReadAt, AnswerAt
  <2>8. ASSUME Gone PROVE WholeAt(r)' /\ TakenAt(r)'
    <3>1. Quiet(r)' /\ gpc'[Call(r)] = "none" /\ \A k \in Shared : pos'[Reader(r, k)] = 0
      BY <2>1, <2>5, <2>8 DEF Quiet, Call
    <3>. QED
      BY <2>1, <3>1 DEF WholeAt, TakenAt
  <2>9. ASSUME Kept PROVE WholeAt(r)' /\ TakenAt(r)'
    <3>1. \A k \in Shared : /\ content'[Reader(r, k)] = content[Reader(r, k)]
                             /\ pos'[Reader(r, k)] = 0
      BY <2>1, <2>5, <2>9 DEF ShareAt, TakenAt, Stored
    <3>2. ~Quiet(r)' /\ gpc' = gpc /\ gbuf' = gbuf /\ active' = active
      BY <2>1, <2>5, <2>9
    <3>3. \A k \in Shared : content[Reader(r, k)].parts = Parts
      BY <2>1, <2>9 DEF ShareAt, WholeAt
    <3>4. active /\ (gpc[Call(r)] = "store" => gbuf[Call(r)] = Parts)
      BY <2>1, <2>9 DEF ShareAt, TakenAt
    <3>. QED
      BY <2>1, <3>1, <3>2, <3>3, <3>4 DEF WholeAt, TakenAt
  <2>. QED
    BY <2>3, <2>4, <2>6, <2>7, <2>8, <2>9, Moves DEF ShareAt
<1>15. ASSUME NEW r \in Requests, WriteBody(r) PROVE ShareInv'
  <2>1. ShareAt(r) /\ pc[r] = "return" /\ status[r] = "none"
    BY <1>15 DEF WriteBody, ShareInv, StackInv
  <2>2. PICK k \in Kinds : /\ rd[r] = Reader(r, k) /\ content[Reader(r, k)].parts = Parts
                           /\ k \in Shared \/ pos[Reader(r, k)] = 0
    BY <2>1 DEF ShareAt, WholeAt
  <2>3. /\ buf' = [buf EXCEPT ![r] = Remaining(rd[r])]
        /\ pc' = [pc EXCEPT ![r] = "written"]
        /\ UNCHANGED <<procVars, stack, rd, status, answer, readVars, var, goVars>>
    BY <1>15 DEF WriteBody, Goto, Breaks, Unbroken
  <2>4. Others(r)
    BY <2>3 DEF Others, Same, TypeOK, ReqTypes
  <2>5. /\ pc'[r] = "written" /\ buf'[r] = {i \in Parts : i > pos[Reader(r, k)]}
        /\ status'[r] = "none"
    BY <2>1, <2>2, <2>3 DEF Remaining, TypeOK, ReqTypes
  <2>6. buf'[r] = Parts \/ (buf'[r] = {} /\ Stored(r) /\ IsCached(Top(r)))
    <3>1. CASE pos[Reader(r, k)] = 0
      <4>1. \A i \in Parts : i > 0
        BY DEF Parts
      <4>. QED
        BY <2>5, <3>1, <4>1
    <3>2. CASE pos[Reader(r, k)] # 0
      <4>1. pos[Reader(r, k)] = 2 /\ Stored(r) /\ IsCached(Top(r))
        BY <2>1, <2>2, <3>2 DEF ShareAt, TakenAt
      <4>. QED
        BY <2>5, <4>1 DEF Parts
    <3>. QED
      BY <3>1, <3>2
  <2>7. FreshAt(r)' /\ ReadAt(r)'
    BY <2>1, <2>3, <2>5 DEF ShareAt, FreshAt, ReadAt, Quiet
  <2>8. WholeAt(r)'
    BY <2>1, <2>2, <2>3, <2>5 DEF ShareAt, WholeAt, Quiet
  <2>9. TakenAt(r)' /\ AnswerAt(r)'
    BY <2>1, <2>3, <2>5, <2>6
       DEF ShareAt, TakenAt, AnswerAt, Stored, Quiet, IsCached, Top
  <2>. QED
    BY <2>4, <2>7, <2>8, <2>9, Moves DEF ShareAt
<1>16. ASSUME NEW r \in Requests, HandlerDone(r) PROVE ShareInv'
  <2>1. ShareAt(r) /\ pc[r] = "written"
    BY <1>16 DEF HandlerDone, ShareInv
  <2>. DEFINE p == [pos EXCEPT ![rd[r]] = 2]
              a == [src |-> content[rd[r]].src, parts |-> buf[r]]
  <2>2. PICK m \in Kinds : rd[r] = Reader(r, m)
    BY <2>1 DEF ShareAt, WholeAt
  <2>3. /\ p \in [Readers -> 0..2] /\ \A y \in Readers : y # rd[r] => p[y] = pos[y]
    <3>1. rd[r] \in Readers
      BY <2>2, ReaderType
    <3>. QED
      BY <3>1 DEF TypeOK, ReadTypes
  <2>4. /\ pc'[r] = "idle" /\ buf'[r] = {} /\ answer'[r] = a /\ Collect(r, p)
        /\ UNCHANGED <<procVars, goVars>>
        /\ \A o \in Requests \ {r} :
             /\ pc'[o] = pc[o] /\ rd'[o] = rd[o] /\ stack'[o] = stack[o]
             /\ buf'[o] = buf[o] /\ status'[o] = status[o] /\ answer'[o] = answer[o]
    BY <1>16 DEF HandlerDone, Goto, TypeOK, ReqTypes
  <2>5. a.parts = buf[r] /\ a.src = content[rd[r]].src
    OBVIOUS
  <2>. HIDE DEF a, p
  <2>6. Others(r)
    <3>1. ASSUME NEW o \in Requests \ {r}, NEW k \in Kinds
          PROVE  p[Reader(o, k)] = pos[Reader(o, k)]
      BY <2>2, <2>3, ReaderType, ReadersDiffer
    <3>. QED
      BY <2>3, <2>4, <3>1, CollectShare DEF Others, Same
  <2>7. a \in Content /\ (a.parts = Parts \/ (Stored(r) /\ a.src \notin NoCache))
    <3>1. a \in Content
      <4>1. content[rd[r]] \in ImagesOf[Top(r)] /\ Top(r) \in Providers
        BY <2>1, OneCall DEF HandInv, HandAt, Holds
      <4>2. content[rd[r]] \in Content
        BY <4>1 DEF ImagesOf
      <4>. QED
        BY <4>2 DEF a, Content, TypeOK, ReqTypes
    <3>2. IsCached(Top(r)) => a.src \notin NoCache
      BY <2>1, <2>5, OneCall, CachedSource DEF HandInv, HandAt, Holds
    <3>. QED
      BY <2>1, <2>5, <3>1, <3>2 DEF ShareAt, AnswerAt
  <2>. DEFINE Gone == /\ \A d \in Depths : gpc[<<r, d>>] = "none"
                      /\ var'[Call(r)] = "got" /\ \A k \in Kinds : pos'[Reader(r, k)] = 0
              Kept == /\ ~Quiet(r)
                      /\ \A k \in Kinds : /\ content'[Reader(r, k)] = content[Reader(r, k)]
                                          /\ pos'[Reader(r, k)] = p[Reader(r, k)]
  <2>8. Gone \/ Kept
    <3>1. ASSUME NEW d \in Depths, gpc[<<r, d>>] # "none" PROVE ~Quiet(r)
      BY <3>1, ReaderType, GoCall
    <3>. QED
      BY <2>3, <2>4, <3>1, CollectShare
  <2>9. /\ 1 \in Depths /\ 2..MaxDepth \subseteq Depths /\ Shared \subseteq Kinds
        /\ Quiet(r)' = Quiet(r) /\ Stored(r)' = Stored(r)
    BY <2>4, ConfigAssumption DEF Depths, Shared, Kinds, Quiet, Stored
  <2>10. FreshAt(r)'
    BY <2>1, <2>4, <2>8, <2>9 DEF ShareAt, FreshAt, Quiet, Call
  <2>11. ReadAt(r)' /\ AnswerAt(r)'
    BY <2>4, <2>7, <2>9 DEF ReadAt, AnswerAt
  <2>12. ASSUME Gone PROVE WholeAt(r)' /\ TakenAt(r)'
    <3>1. Quiet(r)' /\ gpc'[Call(r)] = "none" /\ \A k \in Shared : pos'[Reader(r, k)] = 0
      BY <2>4, <2>9, <2>12 DEF Quiet, Call
    <3>. QED
      BY <2>4, <3>1 DEF WholeAt, TakenAt
  <2>13. ASSUME Kept PROVE WholeAt(r)' /\ TakenAt(r)'
    <3>1. a.parts = Parts /\ buf[r] = Parts
      BY <2>5, <2>7, <2>13 DEF Stored
    <3>2. \A k \in Shared : /\ pos'[Reader(r, k)] \in {pos[Reader(r, k)], 2}
                             /\ content'[Reader(r, k)] = content[Reader(r, k)]
      BY <2>9, <2>13, ReaderType DEF TypeOK, ReadTypes, p
    <3>3. \A k \in Shared : /\ pos[Reader(r, k)] \in {0, 2}
                             /\ content[Reader(r, k)].parts = Parts
      BY <2>1, <2>13 DEF ShareAt, WholeAt, TakenAt
    <3>4. active /\ (gpc[Call(r)] = "store" => gbuf[Call(r)] = Parts)
      BY <2>1, <2>13 DEF ShareAt, TakenAt
    <3>5. answer'[r].parts = Parts /\ gpc' = gpc /\ gbuf' = gbuf /\ active' = active
      BY <2>4, <3>1
    <3>. QED
      BY <2>4, <3>2, <3>3, <3>4, <3>5 DEF WholeAt, TakenAt
  <2>. QED
    BY <2>6, <2>8, <2>10, <2>11, <2>12, <2>13, Moves DEF ShareAt
<1>17. ASSUME NEW f \in Frames, GoMake(f) PROVE ShareInv'
  <2>. DEFINE r == f[1]
              x == Reader(r, "save")
  <2>1. r \in Requests /\ f = Call(r) /\ ~Quiet(r) /\ ShareAt(r)
    BY <1>17, GoCall DEF GoMake, ShareInv
  <2>. HIDE DEF r
  <2>2. /\ var' = [var EXCEPT ![Call(r)] = "save"] /\ pos' = [pos EXCEPT ![x] = 0]
        /\ gpc' = [gpc EXCEPT ![Call(r)] = "load"]
        /\ UNCHANGED <<procVars, reqVars, content, gtile, grd, gbuf>>
    BY <1>17, <2>1 DEF GoMake, Reader
  <2>3. /\ x \in Readers /\ Call(r) \in Frames
        /\ \A o \in Requests, d \in Depths : <<o, d>> \in Frames
        /\ \A o \in Requests \ {r} : Call(o) \in Frames /\ Call(o) # Call(r)
        /\ \A o \in Requests \ {r}, m \in Kinds : Reader(o, m) \in Readers \ {x}
        /\ \A m \in Kinds \ {"save"} : Reader(r, m) \in Readers \ {x}
    BY <2>1, ReaderType, ReadersDiffer DEF Kinds, Call
  <2>. HIDE DEF x
  <2>4. /\ pos'[x] = 0 /\ \A y \in Readers \ {x} : pos'[y] = pos[y]
        /\ gpc'[Call(r)] = "load" /\ \A g \in Frames \ {Call(r)} : gpc'[g] = gpc[g]
    BY <2>2, <2>3 DEF TypeOK, GoTypes, ReadTypes
  <2>5. \A o \in Requests, d \in Depths : o # r \/ d # 1 => <<o, d>> \in Frames \ {Call(r)}
    BY <2>3 DEF Call
  <2>6. Others(r)
    BY <2>2, <2>3, <2>4, <2>5 DEF Others, Same, ReadTypes, TypeOK
  <2>7. FreshAt(r)'
    <3>1. \A d \in 2..MaxDepth : d \in Depths /\ d # 1
      BY ConfigAssumption DEF Depths
    <3>2. \A d \in 2..MaxDepth : gpc'[<<r, d>>] = gpc[<<r, d>>]
      BY <2>1, <2>4, <2>5, <3>1
    <3>. QED
      BY <2>1, <2>2, <2>4, <3>2 DEF ShareAt, FreshAt, Quiet
  <2>8. /\ \A m \in Shared : pos'[Reader(r, m)] \in {0, pos[Reader(r, m)]}
        /\ \A m \in Kinds \ Shared : pos'[Reader(r, m)] = pos[Reader(r, m)]
    BY <2>3, <2>4 DEF Shared, Kinds, x
  <2>9. ReadAt(r)' /\ WholeAt(r)'
    BY <2>1, <2>2, <2>4, <2>8 DEF ShareAt, FreshAt, ReadAt, WholeAt, Quiet
  <2>10. TakenAt(r)' /\ AnswerAt(r)'
    BY <2>1, <2>2, <2>4, <2>8
       DEF ShareAt, TakenAt, AnswerAt, Stored, Quiet, IsCached, Top
  <2>. QED
    BY <2>1, <2>6, <2>7, <2>9, <2>10, Moves DEF ShareAt
<1>18. ASSUME NEW f \in Frames, GoLoad(f) \/ GoRead(f) PROVE ShareInv'
  <2>. DEFINE r == f[1]
  <2>1. r \in Requests /\ f = Call(r) /\ ~Quiet(r) /\ ShareAt(r)
    BY <1>18, GoCall DEF GoLoad, GoRead, ShareInv
  <2>. HIDE DEF r
  <2>. DEFINE Sets(b, place) ==
                /\ gbuf' = [gbuf EXCEPT ![Call(r)] = b]
                /\ gpc' = [gpc EXCEPT ![Call(r)] = place]
                /\ place = "store" => b = Remaining(grd[f]) /\ gpc[f] = "save"
                /\ UNCHANGED <<procVars, reqVars, readVars, var>>
  <2>2. \E b : \E place \in {"save", "store"} : Sets(b, place)
    <3>. HIDE DEF Call
    <3>1. CASE GoLoad(f)
      <4>1. gbuf' = [gbuf EXCEPT ![Call(r)] = gbuf[Call(r)]]
        BY <3>1 DEF GoLoad, TypeOK, GoTypes
      <4>2. Sets(gbuf[Call(r)], "save")
        BY <2>1, <3>1, <4>1 DEF GoLoad
      <4>. HIDE DEF Sets
      <4>. QED
        BY <4>2
    <3>2. CASE GoRead(f)
      <4>1. Sets(Remaining(grd[f]), "store")
        BY <2>1, <3>2 DEF GoRead
      <4>. HIDE DEF Sets
      <4>. QED
        BY <4>1
    <3>. QED
      BY <1>18, <3>1, <3>2
  <2>. PICK b, place : place \in {"save", "store"} /\ Sets(b, place)
    BY <2>2, Zenon
  <2>3. /\ Call(r) \in Frames
        /\ \A o \in Requests \ {r} : Call(o) \in Frames /\ Call(o) # Call(r)
        /\ \A o \in Requests, d \in Depths : o # r \/ d # 1 => <<o, d>> \in Frames \ {Call(r)}
    BY <2>1, ReaderType DEF Call
  <2>4. /\ gpc'[Call(r)] = place /\ \A g \in Frames \ {Call(r)} : gpc'[g] = gpc[g]
        /\ gbuf'[Call(r)] = b /\ \A g \in Frames \ {Call(r)} : gbuf'[g] = gbuf[g]
    BY <2>2, <2>3 DEF TypeOK, GoTypes
  <2>5. Others(r)
    BY <2>2, <2>3, <2>4 DEF Others, Same
  <2>6. FreshAt(r)'
    <3>1. \A d \in 2..MaxDepth : d \in Depths /\ d # 1
      BY ConfigAssumption DEF Depths
    <3>2. \A d \in 2..MaxDepth : gpc'[<<r, d>>] = gpc[<<r, d>>]
      BY <2>1, <2>3, <2>4, <3>1
    <3>. QED
      BY <2>1, <2>2, <2>4, <3>2 DEF ShareAt, FreshAt, Quiet
  <2>7. ReadAt(r)' /\ WholeAt(r)'
    BY <2>1, <2>2, <2>4 DEF ShareAt, FreshAt, ReadAt, WholeAt, Quiet
  <2>8. place = "store" => b = Parts \/ (b = {} /\ pc[r] = "idle")
    <3>. SUFFICES ASSUME place = "store"
                  PROVE  b = Parts \/ (b = {} /\ pc[r] = "idle")
      OBVIOUS
    <3>1. PICK k \in Shared : grd[f] = Reader(r, k)
      BY <2>1, <2>2 DEF GoInv, GoAt, OwnReaders, Shared, Reader
    <3>2. b = {i \in Parts : i > pos[Reader(r, k)]}
      BY <2>1, <2>2, <3>1 DEF ShareAt, WholeAt, Remaining
    <3>3. CASE pos[Reader(r, k)] = 0
      <4>1. \A i \in Parts : i > 0
        BY DEF Parts
      <4>. QED
        BY <3>2, <3>3, <4>1
    <3>4. CASE pos[Reader(r, k)] = 2
      <4>1. pc[r] = "idle"
        BY <2>1, <3>4 DEF ShareAt, TakenAt, Stored
      <4>2. \A i \in Parts : ~(i > 2)
        BY DEF Parts
      <4>. QED
        BY <3>2, <3>4, <4>1, <4>2
    <3>. QED
      BY <2>1, <3>3, <3>4 DEF ShareAt, TakenAt
  <2>9. TakenAt(r)'
    <3>1. active /\ (pc[r] # "idle" => IsCached(Top(r)))
      BY <2>1 DEF ShareAt, TakenAt
    <3>2. \A k \in Shared : /\ pos[Reader(r, k)] \in {0, 2}
                            /\ pos[Reader(r, k)] = 2 => pc[r] = "idle" /\ answer[r].parts = Parts
      BY <2>1 DEF ShareAt, TakenAt, Stored
    <3>. QED
      BY <2>2, <2>4, <2>8, <3>1, <3>2 DEF TakenAt, IsCached, Top
  <2>10. AnswerAt(r)'
    <3>1. /\ pc[r] = "written" => buf[r] = Parts
          /\ status[r] = "200" => answer[r] \in Content /\ answer[r].parts = Parts
      BY <2>1 DEF ShareAt, AnswerAt, Stored
    <3>. QED
      BY <2>2, <3>1 DEF AnswerAt
  <2>. QED
    BY <2>1, <2>5, <2>6, <2>7, <2>9, <2>10, Moves DEF ShareAt
<1>19. ASSUME NEW f \in Frames, GoSkip(f) \/ GoStore(f) PROVE ShareInv'
  <2>. DEFINE r == f[1]
  <2>1. r \in Requests /\ f = Call(r) /\ ~Quiet(r) /\ ShareAt(r)
    BY <1>19, GoCall DEF GoSkip, GoStore, ShareInv
  <2>. HIDE DEF r
  <2>2. PICK p \in [Readers -> 0..2] :
          /\ Collect(r, p)
          /\ \A y \in Readers : p[y] = pos[y] \/ (y = grd[f] /\ gpc[f] = "store" /\ p[y] = 2)
          /\ \A y \in Readers : y[1] # f => p[y] = pos[y]
    <3>1. CASE GoSkip(f)
      <4>1. Collect(f[1], pos) /\ pos \in [Readers -> 0..2]
        BY <3>1 DEF GoSkip, GoEnd, TypeOK, ReadTypes
      <4>. QED
        BY <4>1 DEF r
    <3>2. CASE GoStore(f)
      <4>. DEFINE q == [pos EXCEPT ![grd[f]] = 2]
      <4>1. Collect(f[1], q) /\ gpc[f] = "store"
        BY <3>2 DEF GoStore, GoEnd
      <4>2. grd[f] \in Readers /\ grd[f][1] = f
        BY <4>1, OwnReadersType DEF GoInv, GoAt
      <4>3. /\ q \in [Readers -> 0..2]
            /\ \A y \in Readers : q[y] = pos[y] \/ (y = grd[f] /\ q[y] = 2)
            /\ \A y \in Readers : y[1] # f => q[y] = pos[y]
        BY <4>2 DEF TypeOK, ReadTypes
      <4>. HIDE DEF q
      <4>. QED
        BY <4>1, <4>3 DEF r
    <3>. QED
      BY <1>19, <3>1, <3>2
  <2>3. /\ gpc' = [gpc EXCEPT ![Call(r)] = "none"]
        /\ UNCHANGED <<procVars, reqVars, gbuf>>
    BY <1>19, <2>1 DEF GoSkip, GoStore, GoEnd
  <2>4. /\ Call(r) \in Frames
        /\ \A o \in Requests, d \in Depths : o # r \/ d # 1 => <<o, d>> \in Frames \ {Call(r)}
        /\ \A o \in Requests \ {r}, m \in Kinds : Reader(o, m) \in Readers /\ Reader(o, m)[1] # f
    BY <2>1, ReaderType DEF Call
  <2>5. /\ gpc'[Call(r)] = "none" /\ Quiet(r)'
        /\ \A g \in Frames \ {Call(r)} : gpc'[g] = gpc[g]
    BY <2>3, <2>4 DEF TypeOK, GoTypes, Quiet
  <2>6. Others(r)
    BY <2>1, <2>2, <2>3, <2>4, <2>5, CollectShare DEF Others, Same
  <2>7. /\ \A d \in Depths : gpc'[<<r, d>>] = "none"
        /\ \A d \in 2..MaxDepth : gpc'[<<r, d>>] = "none"
    <3>1. \A d \in Depths : d = 1 \/ (d \in 2..MaxDepth /\ d # 1)
      BY ConfigAssumption DEF Depths
    <3>2. \A d \in 2..MaxDepth : d \in Depths /\ d # 1
      BY ConfigAssumption DEF Depths
    <3>3. \A d \in 2..MaxDepth : gpc'[<<r, d>>] = "none"
      BY <2>1, <2>4, <2>5, <3>2 DEF ShareAt, FreshAt
    <3>. QED
      BY <2>5, <3>1, <3>3 DEF Call
  <2>8. \/ /\ pc[r] = "idle"
           /\ var'[Call(r)] = "got" /\ \A k \in Kinds : pos'[Reader(r, k)] = 0
        \/ /\ pc[r] # "idle"
           /\ \A k \in Kinds : /\ content'[Reader(r, k)] = content[Reader(r, k)]
                               /\ pos'[Reader(r, k)] = p[Reader(r, k)]
    BY <2>1, <2>2, <2>3, <2>7, CollectShare
  <2>9. Shared \subseteq Kinds /\ \A k \in Kinds : Reader(r, k) \in Readers
    BY <2>1, ReaderType DEF Shared, Kinds
  <2>10. pc[r] \notin {"cache", "provider", "read"}
    BY <2>1 DEF ShareAt, FreshAt
  <2>11. FreshAt(r)' /\ ReadAt(r)'
    BY <2>1, <2>3, <2>5, <2>7, <2>8, <2>9, <2>10 DEF ShareAt, FreshAt, ReadAt
  <2>12. AnswerAt(r)'
    <3>1. /\ pc[r] = "written" => buf[r] = Parts
          /\ status[r] = "200" => answer[r] \in Content /\ answer[r].parts = Parts
      BY <2>1 DEF ShareAt, AnswerAt, Stored
    <3>. QED
      BY <2>3, <3>1 DEF AnswerAt
  <2>13. WholeAt(r)'
    <3>. SUFFICES ASSUME pc[r] # "idle" PROVE WholeAt(r)'
      BY <2>3, <2>5 DEF WholeAt
    <3>1. ASSUME NEW k \in Kinds, rd[r] = Reader(r, k), k \notin Shared
          PROVE  p[Reader(r, k)] = pos[Reader(r, k)]
      <4>1. ASSUME gpc[f] = "store" PROVE grd[f] # Reader(r, k)
        <5>1. PICK m \in Shared : grd[f] = Reader(r, m)
          BY <2>1, <4>1 DEF GoInv, GoAt, OwnReaders, Shared, Reader
        <5>. QED
          BY <3>1, <5>1, ReadersDiffer
      <4>. QED
        BY <2>2, <2>9, <4>1
    <3>. QED
      BY <2>1, <2>3, <2>5, <2>8, <2>9, <3>1 DEF ShareAt, WholeAt
  <2>14. TakenAt(r)'
    <3>1. CASE pc[r] = "idle"
      BY <2>3, <2>5, <2>8, <2>9, <3>1 DEF TakenAt
    <3>2. CASE pc[r] # "idle"
      <4>1. active /\ IsCached(Top(r)) /\ \A k \in Shared : pos[Reader(r, k)] = 0
        BY <2>1, <3>2 DEF ShareAt, TakenAt, Stored
      <4>2. gpc[f] = "store" => gbuf[Call(r)] = Parts
        BY <2>1, <3>2 DEF ShareAt, TakenAt
      <4>3. \A k \in Shared : \/ pos'[Reader(r, k)] = 0
                              \/ pos'[Reader(r, k)] = 2 /\ gpc[f] = "store"
        BY <2>2, <2>8, <2>9, <3>2, <4>1
      <4>. QED
        BY <2>3, <2>5, <3>2, <4>1, <4>2, <4>3 DEF TakenAt, Stored, IsCached, Top
    <3>. QED
      BY <3>1, <3>2
  <2>. QED
    BY <2>1, <2>6, <2>11, <2>12, <2>13, <2>14, Moves DEF ShareAt
<1>20. CASE Restart
  <2>. SUFFICES ASSUME NEW r \in Requests PROVE ShareAt(r)'
    BY DEF ShareInv
  <2>1. /\ \A d \in Depths : gpc'[<<r, d>>] = "none"
        /\ var'[Call(r)] = "got" /\ gpc'[Call(r)] = "none"
        /\ \A k \in Kinds : pos'[Reader(r, k)] = 0
    BY <1>20, ReaderType DEF Restart
  <2>2. 2..MaxDepth \subseteq Depths /\ Shared \subseteq Kinds
    BY ConfigAssumption DEF Depths, Shared, Kinds
  <2>3. pc'[r] = "idle" /\ status'[r] = "none" /\ buf'[r] = {}
    BY <1>20 DEF Restart
  <2>. QED
    BY <2>1, <2>2, <2>3
       DEF ShareAt, FreshAt, ReadAt, WholeAt, TakenAt, AnswerAt, Quiet
<1>21. CASE UNCHANGED vars
  <2>1. \A o \in Requests : Same(o)
    BY <1>21 DEF vars, Same
  <2>. QED
    BY <2>1, Rest DEF ShareInv
<1>. QED
  BY <1>1, <1>2, <1>3, <1>4, <1>5, <1>6, <1>7, <1>8, <1>9, <1>10, <1>11, <1>12, <1>13,
     <1>14, <1>15, <1>16, <1>17, <1>18, <1>19, <1>20, <1>21 DEF Next, Work, GoWork

\* What a goroutine stores it has read as a whole, or nothing of it.
LEMMA PartsStep ==
  ASSUME Inv, ShareInv, PartsInv, Unbroken, [Next]_vars
  PROVE  PartsInv'
<1>1. ASSUME NEW r \in Requests, NEW p \in Providers, Request(r, p) PROVE saved' = saved
  BY <1>1 DEF Request
<1>2. ASSUME NEW r \in Requests, BadRequest(r) PROVE saved' = saved
  BY <1>2 DEF BadRequest
<1>3. ASSUME NEW r \in Requests,
             CacheHit(r) \/ CacheMiss(r) \/ ProviderTile(r) \/ ProviderError(r)
               \/ ProviderPanic(r) \/ NoFallback(r) \/ CallFallback(r) \/ ReturnUnread(r)
      PROVE  saved' = saved
  BY <1>3 DEF CacheHit, HitAmong, CacheMiss, ProviderTile, ProviderError, ProviderPanic,
     NoFallback, CallFallback, ReturnUnread
<1>4. ASSUME NEW r \in Requests,
             ReadSome(r) \/ ReadError(r) \/ ReadDone(r) \/ MakeReader(r) \/ LoadReader(r)
               \/ ReturnInner(r) \/ WorkerDone(r) \/ WriteBody(r) \/ HandlerDone(r)
      PROVE  saved' = saved
  BY <1>4 DEF ReadSome, ReadBefore, ReadError, ReadDone, ReadUpTo, MakeReader, LoadReader,
     ReturnInner, WorkerDone, WriteBody, HandlerDone
<1>5. ASSUME NEW f \in Frames, GoMake(f) \/ GoLoad(f) \/ GoSkip(f) \/ GoRead(f)
      PROVE  saved' = saved
  BY <1>5 DEF GoMake, GoLoad, GoSkip, GoRead
<1>6. ASSUME NEW f \in Frames, GoStore(f) PROVE PartsInv'
  <2>. DEFINE c == [src |-> content[grd[f]].src, parts |-> gbuf[f]]
  <2>1. saved' \in {saved, saved \cup {<<gtile[f], c>>}} /\ gpc[f] = "store"
    BY <1>6 DEF GoStore
  <2>2. gbuf[f] \in {Parts, {}}
    <3>1. f[1] \in Requests /\ f = Call(f[1])
      BY <2>1, GoCall
    <3>2. TakenAt(f[1])
      BY <3>1 DEF ShareInv, ShareAt
    <3>3. gpc[Call(f[1])] = "store" => gbuf[Call(f[1])] \in {Parts, {}}
      BY <3>2 DEF TakenAt
    <3>. HIDE DEF Call
    <3>. QED
      BY <2>1, <3>1, <3>3
  <2>3. <<gtile[f], c>>[2].parts = gbuf[f]
    OBVIOUS
  <2>. HIDE DEF c
  <2>. QED
    BY <2>1, <2>2, <2>3 DEF PartsInv
<1>7. Restart \/ UNCHANGED vars => saved' = saved
  BY DEF Restart, vars
<1>8. saved' = saved => PartsInv'
  BY DEF PartsInv
<1>. QED
  BY <1>1, <1>2, <1>3, <1>4, <1>5, <1>6, <1>7, <1>8 DEF Next, Work, GoWork

\* It holds at the start and always.
LEMMA SInvInit == Init => SInv
<1>. SUFFICES ASSUME Init PROVE SInv
  OBVIOUS
<1>1. Inv
  BY InitInv
<1>2. PartsInv
  BY DEF Init, PartsInv
<1>3. ASSUME NEW r \in Requests PROVE ShareAt(r)
  <2>1. /\ \A d \in Depths : <<r, d>> \in Frames
        /\ Call(r) \in Frames /\ \A k \in Kinds : Reader(r, k) \in Readers
    BY ReaderType
  <2>2. 2..MaxDepth \subseteq Depths /\ Shared \subseteq Kinds
    BY ConfigAssumption DEF Depths, Shared, Kinds
  <2>3. /\ \A d \in Depths : gpc[<<r, d>>] = "none"
        /\ Quiet(r) /\ var[Call(r)] = "got" /\ \A k \in Kinds : pos[Reader(r, k)] = 0
    BY <2>1 DEF Init, Quiet
  <2>4. pc[r] = "idle" /\ status[r] = "none" /\ buf[r] = {}
    BY DEF Init
  <2>5. gpc[Call(r)] = "none"
    BY <2>3 DEF Quiet
  <2>. QED
    BY <2>2, <2>3, <2>4, <2>5 DEF ShareAt, FreshAt, ReadAt, WholeAt, TakenAt, AnswerAt
<1>. QED
  BY <1>1, <1>2, <1>3 DEF SInv, ShareInv

LEMMA SInvHolds == ASSUME Unbroken PROVE Spec => []SInv
<1>1. SInv /\ [Next]_vars => SInv'
  BY InvStep, ShareStep, PartsStep DEF SInv
<1>. QED
  BY <1>1, SInvInit, PTL DEF Spec

-----------------------------------------------------------------------------
(* The properties *)

\* The client gets the image whole where no goroutine shares its reader: when the
\* cache is not active, or the provider is not cached.
THEOREM UnsharedWhole == ASSUME Unbroken PROVE Spec => []UnsharedIsWhole
<1>1. SInv => UnsharedIsWhole
  BY DEF SInv, ShareInv, ShareAt, AnswerAt, Stored, UnsharedIsWhole, Requests
<1>. QED
  BY <1>1, SInvHolds, PTL

\* The image is never lost: what a client misses of it, because the goroutine that
\* saves has read it from the reader they share, that goroutine has got.
THEOREM NothingIsLost == ASSUME Unbroken PROVE Spec => []NothingLost
<1>1. SInv => NothingLost
  <2>. SUFFICES ASSUME SInv, NEW r \in Handlers, status[r] = "200"
                PROVE  answer[r].parts \cup gbuf[Call(r)] = Parts
    BY DEF NothingLost, Call
  <2>1. /\ answer[r] \in Content
        /\ answer[r].parts = Parts \/ gbuf[Call(r)] = Parts
    BY DEF SInv, ShareInv, ShareAt, AnswerAt, Stored, Requests
  <2>2. Call(r) \in Frames
    BY ReaderType DEF Requests
  <2>3. answer[r].parts \subseteq Parts /\ gbuf[Call(r)] \subseteq Parts
    BY <2>1, <2>2 DEF SInv, Inv, TypeOK, GoTypes, Content
  <2>. QED
    BY <2>1, <2>3
<1>. QED
  BY <1>1, SInvHolds, PTL

\* And what is saved of an image is all of it or nothing.
THEOREM NoPieceSaved == ASSUME Unbroken PROVE Spec => []PartsInv
BY SInvHolds, PTL DEF SInv

-----------------------------------------------------------------------------
(* Without the cache *)

\* Every body comes whole, and the cache is never active.  Fallbacks may be
\* configured, however deep.
NoCaching == ~Faults /\ CacheModes = {FALSE}

\* The reader in hand is over a whole image.  It is read from its beginning, or
\* returned untouched; and what FTile returns is at its beginning.
UntouchedAt(r) ==
  /\ pc[r] \notin {"read", "written"} => buf[r] = {}
  /\ pc[r] = "read" =>
       /\ content[rd[r]].parts = Parts
       /\ buf[r] = {i \in Parts : i <= pos[rd[r]]}
       /\ PassThrough(r) => pos[rd[r]] = 0
  /\ pc[r] \in {"make", "load"} => content[<<Frame(r), "own">>].parts = Parts
  /\ pc[r] = "load" => var[Frame(r)] = "own" /\ pos[<<Frame(r), "own">>] = 0
  /\ pc[r] = "return" => content[rd[r]].parts = Parts /\ pos[rd[r]] = 0
  /\ pc[r] = "written" => buf[r] = Parts
  /\ status[r] = "200" => answer[r].parts = Parts

\* No call leaves a goroutine behind.
AloneInv == \A f \in Frames : gpc[f] = "none"

OffInv == Inv /\ AloneInv /\ \A r \in Requests : UntouchedAt(r)

\* A request that is left alone keeps what it has in hand.
LEMMA UntouchedRests ==
  ASSUME TypeOK, StackInv, NEW o \in Requests, HandAt(o), UntouchedAt(o), Untouched(o),
         active' = active
  PROVE  UntouchedAt(o)'
<1>1. pc[o] # "idle" => /\ Frame(o) \in Frames /\ Frame(o)[1] = o
                        /\ <<Frame(o), "own">> \in Readers
  BY FrameAt
<1>2. Frame(o)' = Frame(o) /\ (PassThrough(o)' <=> PassThrough(o))
  BY DEF Untouched, Frame, PassThrough, Top, IsCached
<1>3. pc[o] \in {"read", "return"} => rd[o] \in Readers /\ rd[o][1][1] = o
  BY DEF HandAt, Holds
<1>4. pc[o] \in {"make", "load"} =>
        /\ var'[Frame(o)] = var[Frame(o)]
        /\ content'[<<Frame(o), "own">>] = content[<<Frame(o), "own">>]
        /\ pos'[<<Frame(o), "own">>] = pos[<<Frame(o), "own">>]
  BY <1>1 DEF Untouched
<1>5. pc[o] \in {"read", "return"} =>
        content'[rd[o]] = content[rd[o]] /\ pos'[rd[o]] = pos[rd[o]]
  BY <1>3 DEF Untouched
<1>. QED
  BY <1>2, <1>4, <1>5 DEF UntouchedAt, Untouched

\* The parts up to the next one.
LEMMA PartsUpTo ==
  ASSUME NEW n \in {0, 1}
  PROVE  {i \in Parts : i <= n + 1} = {i \in Parts : i <= n} \cup (Parts \cap {n + 1})
<1>. USE DEF Parts
<1>1. \A i \in Parts : i <= n + 1 <=> i <= n \/ i = n + 1
  OBVIOUS
<1>. HIDE DEF Parts
<1>. QED
  BY <1>1

\* The reader in hand stays whole and is read once, through all the fallbacks.
LEMMA OffStep ==
  ASSUME NoCaching, OffInv, [Next]_vars
  PROVE  OffInv'
<1>. USE DEF procVars, reqVars, readVars, goVars, Goto
<1>1. Inv' /\ TypeOK /\ StackInv /\ TypeOK' /\ StackInv'
  BY InvStep DEF OffInv, Inv
<1>2. active = FALSE /\ active' = FALSE
  BY <1>1 DEF NoCaching, TypeOK, ProcTypes
<1>3. \A r \in Requests : HandAt(r) /\ UntouchedAt(r)
  BY DEF OffInv, Inv, HandInv
<1>4. ASSUME NEW r \in Requests, \A o \in Requests \ {r} : Untouched(o), AloneInv',
             UntouchedAt(r)'
      PROVE  OffInv'
  <2>1. \A o \in Requests \ {r} : UntouchedAt(o)'
    BY <1>1, <1>2, <1>3, <1>4, UntouchedRests
  <2>. QED
    BY <1>1, <1>4, <2>1 DEF OffInv
<1>5. ASSUME NEW r \in Requests, Work(r) PROVE OffInv'
  <2>1. pc[r] # "idle"
    BY <1>5, AtWork
  <2>2. /\ Frame(r) \in Frames /\ Top(r) \in Providers
        /\ \A k \in Kinds : <<Frame(r), k>> \in Readers
    BY <1>1, <2>1, FrameAt DEF Kinds
  <2>3. \A o \in Requests \ {r} : Untouched(o)
    BY <1>1, <1>5, OthersUntouched DEF OffInv, Inv
  <2>4. UntouchedAt(r) /\ HandAt(r) /\ status[r] = "none" /\ stack[r] # <<>>
    BY <1>1, <1>3, <2>1 DEF StackInv
  <2>5. Holds(r) => rd[r] \in Readers /\ content[rd[r]] \in Content
    BY <2>2, <2>4, ImageType DEF HandAt
  <2>. SUFFICES AloneInv' /\ UntouchedAt(r)'
    BY <1>4, <2>3
  <2>6. ASSUME gpc' = gpc PROVE AloneInv'
    BY <2>6 DEF AloneInv, OffInv
  <2>. USE DEF TypeOK, ReqTypes, ReadTypes
  <2>7. CASE CacheHit(r)
    BY <1>2, <2>7 DEF CacheHit, HitAmong
  <2>8. CASE ProviderTile(r) \/ NoFallback(r)
    <3>1. PICK k \in Kinds, p \in Providers \cup {EmptyPNG} :
            Hand(r, k, Image(p), "read") /\ gpc' = gpc /\ pc[r] = "provider"
      BY <2>2, <2>8 DEF ProviderTile, NoFallback, Kinds
    <3>2. /\ pc'[r] = "read" /\ rd'[r] = <<Frame(r), k>> /\ buf'[r] = buf[r]
          /\ status'[r] = "none"
          /\ content'[<<Frame(r), k>>] = Image(p) /\ pos'[<<Frame(r), k>>] = 0
      BY <1>1, <2>2, <2>4, <3>1 DEF Hand
    <3>3. buf[r] = {} /\ Image(p).parts = Parts /\ {i \in Parts : i <= 0} = {}
      BY <2>4, <3>1 DEF UntouchedAt, Image, Parts
    <3>. QED
      BY <2>6, <3>1, <3>2, <3>3 DEF UntouchedAt
  <2>9. CASE ProviderError(r) \/ ProviderPanic(r) \/ ReadError(r)
    <3>1. gpc' = gpc /\ pc'[r] = "idle" /\ buf'[r] = {} /\ status'[r] = "500"
      BY <1>1, <2>9 DEF ProviderError, ProviderPanic, ReadError, Fail, FailWith
    <3>. QED
      BY <2>6, <3>1 DEF UntouchedAt
  <2>10. CASE CacheMiss(r) \/ CallFallback(r)
    <3>1. /\ pc[r] \in {"cache", "provider"} /\ pc'[r] \in {"cache", "provider"}
          /\ buf' = buf /\ status' = status /\ gpc' = gpc
      BY <1>1, <2>10 DEF CacheMiss, CallFallback
    <3>. QED
      BY <2>4, <2>6, <3>1 DEF UntouchedAt
  <2>11. CASE ReturnUnread(r)
    <3>1. /\ pc[r] = "read" /\ PassThrough(r) /\ pc'[r] = "return"
          /\ UNCHANGED <<rd, buf, status, content, pos, gpc>>
      BY <1>1, <2>11 DEF ReturnUnread
    <3>2. buf[r] = {}
      BY <2>4, <3>1 DEF UntouchedAt, Parts
    <3>. QED
      BY <2>4, <2>6, <3>1, <3>2 DEF UntouchedAt
  <2>12. CASE ReadSome(r)
    <3>. DEFINE x == rd[r]
    <3>1. /\ pc[r] = "read" /\ pc' = pc /\ rd' = rd /\ ~PassThrough(r) /\ pos[x] < 2
          /\ buf'[r] = buf[r] \cup (content[x].parts \cap {pos[x] + 1})
          /\ pos' = [pos EXCEPT ![x] = pos[x] + 1]
          /\ UNCHANGED <<stack, status, answer, content, gpc>>
      BY <1>1, <2>12 DEF ReadSome, ReadBefore
    <3>2. x \in Readers /\ pos[x] \in 0..2
      BY <1>1, <2>5, <3>1 DEF Holds
    <3>3. pos'[x] = pos[x] + 1
      BY <1>1, <3>1, <3>2
    <3>4. content[x].parts = Parts /\ buf[r] = {i \in Parts : i <= pos[x]}
      BY <2>4, <3>1 DEF UntouchedAt
    <3>5. buf'[r] = {i \in Parts : i <= pos[x] + 1}
      <4>1. PICK n \in {0, 1} : n = pos[x]
        BY <3>1, <3>2
      <4>2. {i \in Parts : i <= n + 1} = {i \in Parts : i <= n} \cup (Parts \cap {n + 1})
        BY PartsUpTo
      <4>3. buf'[r] = buf[r] \cup (Parts \cap {pos[x] + 1})
        BY <3>1, <3>4
      <4>. QED
        BY <3>4, <4>1, <4>2, <4>3
    <3>6. PassThrough(r)' <=> PassThrough(r)
      BY <1>2, <3>1 DEF PassThrough, Top
    <3>. HIDE DEF x
    <3>. QED
      BY <2>4, <2>6, <3>1, <3>3, <3>4, <3>5, <3>6 DEF UntouchedAt, x
  <2>13. CASE ReadDone(r)
    <3>. DEFINE x == rd[r]
                c == [src |-> content[x].src, parts |-> buf[r]]
    <3>1. /\ pc[r] = "read" /\ pc'[r] = "make" /\ ~PassThrough(r) /\ pos[x] >= 2
          /\ content' = [content EXCEPT ![<<Frame(r), "own">>] = c, ![<<Frame(r), "save">>] = c]
          /\ gpc' = [gpc EXCEPT ![Frame(r)] = IF IsCached(Top(r)) THEN "make" ELSE "none"]
          /\ buf'[r] = {} /\ UNCHANGED <<stack, status, answer>>
      BY <1>1, <2>13 DEF ReadDone, ReadUpTo
    <3>2. x \in Readers /\ pos[x] \in 0..2
      BY <1>1, <2>5, <3>1 DEF Holds
    <3>3. buf[r] = Parts
      BY <2>4, <3>1, <3>2 DEF UntouchedAt, Parts
    <3>4. content'[<<Frame(r), "own">>] = c
      BY <1>1, <2>2, <3>1 DEF Kinds
    <3>5. c.parts = Parts
      BY <3>3
    <3>6. AloneInv'
      BY <1>2, <3>1 DEF PassThrough, AloneInv, OffInv
    <3>7. Frame(r)' = Frame(r)
      BY <3>1 DEF Frame
    <3>. HIDE DEF x, c
    <3>. QED
      BY <2>4, <3>1, <3>4, <3>5, <3>6, <3>7 DEF UntouchedAt
  <2>14. CASE MakeReader(r)
    <3>1. /\ pc[r] = "make" /\ pc'[r] = "load" /\ UNCHANGED <<stack, buf, status, content, gpc>>
          /\ var'[Frame(r)] = "own" /\ pos'[<<Frame(r), "own">>] = 0
      BY <1>1, <2>2, <2>14 DEF MakeReader, Kinds
    <3>2. Frame(r)' = Frame(r)
      BY <3>1 DEF Frame
    <3>. QED
      BY <2>4, <2>6, <3>1, <3>2 DEF UntouchedAt
  <2>15. CASE LoadReader(r)
    <3>1. /\ pc[r] = "load" /\ pc'[r] = "return" /\ rd'[r] = <<Frame(r), var[Frame(r)]>>
          /\ UNCHANGED <<buf, status, content, pos, gpc>>
      BY <1>1, <2>15 DEF LoadReader
    <3>2. rd'[r] = <<Frame(r), "own">>
      BY <2>4, <3>1 DEF UntouchedAt
    <3>. QED
      BY <2>4, <2>6, <3>1, <3>2 DEF UntouchedAt
  <2>16. CASE ReturnInner(r)
    <3>1. /\ pc[r] = "return" /\ pc'[r] = "read" /\ UNCHANGED <<rd, buf, status, content, pos, gpc>>
      BY <1>1, <2>16 DEF ReturnInner
    <3>2. {i \in Parts : i <= 0} = {}
      BY DEF Parts
    <3>. QED
      BY <2>4, <2>6, <3>1, <3>2 DEF UntouchedAt
  <2>17. CASE WorkerDone(r)
    <3>1. /\ pc[r] = "return" /\ pc'[r] = "idle" /\ UNCHANGED <<buf, status, gpc>>
      BY <1>1, <2>17 DEF WorkerDone
    <3>. QED
      BY <2>4, <2>6, <3>1 DEF UntouchedAt
  <2>18. CASE WriteBody(r)
    <3>1. /\ pc[r] = "return" /\ pc'[r] = "written" /\ UNCHANGED <<status, gpc>>
          /\ buf'[r] = Remaining(rd[r])
      BY <1>1, <2>18 DEF WriteBody, Breaks, NoCaching
    <3>2. Remaining(rd[r]) = Parts
      BY <2>4, <3>1 DEF UntouchedAt, Remaining, Parts
    <3>. QED
      BY <2>4, <2>6, <3>1, <3>2 DEF UntouchedAt
  <2>19. CASE HandlerDone(r)
    <3>1. /\ pc[r] = "written" /\ pc'[r] = "idle" /\ buf'[r] = {} /\ gpc' = gpc
          /\ answer'[r] = [src |-> content[rd[r]].src, parts |-> buf[r]]
      BY <1>1, <2>19 DEF HandlerDone
    <3>2. answer'[r].parts = Parts
      BY <2>4, <3>1 DEF UntouchedAt
    <3>. QED
      BY <2>6, <3>1, <3>2 DEF UntouchedAt
  <2>. QED
    BY <1>5, <2>7, <2>8, <2>9, <2>10, <2>11, <2>12, <2>13, <2>14, <2>15, <2>16, <2>17,
       <2>18, <2>19 DEF Work
<1>6. ASSUME NEW r \in Requests, BadRequest(r) PROVE OffInv'
  <2>1. \A o \in Requests \ {r} : Untouched(o)
    BY <1>1, <1>6 DEF BadRequest, Untouched, TypeOK, ReqTypes
  <2>2. UntouchedAt(r)'
    BY <1>1, <1>3, <1>6 DEF BadRequest, Free, UntouchedAt, TypeOK, ReqTypes
  <2>3. AloneInv'
    BY <1>6 DEF BadRequest, AloneInv, OffInv
  <2>. QED
    BY <1>4, <2>1, <2>2, <2>3
<1>7. ASSUME NEW r \in Requests, NEW p \in Providers, Request(r, p) PROVE OffInv'
  <2>1. \A o \in Requests \ {r} : Untouched(o)
    BY <1>1, <1>7 DEF Request, Untouched, TypeOK, ReqTypes
  <2>2. UntouchedAt(r)'
    <3>1. /\ pc[r] = "idle" /\ pc'[r] = "cache" /\ buf' = buf
          /\ status'[r] = "none"
      BY <1>1, <1>7 DEF Request, Free, TypeOK, ReqTypes
    <3>2. buf[r] = {}
      BY <1>3, <3>1 DEF UntouchedAt
    <3>. QED
      BY <3>1, <3>2 DEF UntouchedAt
  <2>3. AloneInv'
    BY <1>7 DEF Request, AloneInv, OffInv
  <2>. QED
    BY <1>4, <2>1, <2>2, <2>3
<1>8. ASSUME NEW f \in Frames, GoWork(f) PROVE OffInv'
  BY <1>8 DEF OffInv, AloneInv, GoWork, GoMake, GoLoad, GoSkip, GoRead, GoStore
<1>9. ASSUME Restart PROVE OffInv'
  BY <1>1, <1>9 DEF Restart, OffInv, AloneInv, UntouchedAt
<1>10. ASSUME UNCHANGED vars PROVE OffInv'
  <2>1. \A r \in Requests : UntouchedAt(r)'
    BY <1>3, <1>10 DEF vars, UntouchedAt, PassThrough, Frame, Top
  <2>. QED
    BY <1>1, <1>10, <2>1 DEF OffInv, AloneInv, vars
<1>. QED
  BY <1>5, <1>6, <1>7, <1>8, <1>9, <1>10 DEF Next

\* Without the cache every client gets the image whole, also through any chain of
\* fallbacks: what may cost a client the image is the goroutine that saves it, and
\* nothing else.
THEOREM WholeWithoutCache == ASSUME NoCaching PROVE Spec => []ClientGetsWhole
<1>1. Init => OffInv
  BY InitInv DEF Init, OffInv, AloneInv, UntouchedAt
<1>2. OffInv /\ [Next]_vars => OffInv'
  BY OffStep
<1>3. OffInv => ClientGetsWhole
  BY DEF OffInv, UntouchedAt, ClientGetsWhole, Requests
<1>. QED
  BY <1>1, <1>2, <1>3, PTL DEF Spec

=============================================================================
