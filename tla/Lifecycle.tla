------------------------------- MODULE Lifecycle -------------------------------
(***************************************************************************)
(* The life of the process: main.go, internal/do.go, internal/shttp and    *)
(* internal/api.  main reads the configuration, initialises the parts in   *)
(* a fixed order, starts a prefetch and one or two servers, waits for an   *)
(* interrupt, shuts the servers down within one deadline of 15 s for both  *)
(* and stops the cache.  Around it run the goroutines it started: the      *)
(* servers, the handlers of requests, the savings of tiles, the prefetch   *)
(* and the garbage collection of the index.                                *)
(***************************************************************************)
EXTENDS Naturals

CONSTANTS
  Requests,    \* the requests clients make in the life of the process
  Kind,        \* what each of them asks for
  FilePorts, FlagPorts, SslPorts,  \* values of port, -p and sslport, 0 if not set
  DefaultPort

Servers == {"http", "https"}
Kinds == {"tile", "metrics", "health"}

ASSUME LifecycleAssumption ==
  /\ Kind \in [Requests -> Kinds]
  /\ FilePorts \cup FlagPorts \cup SslPorts \subseteq Nat
  /\ DefaultPort \in Nat \ {0}

\* What the user has configured; pem: certificate and key are files.
Conf == [file : FilePorts, flag : FlagPorts, ssl : SslPorts,
         pem : BOOLEAN, active : BOOLEAN, prefetch : BOOLEAN]

VARIABLES
  conf,
  port,      \* config.HTTP.Port
  served,    \* the port in the copy of the configuration the servers were given
  main,      \* place of main
  index,     \* the badger database of the cache: db is nil if it is not open
  pf,        \* the prefetch
  srv,       \* state of each server
  req,       \* each request: the server that handles it, or new, or done
  saves,     \* requests whose tile a goroutine is still saving
  deadline,  \* the context of ShutdownServers
  exit       \* how the process has ended; crash: a panic of another goroutine

confVars == <<conf, port, served>>
bgVars == <<pf, srv, req, saves>>
vars == <<confVars, main, index, bgVars, deadline, exit>>

StartPlaces ==
  {"load", "param", "config", "providers", "cache", "prefetch", "startHttps",
   "startHttp", "notify"}
StopPlaces == {"shutHttp", "drainHttp", "shutHttps", "drainHttps", "stop"}

UseSSL == conf.ssl > 0
PortOf(s) == IF s = "https" THEN conf.ssl ELSE served

Init ==
  /\ conf \in Conf
  /\ port = 0 /\ served = 0
  /\ main = "load"
  /\ index = "none"
  /\ pf = "off"
  /\ srv = [s \in Servers |-> "none"]
  /\ req = [r \in Requests |-> "new"]
  /\ saves = {}
  /\ deadline = "idle"
  /\ exit = "running"

\* main ends with the process, or goes on.
End(code) == exit' = code /\ main' = "ended"
GoTo(place) == main' = place /\ UNCHANGED exit

-----------------------------------------------------------------------------
(* Starting up *)

\* No config file: exit 1.  One that cannot be read: a panic.
LoadPort(p) ==
  /\ main = "load"
  /\ \/ End("one") /\ UNCHANGED port
     \/ End("two") /\ UNCHANGED port
     \/ GoTo("param") /\ port' = p
  /\ UNCHANGED <<conf, served, index, bgVars, deadline>>

\* Mutant: the default port is forgotten.
LoadBare == LoadPort(conf.file)

Load == LoadPort(IF conf.file = 0 THEN DefaultPort ELSE conf.file)

SetParameter ==
  /\ main = "param"
  /\ port' = IF conf.flag > 0 THEN conf.flag ELSE port
  /\ GoTo("config")
  /\ UNCHANGED <<conf, served, index, bgVars, deadline>>

\* The injector is given a copy of the configuration.
HandOut(p) ==
  /\ main = "config"
  /\ served' = p
  /\ GoTo("providers")
  /\ UNCHANGED <<conf, port, index, bgVars, deadline>>

\* Mutant: the configuration is handed out as it is in the file.
InitConfigEarly == HandOut(IF conf.file = 0 THEN DefaultPort ELSE conf.file)

InitConfig == HandOut(port)

\* An unknown type, or an mbtiles file that cannot be opened, is a panic.
InitProviders ==
  /\ main = "providers"
  /\ End("two") \/ GoTo("cache")
  /\ UNCHANGED <<confVars, index, bgVars, deadline>>

\* That the index cannot be opened is logged only.
OpenIndex(outcomes) ==
  /\ main = "cache"
  /\ index' \in outcomes
  /\ GoTo("prefetch")
  /\ UNCHANGED <<confVars, bgVars, deadline>>

\* Mutant: the index is opened later, if at all.
InitCacheLazy == OpenIndex({"none"})

InitCache == OpenIndex(IF conf.active THEN {"open", "failed"} ELSE {"none"})

StartPrefetch ==
  /\ main = "prefetch"
  /\ pf' = IF conf.prefetch THEN "running" ELSE "off"
  /\ GoTo(IF UseSSL THEN "startHttps" ELSE "startHttp")
  /\ UNCHANGED <<confVars, index, srv, req, saves, deadline>>

\* An error of the files is a panic of the caller, one of the generation exit 1.
TLSFromFiles == {"ok", "two"}
GenerateTLSConfig == {"ok", "one"}

StartHTTPS ==
  /\ main = "startHttps"
  /\ \E outcome \in IF conf.pem THEN TLSFromFiles ELSE GenerateTLSConfig :
       IF outcome = "ok"
       THEN GoTo("startHttp") /\ srv' = [srv EXCEPT !["https"] = "starting"]
       ELSE End(outcome) /\ UNCHANGED srv
  /\ UNCHANGED <<confVars, index, pf, req, saves, deadline>>

StartHTTP ==
  /\ main = "startHttp"
  /\ srv' = [srv EXCEPT !["http"] = "starting"]
  /\ GoTo("notify")
  /\ UNCHANGED <<confVars, index, pf, req, saves, deadline>>

Notify ==
  /\ main = "notify"
  /\ GoTo("wait")
  /\ UNCHANGED <<confVars, index, bgVars, deadline>>

-----------------------------------------------------------------------------
(* The servers and the goroutines *)

\* ListenAndServe in a goroutine; that it fails is logged only.
Listen(s) ==
  /\ srv[s] = "starting"
  /\ \/ /\ \A o \in Servers \ {s} : srv[o] = "listening" => PortOf(o) # PortOf(s)
        /\ srv' = [srv EXCEPT ![s] = "listening"]
     \/ srv' = [srv EXCEPT ![s] = "failed"]
  /\ UNCHANGED <<confVars, main, index, pf, req, saves, deadline, exit>>

APIRoutes == {"tile", "metrics"}
HealthRoutes == {"health"}

\* StartServers: with TLS the routes of the API are on that server alone.
Mounted(s) == IF s = "http" /\ UseSSL THEN HealthRoutes ELSE APIRoutes

\* A path that no route is mounted for is answered at once.
Accept(r, s) ==
  /\ req[r] = "new" /\ srv[s] = "listening"
  /\ req' = [req EXCEPT ![r] = IF Kind[r] \in Mounted(s) THEN s ELSE "done"]
  /\ UNCHANGED <<confVars, main, index, pf, srv, saves, deadline, exit>>

\* The handler of a tile may leave a goroutine behind that saves it.
Answer(r) ==
  /\ req[r] \in Servers
  /\ req' = [req EXCEPT ![r] = "done"]
  /\ \/ UNCHANGED saves
     \/ Kind[r] = "tile" /\ conf.active /\ saves' = saves \cup {r}
  /\ UNCHANGED <<confVars, main, index, pf, srv, deadline, exit>>

SaveEnd(r) ==
  /\ r \in saves
  /\ saves' = saves \ {r}
  /\ UNCHANGED <<confVars, main, index, pf, srv, req, deadline, exit>>

\* The prefetch comes to its end, or a worker panics (see Prefetch).
PrefetchEnd ==
  /\ pf = "running"
  /\ \/ pf' = "done" /\ UNCHANGED <<main, exit>>
     \/ End("crash") /\ UNCHANGED pf
  /\ UNCHANGED <<confVars, index, srv, req, saves, deadline>>

\* The hourly garbage collection calls a method of a nil database.
GCTick ==
  /\ index = "failed"
  /\ End("crash")
  /\ UNCHANGED <<confVars, index, bgVars, deadline>>

-----------------------------------------------------------------------------
(* Shutting down *)

\* Before main listens for it an interrupt ends the process at once; the second
\* one goes into the buffer of the channel and is not read.
Interrupt ==
  /\ \/ main = "wait" /\ GoTo("shutHttp")
     \/ main \in StartPlaces /\ End("killed")
  /\ UNCHANGED <<confVars, index, bgVars, deadline>>

\* Any other signal (docker stop sends SIGTERM).
Terminate == End("killed") /\ UNCHANGED <<confVars, index, bgVars, deadline>>

\* http.Server.Shutdown: the server listens no longer, nor will it start to.
Shut(s) == srv' = [srv EXCEPT ![s] = "closed"]
Idle(s) == \A r \in Requests : req[r] # s

ShutHTTP ==
  /\ main = "shutHttp"
  /\ Shut("http")
  /\ deadline' = "running"
  /\ GoTo("drainHttp")
  /\ UNCHANGED <<confVars, index, pf, req, saves>>

\* Mutant: the context has no deadline.
TimeoutNever == FALSE /\ UNCHANGED vars

Timeout ==
  /\ deadline = "running" /\ main \in {"drainHttp", "shutHttps", "drainHttps"}
  /\ deadline' = "passed"
  /\ UNCHANGED <<confVars, main, index, bgVars, exit>>

\* Shutdown comes back when no handler is left, or with the error of the context.
Drain(place, s, nextPlace) ==
  /\ main = place
  /\ Idle(s) \/ deadline = "passed"
  /\ GoTo(nextPlace)
  /\ UNCHANGED <<confVars, index, bgVars, deadline>>

\* Mutant: the second server is not shut down.
DrainHTTPOnly == Drain("drainHttp", "http", "stop")

DrainHTTP == Drain("drainHttp", "http", IF UseSSL THEN "shutHttps" ELSE "stop")

ShutHTTPS ==
  /\ main = "shutHttps"
  /\ Shut("https")
  /\ GoTo("drainHttps")
  /\ UNCHANGED <<confVars, index, pf, req, saves, deadline>>

\* The same context: nothing may be left of its 15 s.
DrainHTTPS == Drain("drainHttps", "https", "stop")

\* The results of Cache.Tile, and of the method Tile that Stop asks for.
TileResult == <<"io.ReadCloser", "bool">>
StopResult == <<"io.Reader", "bool">>

\* do.MustInvokeAs panics when no service has the methods of the interface.
Stop ==
  /\ main = "stop"
  /\ IF TileResult = StopResult
     THEN /\ index' = IF index = "open" THEN "closed" ELSE index
          /\ End("zero")
     ELSE End("two") /\ UNCHANGED index
  /\ UNCHANGED <<confVars, bgVars, deadline>>

-----------------------------------------------------------------------------
Startup ==
  \/ Load \/ SetParameter \/ InitConfig \/ InitProviders \/ InitCache
  \/ StartPrefetch \/ StartHTTPS \/ StartHTTP \/ Notify

Shutdown ==
  ShutHTTP \/ DrainHTTP \/ ShutHTTPS \/ DrainHTTPS \/ Stop

Background ==
  \/ \E s \in Servers : Listen(s)
  \/ \E r \in Requests : Answer(r) \/ SaveEnd(r) \/ \E s \in Servers : Accept(r, s)
  \/ PrefetchEnd \/ GCTick \/ Interrupt \/ Terminate

Next ==
  /\ exit = "running"
  /\ Startup \/ Shutdown \/ Timeout \/ Background

Spec == Init /\ [][Next]_vars

\* main is scheduled and time passes; nothing is assumed of handlers.
FairSpec ==
  /\ Spec
  /\ WF_vars(exit = "running" /\ (Startup \/ Shutdown))
  /\ WF_vars(exit = "running" /\ Timeout)

-----------------------------------------------------------------------------
(* Properties *)

\* Every variable stays in its range; once the config file is read there is a port.
TypeOK ==
  /\ conf \in Conf
  /\ port \in Nat /\ served \in Nat
  /\ main \in StartPlaces \cup StopPlaces \cup {"wait", "ended"}
  /\ main \notin {"load", "ended"} => port > 0
  /\ index \in {"none", "open", "failed", "closed"}
  /\ pf \in {"off", "running", "done"}
  /\ srv \in [Servers -> {"none", "starting", "listening", "failed", "closed"}]
  /\ req \in [Requests -> Servers \cup {"new", "done"}]
  /\ saves \subseteq Requests
  /\ deadline \in {"idle", "running", "passed"}
  /\ exit \in {"running", "zero", "one", "two", "crash", "killed"}

\* The cache is asked for a tile, by a handler or by the prefetch, only after main
\* has tried to open its index: the order of internal.Init, prefetch.Prefetch and
\* StartServers.
UsedAfterOpen ==
  conf.active /\ (pf = "running" \/ \E r \in Requests : req[r] \in Servers)
    => index # "none"

\* README: the flag -p overwrites the port of the config file, although the servers
\* are given a copy of the configuration made in between.
FlagWins ==
  srv["http"] = "listening" =>
    served = IF conf.flag > 0 THEN conf.flag
             ELSE IF conf.file > 0 THEN conf.file ELSE DefaultPort

\* ShutdownServers lets the handlers come to their end: when main has stopped the
\* process after an interrupt, a request is cut off only if the deadline has passed,
\* whichever server it came to and however late that one started to listen.
NoneCutOff ==
  exit \in {"zero", "two"} /\ deadline = "running" =>
    \A r \in Requests : req[r] \notin Servers

\* The steps of main that are left of a shutdown.
StopLeft ==
  [shutHttp |-> 5, drainHttp |-> 4, shutHttps |-> 3, drainHttps |-> 2, stop |-> 1]

\* A shutdown only goes forward, through each server once and to the end of the
\* process, and there is one deadline for all of it: it runs from the first call of
\* Shutdown on and is not set again.
ShutdownGetsOn ==
  [][/\ main \in StopPlaces /\ main' # main =>
          main' = "ended" \/ (main' \in StopPlaces /\ StopLeft[main'] < StopLeft[main])
     /\ deadline # "idle" => deadline' # "idle"
     /\ deadline = "passed" => deadline' = "passed"
    ]_vars

\* In a shutdown main goes on, or waits for handlers while the deadline runs: it is
\* never left with handlers that do not end and no time limit.
NeverStuck ==
  main \in StopPlaces =>
    \/ main \in {"shutHttp", "shutHttps", "stop"}
    \/ main = "drainHttp" /\ Idle("http")
    \/ main = "drainHttps" /\ Idle("https")
    \/ deadline \in {"running", "passed"}

\* An interrupt ends the process even if no handler ever ends.
InterruptEnds == main = "shutHttp" ~> exit # "running"

\* Stop closes the index: the interface of do.go asks for the service that has a
\* Close, and main.go goes on to os.Exit(0).
IndexClosed == main = "ended" /\ exit \in {"zero", "two"} /\ deadline # "idle" =>
  index # "open" /\ exit = "zero"

\* Without an index the cache is a cache that has nothing (cache.go:320, 333, 361):
\* the process goes on.
LivesWithoutIndex == exit = "crash" => index # "failed"

\* What a handler has left to be saved is saved before the process is stopped.
SavesFinish == exit \in {"zero", "two"} => saves = {}
=============================================================================
