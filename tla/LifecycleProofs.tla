---------------------------- MODULE LifecycleProofs ----------------------------
(***************************************************************************)
(* The safety properties of Lifecycle for any number of requests, any      *)
(* configuration and any ports.  The invariant says for every place of     *)
(* main what is done by then: the port, the index, the servers, and what   *)
(* the shutdown has achieved.                                              *)
(***************************************************************************)
EXTENDS Lifecycle, TLAPS

BeforeIndex == {"load", "param", "config", "providers", "cache"}
BeforeServers == BeforeIndex \cup {"prefetch", "startHttps"}
BeforeDeadline == StartPlaces \cup {"wait", "shutHttp"}

FilePort == IF conf.file > 0 THEN conf.file ELSE DefaultPort
WantedPort == IF conf.flag > 0 THEN conf.flag ELSE FilePort

\* The port on its way from the file to the server.
PortInv ==
  /\ main = "param" => port = FilePort
  /\ main = "config" => port = WantedPort
  /\ main \notin {"load", "param", "config", "ended"} => served = WantedPort
  /\ \A s \in Servers : srv[s] # "none" => served = WantedPort

\* The index is tried before there is anybody to use it.
IndexInv ==
  /\ main \in BeforeServers => \A s \in Servers : srv[s] = "none"
  /\ main \in BeforeIndex \cup {"prefetch"} => pf = "off"
  /\ \A r \in Requests, s \in Servers : req[r] = s => srv[s] # "none"
  /\ conf.active => \/ index # "none"
                    \/ main \in BeforeIndex
                    \/ main = "ended" /\ pf = "off" /\ \A s \in Servers : srv[s] = "none"

\* Server s was told to shut down, and has no handler left if there was time.
Settled(s) ==
  /\ srv[s] \in {"none", "closed"}
  /\ deadline = "running" => Idle(s)

\* What the shutdown has achieved at each place.
DrainInv ==
  /\ main = "ended" <=> exit # "running"
  /\ main \in BeforeDeadline => deadline = "idle"
  /\ main = "drainHttp" => srv["http"] = "closed"
  /\ main = "drainHttps" => srv["https"] = "closed"
  /\ main \in {"shutHttps", "drainHttps", "stop"} => Settled("http")
  /\ main = "stop" => Settled("https")
  /\ main \in {"startHttps", "shutHttps", "drainHttps"} => UseSSL
  /\ ~UseSSL => srv["https"] = "none"

Inv == TypeOK /\ PortInv /\ IndexInv /\ DrainInv /\ NoneCutOff

\* Every step leaves the variables in their ranges.
LEMMA TypeStep ==
  ASSUME TypeOK, [Next]_vars
  PROVE  TypeOK'
<1>. USE DEF TypeOK, Conf, StartPlaces, StopPlaces, Servers, End, GoTo, confVars, bgVars
<1>1. CASE Load
  BY <1>1, LifecycleAssumption DEF Load, LoadPort
<1>2. CASE SetParameter
  BY <1>2, LifecycleAssumption DEF SetParameter
<1>3. CASE InitConfig
  BY <1>3 DEF InitConfig, HandOut
<1>4. CASE InitProviders
  BY <1>4 DEF InitProviders
<1>5. CASE InitCache
  BY <1>5 DEF InitCache, OpenIndex
<1>6. CASE StartPrefetch
  BY <1>6 DEF StartPrefetch
<1>7. CASE StartHTTPS
  BY <1>7 DEF StartHTTPS, TLSFromFiles, GenerateTLSConfig
<1>8. CASE StartHTTP
  BY <1>8 DEF StartHTTP
<1>9. CASE Notify
  BY <1>9 DEF Notify
<1>10. CASE ShutHTTP
  BY <1>10 DEF ShutHTTP, Shut
<1>11. CASE DrainHTTP
  BY <1>11 DEF DrainHTTP, Drain
<1>12. CASE ShutHTTPS
  BY <1>12 DEF ShutHTTPS, Shut
<1>13. CASE DrainHTTPS
  BY <1>13 DEF DrainHTTPS, Drain
<1>14. CASE Stop
  BY <1>14 DEF Stop
<1>15. CASE Timeout
  BY <1>15 DEF Timeout
<1>16. CASE \E s \in Servers : Listen(s)
  BY <1>16 DEF Listen
<1>17. CASE \E r \in Requests : Answer(r)
  BY <1>17 DEF Answer
<1>18. CASE \E r \in Requests : SaveEnd(r)
  BY <1>18 DEF SaveEnd
<1>19. CASE \E r \in Requests, s \in Servers : Accept(r, s)
  BY <1>19 DEF Accept
<1>20. CASE PrefetchEnd
  BY <1>20 DEF PrefetchEnd
<1>21. CASE GCTick
  BY <1>21 DEF GCTick
<1>22. CASE Interrupt
  BY <1>22 DEF Interrupt
<1>23. CASE Terminate
  BY <1>23 DEF Terminate
<1>24. CASE UNCHANGED vars
  BY <1>24 DEF vars
<1>. QED
  BY <1>1, <1>2, <1>3, <1>4, <1>5, <1>6, <1>7, <1>8, <1>9, <1>10, <1>11,
     <1>12, <1>13, <1>14, <1>15, <1>16, <1>17, <1>18, <1>19, <1>20, <1>21,
     <1>22, <1>23, <1>24 DEF Next, Startup, Shutdown, Background

\* The port gets from the file and the flag to the servers, whatever order the
\* goroutines run in.
LEMMA PortStep ==
  ASSUME TypeOK, PortInv, IndexInv, [Next]_vars
  PROVE  PortInv'
<1>. USE DEF TypeOK, Conf, PortInv, IndexInv, BeforeIndex, BeforeServers, FilePort, WantedPort, StartPlaces, StopPlaces, Servers, End, GoTo, confVars, bgVars
<1>1. CASE Load
  BY <1>1, LifecycleAssumption DEF Load, LoadPort
<1>2. CASE SetParameter
  BY <1>2 DEF SetParameter
<1>3. CASE InitConfig
  BY <1>3 DEF InitConfig, HandOut
<1>4. CASE InitProviders
  BY <1>4 DEF InitProviders
<1>5. CASE InitCache
  BY <1>5 DEF InitCache, OpenIndex
<1>6. CASE StartPrefetch
  BY <1>6 DEF StartPrefetch
<1>7. CASE StartHTTPS
  BY <1>7 DEF StartHTTPS, TLSFromFiles, GenerateTLSConfig
<1>8. CASE StartHTTP
  BY <1>8 DEF StartHTTP
<1>9. CASE Notify
  BY <1>9 DEF Notify
<1>10. CASE ShutHTTP
  BY <1>10 DEF ShutHTTP, Shut
<1>11. CASE DrainHTTP
  BY <1>11 DEF DrainHTTP, Drain
<1>12. CASE ShutHTTPS
  BY <1>12 DEF ShutHTTPS, Shut
<1>13. CASE DrainHTTPS
  BY <1>13 DEF DrainHTTPS, Drain
<1>14. CASE Stop
  BY <1>14 DEF Stop
<1>15. CASE Timeout
  BY <1>15 DEF Timeout
<1>16. CASE \E s \in Servers : Listen(s)
  BY <1>16 DEF Listen
<1>17. CASE \E r \in Requests : Answer(r)
  BY <1>17 DEF Answer
<1>18. CASE \E r \in Requests : SaveEnd(r)
  BY <1>18 DEF SaveEnd
<1>19. CASE \E r \in Requests, s \in Servers : Accept(r, s)
  BY <1>19 DEF Accept
<1>20. CASE PrefetchEnd
  BY <1>20 DEF PrefetchEnd
<1>21. CASE GCTick
  BY <1>21 DEF GCTick
<1>22. CASE Interrupt
  BY <1>22 DEF Interrupt
<1>23. CASE Terminate
  BY <1>23 DEF Terminate
<1>24. CASE UNCHANGED vars
  BY <1>24 DEF vars
<1>. QED
  BY <1>1, <1>2, <1>3, <1>4, <1>5, <1>6, <1>7, <1>8, <1>9, <1>10, <1>11,
     <1>12, <1>13, <1>14, <1>15, <1>16, <1>17, <1>18, <1>19, <1>20, <1>21,
     <1>22, <1>23, <1>24 DEF Next, Startup, Shutdown, Background

\* Nobody starts to use the cache before its index was tried.
LEMMA IndexStep ==
  ASSUME TypeOK, IndexInv, [Next]_vars
  PROVE  IndexInv'
<1>. USE DEF TypeOK, IndexInv, BeforeIndex, BeforeServers, StartPlaces, StopPlaces, Servers, End, GoTo, confVars, bgVars
<1>1. CASE Load
  BY <1>1 DEF Load, LoadPort
<1>2. CASE SetParameter
  BY <1>2 DEF SetParameter
<1>3. CASE InitConfig
  BY <1>3 DEF InitConfig, HandOut
<1>4. CASE InitProviders
  BY <1>4 DEF InitProviders
<1>5. CASE InitCache
  BY <1>5 DEF InitCache, OpenIndex
<1>6. CASE StartPrefetch
  BY <1>6 DEF StartPrefetch
<1>7. CASE StartHTTPS
  BY <1>7 DEF StartHTTPS, TLSFromFiles, GenerateTLSConfig
<1>8. CASE StartHTTP
  BY <1>8 DEF StartHTTP
<1>9. CASE Notify
  BY <1>9 DEF Notify
<1>10. CASE ShutHTTP
  BY <1>10 DEF ShutHTTP, Shut
<1>11. CASE DrainHTTP
  BY <1>11 DEF DrainHTTP, Drain
<1>12. CASE ShutHTTPS
  BY <1>12 DEF ShutHTTPS, Shut
<1>13. CASE DrainHTTPS
  BY <1>13 DEF DrainHTTPS, Drain
<1>14. CASE Stop
  BY <1>14 DEF Stop
<1>15. CASE Timeout
  BY <1>15 DEF Timeout
<1>16. CASE \E s \in Servers : Listen(s)
  BY <1>16 DEF Listen
<1>17. CASE \E r \in Requests : Answer(r)
  BY <1>17 DEF Answer
<1>18. CASE \E r \in Requests : SaveEnd(r)
  BY <1>18 DEF SaveEnd
<1>19. CASE \E r \in Requests, s \in Servers : Accept(r, s)
  BY <1>19 DEF Accept
<1>20. CASE PrefetchEnd
  BY <1>20 DEF PrefetchEnd
<1>21. CASE GCTick
  BY <1>21 DEF GCTick
<1>22. CASE Interrupt
  BY <1>22 DEF Interrupt
<1>23. CASE Terminate
  BY <1>23 DEF Terminate
<1>24. CASE UNCHANGED vars
  BY <1>24 DEF vars
<1>. QED
  BY <1>1, <1>2, <1>3, <1>4, <1>5, <1>6, <1>7, <1>8, <1>9, <1>10, <1>11,
     <1>12, <1>13, <1>14, <1>15, <1>16, <1>17, <1>18, <1>19, <1>20, <1>21,
     <1>22, <1>23, <1>24 DEF Next, Startup, Shutdown, Background

\* Main gets past a server only when no handler of it is left or the deadline has
\* passed, and a server that is shut down accepts nothing more.
LEMMA DrainStep ==
  ASSUME TypeOK, IndexInv, DrainInv, [Next]_vars
  PROVE  DrainInv'
<1>. USE DEF TypeOK, IndexInv, DrainInv, Settled, Idle, UseSSL, BeforeServers, BeforeIndex, BeforeDeadline, StartPlaces, StopPlaces, Servers, End, GoTo, confVars, bgVars
<1>1. CASE Load
  BY <1>1 DEF Load, LoadPort
<1>2. CASE SetParameter
  BY <1>2 DEF SetParameter
<1>3. CASE InitConfig
  BY <1>3 DEF InitConfig, HandOut
<1>4. CASE InitProviders
  BY <1>4 DEF InitProviders
<1>5. CASE InitCache
  BY <1>5 DEF InitCache, OpenIndex
<1>6. CASE StartPrefetch
  BY <1>6 DEF StartPrefetch
<1>7. CASE StartHTTPS
  BY <1>7 DEF StartHTTPS, TLSFromFiles, GenerateTLSConfig
<1>8. CASE StartHTTP
  BY <1>8 DEF StartHTTP
<1>9. CASE Notify
  BY <1>9 DEF Notify
<1>10. CASE ShutHTTP
  BY <1>10 DEF ShutHTTP, Shut
<1>11. CASE DrainHTTP
  BY <1>11 DEF DrainHTTP, Drain
<1>12. CASE ShutHTTPS
  BY <1>12 DEF ShutHTTPS, Shut
<1>13. CASE DrainHTTPS
  BY <1>13 DEF DrainHTTPS, Drain
<1>14. CASE Stop
  BY <1>14 DEF Stop
<1>15. CASE Timeout
  BY <1>15 DEF Timeout
<1>16. CASE \E s \in Servers : Listen(s)
  BY <1>16 DEF Listen
<1>17. CASE \E r \in Requests : Answer(r)
  BY <1>17 DEF Answer
<1>18. CASE \E r \in Requests : SaveEnd(r)
  BY <1>18 DEF SaveEnd
<1>19. CASE \E r \in Requests, s \in Servers : Accept(r, s)
  BY <1>19 DEF Accept
<1>20. CASE PrefetchEnd
  BY <1>20 DEF PrefetchEnd
<1>21. CASE GCTick
  BY <1>21 DEF GCTick
<1>22. CASE Interrupt
  BY <1>22 DEF Interrupt
<1>23. CASE Terminate
  BY <1>23 DEF Terminate
<1>24. CASE UNCHANGED vars
  BY <1>24 DEF vars
<1>. QED
  BY <1>1, <1>2, <1>3, <1>4, <1>5, <1>6, <1>7, <1>8, <1>9, <1>10, <1>11,
     <1>12, <1>13, <1>14, <1>15, <1>16, <1>17, <1>18, <1>19, <1>20, <1>21,
     <1>22, <1>23, <1>24 DEF Next, Startup, Shutdown, Background

\* When the process stops both servers are settled.
LEMMA CutStep ==
  ASSUME TypeOK, DrainInv, NoneCutOff, [Next]_vars
  PROVE  NoneCutOff'
<1>. USE DEF TypeOK, DrainInv, NoneCutOff, Settled, Idle, BeforeDeadline, StartPlaces, StopPlaces, Servers, End, GoTo, confVars, bgVars
<1>1. CASE Load
  BY <1>1 DEF Load, LoadPort
<1>2. CASE SetParameter
  BY <1>2 DEF SetParameter
<1>3. CASE InitConfig
  BY <1>3 DEF InitConfig, HandOut
<1>4. CASE InitProviders
  BY <1>4 DEF InitProviders
<1>5. CASE InitCache
  BY <1>5 DEF InitCache, OpenIndex
<1>6. CASE StartPrefetch
  BY <1>6 DEF StartPrefetch
<1>7. CASE StartHTTPS
  BY <1>7 DEF StartHTTPS, TLSFromFiles, GenerateTLSConfig
<1>8. CASE StartHTTP
  BY <1>8 DEF StartHTTP
<1>9. CASE Notify
  BY <1>9 DEF Notify
<1>10. CASE ShutHTTP
  BY <1>10 DEF ShutHTTP, Shut
<1>11. CASE DrainHTTP
  BY <1>11 DEF DrainHTTP, Drain
<1>12. CASE ShutHTTPS
  BY <1>12 DEF ShutHTTPS, Shut
<1>13. CASE DrainHTTPS
  BY <1>13 DEF DrainHTTPS, Drain
<1>14. CASE Stop
  BY <1>14 DEF Stop
<1>15. CASE Timeout
  BY <1>15 DEF Timeout
<1>16. CASE \E s \in Servers : Listen(s)
  BY <1>16 DEF Listen
<1>17. CASE \E r \in Requests : Answer(r)
  BY <1>17 DEF Answer
<1>18. CASE \E r \in Requests : SaveEnd(r)
  BY <1>18 DEF SaveEnd
<1>19. CASE exit = "running" /\ \E r \in Requests, s \in Servers : Accept(r, s)
  BY <1>19 DEF Accept
<1>20. CASE PrefetchEnd
  BY <1>20 DEF PrefetchEnd
<1>21. CASE GCTick
  BY <1>21 DEF GCTick
<1>22. CASE Interrupt
  BY <1>22 DEF Interrupt
<1>23. CASE Terminate
  BY <1>23 DEF Terminate
<1>24. CASE UNCHANGED vars
  BY <1>24 DEF vars
<1>. QED
  BY <1>1, <1>2, <1>3, <1>4, <1>5, <1>6, <1>7, <1>8, <1>9, <1>10, <1>11,
     <1>12, <1>13, <1>14, <1>15, <1>16, <1>17, <1>18, <1>19, <1>20, <1>21,
     <1>22, <1>23, <1>24 DEF Next, Startup, Shutdown, Background

\* The invariant holds at the start.
LEMMA InitInv == Init => Inv
BY LifecycleAssumption DEF Init, Inv, TypeOK, Conf, PortInv, IndexInv, DrainInv,
   NoneCutOff, Settled, Idle, UseSSL, BeforeIndex, BeforeServers, BeforeDeadline, StartPlaces, StopPlaces, Servers

\* Every step keeps it.
LEMMA InvStep == Inv /\ [Next]_vars => Inv'
BY TypeStep, PortStep, IndexStep, DrainStep, CutStep DEF Inv

\* So it always holds.
LEMMA InvHolds == Spec => []Inv
BY InitInv, InvStep, PTL DEF Spec

-----------------------------------------------------------------------------
(* The properties *)

\* Every variable keeps its range, and there is a port from the moment the config
\* file is read, whatever ports, flags and requests there are.
THEOREM TypeCorrect == Spec => []TypeOK
BY InvHolds, PTL DEF Inv

\* No tile is asked of the cache before InitCache has tried to open its index.
THEOREM OpenedBeforeUse == Spec => []UsedAfterOpen
<1>1. Inv => UsedAfterOpen
  BY DEF Inv, TypeOK, IndexInv, UsedAfterOpen, BeforeIndex, BeforeServers, Servers
<1>. QED
  BY <1>1, InvHolds, PTL

\* The server for plain http listens on the port of the flag -p if there is one,
\* else on that of the file, else on the default port.
THEOREM FlagIsServed == Spec => []FlagWins
<1>1. Inv => FlagWins
  BY DEF Inv, PortInv, FlagWins, WantedPort, FilePort, Servers
<1>. QED
  BY <1>1, InvHolds, PTL

\* A shutdown within its deadline leaves no handler of either server behind.
THEOREM NothingCutOff == Spec => []NoneCutOff
BY InvHolds, PTL DEF Inv

-----------------------------------------------------------------------------
(* The shutdown comes to its end.                                          *)

\* Main waits for handlers only under a deadline.
DeadlineInv == main \in {"drainHttp", "shutHttps", "drainHttps"} => deadline # "idle"

\* Every way to a place where main waits leads through the call that starts it.
LEMMA DeadlineStep ==
  ASSUME TypeOK, DeadlineInv, [Next]_vars
  PROVE  DeadlineInv'
<1>. USE DEF TypeOK, DeadlineInv, StartPlaces, End, GoTo, confVars, bgVars
<1>1. CASE Load \/ SetParameter \/ InitConfig \/ InitProviders \/ InitCache
  BY <1>1 DEF Load, LoadPort, SetParameter, InitConfig, HandOut, InitProviders, InitCache,
     OpenIndex
<1>2. CASE StartPrefetch \/ StartHTTPS \/ StartHTTP \/ Notify
  BY <1>2 DEF StartPrefetch, StartHTTPS, TLSFromFiles, GenerateTLSConfig, StartHTTP, Notify
<1>3. CASE ShutHTTP
  BY <1>3 DEF ShutHTTP, Shut
<1>4. CASE DrainHTTP \/ DrainHTTPS
  BY <1>4 DEF DrainHTTP, DrainHTTPS, Drain
<1>5. CASE ShutHTTPS
  BY <1>5 DEF ShutHTTPS, Shut
<1>6. CASE Stop
  BY <1>6 DEF Stop
<1>7. CASE Timeout
  BY <1>7 DEF Timeout
<1>8. CASE \E s \in Servers : Listen(s)
  BY <1>8 DEF Listen
<1>9. CASE \E r \in Requests : Answer(r) \/ SaveEnd(r) \/ \E s \in Servers : Accept(r, s)
  BY <1>9 DEF Answer, SaveEnd, Accept
<1>10. CASE PrefetchEnd \/ GCTick
  BY <1>10 DEF PrefetchEnd, GCTick
<1>11. CASE Interrupt \/ Terminate
  BY <1>11 DEF Interrupt, Terminate
<1>12. CASE UNCHANGED vars
  BY <1>12 DEF vars
<1>. QED
  BY <1>1, <1>2, <1>3, <1>4, <1>5, <1>6, <1>7, <1>8, <1>9, <1>10, <1>11, <1>12
     DEF Next, Startup, Shutdown, Background

\* While main waits for handlers that may never end the deadline runs, or it has
\* passed and main goes on.
THEOREM ShutdownNeverStuck == Spec => []NeverStuck
<1>1. Init => DeadlineInv
  BY DEF Init, DeadlineInv
<1>2. Inv => TypeOK
  BY DEF Inv
<1>3. Inv /\ DeadlineInv => NeverStuck
  BY DEF Inv, TypeOK, DeadlineInv, NeverStuck, StopPlaces
<1>. QED
  BY <1>1, <1>2, <1>3, DeadlineStep, InvHolds, PTL DEF Spec

\* No step of a shutdown leads back, and none sets the deadline again.
LEMMA ShutdownStep ==
  ASSUME TypeOK, DrainInv, [Next]_vars
  PROVE  /\ main \in StopPlaces /\ main' # main =>
              main' = "ended" \/ (main' \in StopPlaces /\ StopLeft[main'] < StopLeft[main])
         /\ deadline # "idle" => deadline' # "idle"
         /\ deadline = "passed" => deadline' = "passed"
<1>. USE DEF TypeOK, DrainInv, StartPlaces, StopPlaces, BeforeDeadline, StopLeft, End, GoTo,
             confVars, bgVars
<1>1. CASE Load \/ SetParameter \/ InitConfig \/ InitProviders \/ InitCache
  BY <1>1 DEF Load, LoadPort, SetParameter, InitConfig, HandOut, InitProviders, InitCache,
     OpenIndex
<1>2. CASE StartPrefetch \/ StartHTTPS \/ StartHTTP \/ Notify
  BY <1>2 DEF StartPrefetch, StartHTTPS, TLSFromFiles, GenerateTLSConfig, StartHTTP, Notify
<1>3. CASE ShutHTTP
  BY <1>3 DEF ShutHTTP, Shut
<1>4. CASE DrainHTTP \/ DrainHTTPS
  BY <1>4 DEF DrainHTTP, DrainHTTPS, Drain
<1>5. CASE ShutHTTPS
  BY <1>5 DEF ShutHTTPS, Shut
<1>6. CASE Stop
  BY <1>6 DEF Stop
<1>7. CASE Timeout
  BY <1>7 DEF Timeout
<1>8. CASE \E s \in Servers : Listen(s)
  BY <1>8 DEF Listen
<1>9. CASE \E r \in Requests : Answer(r) \/ SaveEnd(r) \/ \E s \in Servers : Accept(r, s)
  BY <1>9 DEF Answer, SaveEnd, Accept
<1>10. CASE PrefetchEnd \/ GCTick
  BY <1>10 DEF PrefetchEnd, GCTick
<1>11. CASE Interrupt \/ Terminate
  BY <1>11 DEF Interrupt, Terminate
<1>12. CASE UNCHANGED vars
  BY <1>12 DEF vars
<1>. QED
  BY <1>1, <1>2, <1>3, <1>4, <1>5, <1>6, <1>7, <1>8, <1>9, <1>10, <1>11, <1>12
     DEF Next, Startup, Shutdown, Background

\* From an interrupt on main takes at most five steps, each server is shut down once,
\* and the 15 s are those of the first call.
THEOREM ShutdownEndsInTime == Spec => ShutdownGetsOn
<1>1. Inv /\ [Next]_vars
        => [/\ main \in StopPlaces /\ main' # main =>
                 main' = "ended" \/ (main' \in StopPlaces /\ StopLeft[main'] < StopLeft[main])
            /\ deadline # "idle" => deadline' # "idle"
            /\ deadline = "passed" => deadline' = "passed"
           ]_vars
  BY ShutdownStep DEF Inv
<1>. QED
  BY <1>1, InvHolds, PTL DEF Spec, ShutdownGetsOn

\* What IndexLeftOpen finds holds of every run of the program: an index that was
\* opened is never closed, and the process never ends with the status 0, because the
\* method Tile of the interface that Stop asks for has another result than that of
\* the cache.
THEOREM IndexNeverClosed == Spec => [](index # "closed" /\ exit # "zero")
<1>. DEFINE Left == index # "closed" /\ exit # "zero"
<1>1. Init => Left
  BY DEF Init
<1>2. ASSUME Left, [Next]_vars PROVE Left'
  <2>. USE <1>2 DEF Left, End, GoTo, confVars, bgVars
  <2>0. TileResult # StopResult
    BY DEF TileResult, StopResult
  <2>1. CASE Load \/ SetParameter \/ InitConfig \/ InitProviders \/ InitCache
    BY <2>1 DEF Load, LoadPort, SetParameter, InitConfig, HandOut, InitProviders, InitCache,
       OpenIndex
  <2>2. CASE StartPrefetch \/ StartHTTPS \/ StartHTTP \/ Notify
    BY <2>2 DEF StartPrefetch, StartHTTPS, TLSFromFiles, GenerateTLSConfig, StartHTTP, Notify
  <2>3. CASE ShutHTTP
    BY <2>3 DEF ShutHTTP, Shut
  <2>4. CASE DrainHTTP \/ DrainHTTPS
    BY <2>4 DEF DrainHTTP, DrainHTTPS, Drain
  <2>5. CASE ShutHTTPS
    BY <2>5 DEF ShutHTTPS, Shut
  <2>6. CASE Stop
    BY <2>0, <2>6 DEF Stop
  <2>7. CASE Timeout
    BY <2>7 DEF Timeout
  <2>8. CASE \E s \in Servers : Listen(s)
    BY <2>8 DEF Listen
  <2>9. CASE \E r \in Requests : Answer(r) \/ SaveEnd(r) \/ \E s \in Servers : Accept(r, s)
    BY <2>9 DEF Answer, SaveEnd, Accept
  <2>10. CASE PrefetchEnd \/ GCTick
    BY <2>10 DEF PrefetchEnd, GCTick
  <2>11. CASE Interrupt \/ Terminate
    BY <2>11 DEF Interrupt, Terminate
  <2>12. CASE UNCHANGED vars
    BY <2>12 DEF vars
  <2>. QED
    BY <2>1, <2>2, <2>3, <2>4, <2>5, <2>6, <2>7, <2>8, <2>9, <2>10, <2>11, <2>12
       DEF Next, Startup, Shutdown, Background
<1>. QED
  BY <1>1, <1>2, PTL DEF Spec
=============================================================================
