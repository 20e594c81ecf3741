--------------------------- MODULE TileCacheProofs ---------------------------
(***************************************************************************)
(* Safety of the tile cache for any number of callers, savers, tiles and   *)
(* images, any maxage, and any number of hours and deaths of the process.  *)
(***************************************************************************)
EXTENDS TileCache, TileKeyProofs

\* The inductive invariant: what the code knows at each place of it depends on
\* who holds flock, and the other way round.
IInv == TypeOK /\ PlaceInv /\ LockInv /\ StatHolds

\* Before the first step nothing is known and nothing is held.
LEMMA InitIInv == Init => IInv
<1>. SUFFICES ASSUME Init PROVE IInv
  OBVIOUS
<1>. USE CacheAssumption, NamesAssumption DEF Init
<1>1. TypeOK
  BY DEF TypeOK
<1>2. PlaceInv
  BY DEF PlaceInv, Amount
<1>3. LockInv /\ StatHolds
  BY DEF LockInv, StatHolds
<1>. QED
  BY <1>1, <1>2, <1>3 DEF IInv

\* A file that is there has data and an mtime.
LEMMA FileData ==
  ASSUME TypeOK, NEW h \in Images, files[h] # None
  PROVE  files[h].data \in Amount /\ files[h].mtime \in Nat
BY DEF TypeOK, File

\* Every action keeps the variables in their ranges.
LEMMA TypeStep == ASSUME TypeOK, PlaceInv, [Next]_vars PROVE TypeOK'
<1>. USE CacheAssumption, NamesAssumption
     DEF TypeOK, PlaceInv, timeVars, dbVars, lockVars, callVars, saveVars, walkVars
<1>1. ASSUME NEW c \in Callers, NEW t \in Tiles, TileCall(c, t) PROVE TypeOK'
  BY <1>1 DEF TileCall
<1>2. ASSUME NEW c \in Callers, TileLookup(c) PROVE TypeOK'
  BY <1>2 DEF TileLookup, TileMiss, Lookup, Keys
<1>3. ASSUME NEW c \in Callers, TileRLock(c) PROVE TypeOK'
  BY <1>3 DEF TileRLock
<1>4. ASSUME NEW c \in Callers, TileStat(c) PROVE TypeOK'
  BY <1>4 DEF TileStat, TileMiss
<1>5. ASSUME NEW c \in Callers, TileRemove(c) PROVE TypeOK'
  BY <1>5, FileData DEF TileRemove, TileMiss, Remove, Unlink
<1>6. ASSUME NEW c \in Callers, TileOpen(c) PROVE TypeOK'
  BY <1>6 DEF TileOpen, TileMiss
<1>7. ASSUME NEW c \in Callers, TileRead(c) PROVE TypeOK'
  BY <1>7, FileData DEF TileRead, FdData
<1>8. ASSUME NEW s \in Savers, NEW t \in Tiles, NEW d \in Images, SaveCall(s, t, d)
      PROVE  TypeOK'
  BY <1>8 DEF SaveCall
<1>9. ASSUME NEW s \in Savers, SaveCheck(s) PROVE TypeOK'
  BY <1>9 DEF SaveCheck, SaveGoto, Lookup, Keys
<1>10. ASSUME NEW s \in Savers, SaveStatOrg(s) PROVE TypeOK'
  BY <1>10 DEF SaveStatOrg, SaveGoto, SaveReturn, SaveForget
<1>11. ASSUME NEW s \in Savers, SaveTemp(s) PROVE TypeOK'
  BY <1>11 DEF SaveTemp, SaveGoto
<1>12. ASSUME NEW s \in Savers, SaveStatNew(s) PROVE TypeOK'
  BY <1>12 DEF SaveStatNew, SaveGoto
<1>13. ASSUME NEW s \in Savers, SaveLock(s) PROVE TypeOK'
  BY <1>13 DEF SaveLock, SaveGoto
<1>14. ASSUME NEW s \in Savers, SaveRename(s) PROVE TypeOK'
  BY <1>14 DEF SaveRename, SaveGoto, Unlink, File, Amount
<1>15. ASSUME NEW s \in Savers, SaveCreate(s) PROVE TypeOK'
  BY <1>15 DEF SaveCreate, SaveGoto, File, Amount
<1>16. ASSUME NEW s \in Savers, SaveCopy(s) PROVE TypeOK'
  BY <1>16 DEF SaveCopy, SaveGoto, File, Amount
<1>17. ASSUME NEW s \in Savers, SaveIndex(s) PROVE TypeOK'
  BY <1>17 DEF SaveIndex, DBSet, SaveReturn, SaveForget
<1>18. ASSUME NEW s \in Savers, SaveFail(s) PROVE TypeOK'
  BY <1>18 DEF SaveFail, SaveReturn, SaveForget
<1>19. ASSUME WalkStart PROVE TypeOK'
  BY <1>19 DEF WalkStart
<1>20. ASSUME NEW h \in todo, WalkDir(h) PROVE TypeOK'
  BY <1>20 DEF WalkDir, WalkReturn
<1>21. ASSUME WalkStat PROVE TypeOK'
  BY <1>21 DEF WalkStat, WalkReturn
<1>22. ASSUME WalkLock PROVE TypeOK'
  BY <1>22 DEF WalkLock
<1>23. ASSUME WalkDelete PROVE TypeOK'
  BY <1>23, FileData DEF WalkDelete, Remove, Unlink
<1>24. ASSUME WalkEnd PROVE TypeOK'
  BY <1>24 DEF WalkEnd, WalkReturn
<1>25. ASSUME Tick PROVE TypeOK'
  BY <1>25 DEF Tick
<1>26. ASSUME Restart PROVE TypeOK'
  <2>1. dbUp' \in BOOLEAN
    BY <1>26, Zenon DEF Restart
  <2>. QED
    BY <1>26, <2>1 DEF Restart, WalkReturn
<1>27. ASSUME UNCHANGED vars PROVE TypeOK'
  BY <1>27 DEF vars
<1>. QED
  BY <1>1, <1>2, <1>3, <1>4, <1>5, <1>6, <1>7, <1>8, <1>9, <1>10, <1>11, <1>12,
     <1>13, <1>14, <1>15, <1>16, <1>17, <1>18, <1>19, <1>20, <1>21, <1>22,
     <1>23, <1>24, <1>25, <1>26, <1>27 DEF Next, TileStep, SaveWork, WalkStep

\* What each place of the code knows of its values stays true.
LEMMA PlaceStep ==
  ASSUME TypeOK, PlaceInv, LockInv, StatHolds, [Next]_vars PROVE PlaceInv'
<1>. USE CacheAssumption, NamesAssumption
     DEF TypeOK, PlaceInv, LockInv, StatHolds, Rejected, File, Amount,
         timeVars, dbVars, lockVars, callVars, saveVars, walkVars
<1>1. ASSUME NEW c \in Callers, NEW t \in Tiles, TileCall(c, t) PROVE PlaceInv'
  BY <1>1 DEF TileCall
<1>2. ASSUME NEW c \in Callers, TileLookup(c) PROVE PlaceInv'
  BY <1>2 DEF TileLookup, TileMiss, Lookup, Keys
<1>3. ASSUME NEW c \in Callers, TileRLock(c) PROVE PlaceInv'
  BY <1>3 DEF TileRLock
<1>4. ASSUME NEW c \in Callers, TileStat(c) PROVE PlaceInv'
  BY <1>4 DEF TileStat, TileMiss
<1>5. ASSUME NEW c \in Callers, TileRemove(c) PROVE PlaceInv'
  BY <1>5 DEF TileRemove, TileMiss, Remove, Unlink
<1>6. ASSUME NEW c \in Callers, TileOpen(c) PROVE PlaceInv'
  BY <1>6 DEF TileOpen, TileMiss
<1>7. ASSUME NEW c \in Callers, TileRead(c) PROVE PlaceInv'
  BY <1>7 DEF TileRead, FdData
<1>8. ASSUME NEW s \in Savers, NEW t \in Tiles, NEW d \in Images, SaveCall(s, t, d)
      PROVE  PlaceInv'
  BY <1>8 DEF SaveCall
<1>9. ASSUME NEW s \in Savers, SaveCheck(s) PROVE PlaceInv'
  BY <1>9 DEF SaveCheck, SaveGoto, Lookup, Keys
<1>10. ASSUME NEW s \in Savers, SaveStatOrg(s) PROVE PlaceInv'
  BY <1>10 DEF SaveStatOrg, SaveGoto, SaveReturn, SaveForget
<1>11. ASSUME NEW s \in Savers, SaveTemp(s) PROVE PlaceInv'
  BY <1>11 DEF SaveTemp, SaveGoto
<1>12. ASSUME NEW s \in Savers, SaveStatNew(s) PROVE PlaceInv'
  BY <1>12 DEF SaveStatNew, SaveGoto
<1>13. ASSUME NEW s \in Savers, SaveLock(s) PROVE PlaceInv'
  BY <1>13 DEF SaveLock, SaveGoto
<1>14. ASSUME NEW s \in Savers, SaveRename(s) PROVE PlaceInv'
  BY <1>14 DEF SaveRename, SaveGoto, Unlink
<1>15. ASSUME NEW s \in Savers, SaveCreate(s) PROVE PlaceInv'
  BY <1>15 DEF SaveCreate, SaveGoto
<1>16. ASSUME NEW s \in Savers, SaveCopy(s) PROVE PlaceInv'
  BY <1>16 DEF SaveCopy, SaveGoto
<1>17. ASSUME NEW s \in Savers, SaveIndex(s) PROVE PlaceInv'
  BY <1>17 DEF SaveIndex, DBSet, SaveReturn, SaveForget
<1>18. ASSUME NEW s \in Savers, SaveFail(s) PROVE PlaceInv'
  BY <1>18 DEF SaveFail, SaveReturn, SaveForget
<1>19. ASSUME WalkStart PROVE PlaceInv'
  BY <1>19 DEF WalkStart
<1>20. ASSUME NEW h \in todo, WalkDir(h) PROVE PlaceInv'
  BY <1>20 DEF WalkDir, WalkReturn
<1>21. ASSUME WalkStat PROVE PlaceInv'
  BY <1>21 DEF WalkStat, WalkReturn
<1>22. ASSUME WalkLock PROVE PlaceInv'
  BY <1>22 DEF WalkLock
<1>23. ASSUME WalkDelete PROVE PlaceInv'
  BY <1>23 DEF WalkDelete, Remove, Unlink
<1>24. ASSUME WalkEnd PROVE PlaceInv'
  BY <1>24 DEF WalkEnd, WalkReturn
<1>25. ASSUME Tick PROVE PlaceInv'
  BY <1>25 DEF Tick
<1>26. ASSUME Restart PROVE PlaceInv'
  BY <1>26 DEF Restart, WalkReturn
<1>27. ASSUME UNCHANGED vars PROVE PlaceInv'
  BY <1>27 DEF vars
<1>. QED
  BY <1>1, <1>2, <1>3, <1>4, <1>5, <1>6, <1>7, <1>8, <1>9, <1>10, <1>11, <1>12,
     <1>13, <1>14, <1>15, <1>16, <1>17, <1>18, <1>19, <1>20, <1>21, <1>22,
     <1>23, <1>24, <1>25, <1>26, <1>27 DEF Next, TileStep, SaveWork, WalkStep

\* flock keeps excluding.
LEMMA LockStep ==
  ASSUME TypeOK, LockInv, [Next]_vars PROVE LockInv'
<1>. USE CacheAssumption, NamesAssumption
     DEF TypeOK, LockInv, timeVars, dbVars, lockVars, callVars, saveVars, walkVars
<1>1. ASSUME NEW c \in Callers, NEW t \in Tiles, TileCall(c, t) PROVE LockInv'
  BY <1>1 DEF TileCall
<1>2. ASSUME NEW c \in Callers, TileLookup(c) PROVE LockInv'
  BY <1>2 DEF TileLookup, TileMiss, Lookup, Keys
<1>3. ASSUME NEW c \in Callers, TileRLock(c) PROVE LockInv'
  BY <1>3 DEF TileRLock
<1>4. ASSUME NEW c \in Callers, TileStat(c) PROVE LockInv'
  BY <1>4 DEF TileStat, TileMiss
<1>5. ASSUME NEW c \in Callers, TileRemove(c) PROVE LockInv'
  BY <1>5 DEF TileRemove, TileMiss, Remove, Unlink
<1>6. ASSUME NEW c \in Callers, TileOpen(c) PROVE LockInv'
  BY <1>6 DEF TileOpen, TileMiss
<1>7. ASSUME NEW c \in Callers, TileRead(c) PROVE LockInv'
  BY <1>7 DEF TileRead, FdData
<1>8. ASSUME NEW s \in Savers, NEW t \in Tiles, NEW d \in Images, SaveCall(s, t, d)
      PROVE  LockInv'
  BY <1>8 DEF SaveCall
<1>9. ASSUME NEW s \in Savers, SaveCheck(s) PROVE LockInv'
  BY <1>9 DEF SaveCheck, SaveGoto, Lookup, Keys
<1>10. ASSUME NEW s \in Savers, SaveStatOrg(s) PROVE LockInv'
  BY <1>10 DEF SaveStatOrg, SaveGoto, SaveReturn, SaveForget
<1>11. ASSUME NEW s \in Savers, SaveTemp(s) PROVE LockInv'
  BY <1>11 DEF SaveTemp, SaveGoto
<1>12. ASSUME NEW s \in Savers, SaveStatNew(s) PROVE LockInv'
  BY <1>12 DEF SaveStatNew, SaveGoto
<1>13. ASSUME NEW s \in Savers, SaveLock(s) PROVE LockInv'
  BY <1>13 DEF SaveLock, SaveGoto
<1>14. ASSUME NEW s \in Savers, SaveRename(s) PROVE LockInv'
  BY <1>14 DEF SaveRename, SaveGoto, Unlink
<1>15. ASSUME NEW s \in Savers, SaveCreate(s) PROVE LockInv'
  BY <1>15 DEF SaveCreate, SaveGoto
<1>16. ASSUME NEW s \in Savers, SaveCopy(s) PROVE LockInv'
  BY <1>16 DEF SaveCopy, SaveGoto
<1>17. ASSUME NEW s \in Savers, SaveIndex(s) PROVE LockInv'
  BY <1>17 DEF SaveIndex, DBSet, SaveReturn, SaveForget
<1>18. ASSUME NEW s \in Savers, SaveFail(s) PROVE LockInv'
  BY <1>18 DEF SaveFail, SaveReturn, SaveForget
<1>19. ASSUME WalkStart PROVE LockInv'
  BY <1>19 DEF WalkStart
<1>20. ASSUME NEW h \in todo, WalkDir(h) PROVE LockInv'
  BY <1>20 DEF WalkDir, WalkReturn
<1>21. ASSUME WalkStat PROVE LockInv'
  BY <1>21 DEF WalkStat, WalkReturn
<1>22. ASSUME WalkLock PROVE LockInv'
  BY <1>22 DEF WalkLock
<1>23. ASSUME WalkDelete PROVE LockInv'
  BY <1>23 DEF WalkDelete, Remove, Unlink
<1>24. ASSUME WalkEnd PROVE LockInv'
  BY <1>24 DEF WalkEnd, WalkReturn
<1>25. ASSUME Tick PROVE LockInv'
  BY <1>25 DEF Tick
<1>26. ASSUME Restart PROVE LockInv'
  BY <1>26 DEF Restart, WalkReturn
<1>27. ASSUME UNCHANGED vars PROVE LockInv'
  BY <1>27 DEF vars
<1>. QED
  BY <1>1, <1>2, <1>3, <1>4, <1>5, <1>6, <1>7, <1>8, <1>9, <1>10, <1>11, <1>12,
     <1>13, <1>14, <1>15, <1>16, <1>17, <1>18, <1>19, <1>20, <1>21, <1>22,
     <1>23, <1>24, <1>25, <1>26, <1>27 DEF Next, TileStep, SaveWork, WalkStep

\* Between os.Stat and what it leads to, the file stays the one that was seen.
LEMMA StatStep ==
  ASSUME TypeOK, PlaceInv, LockInv, StatHolds, [Next]_vars PROVE StatHolds'
<1>. USE CacheAssumption, NamesAssumption
     DEF TypeOK, PlaceInv, LockInv, StatHolds,
         timeVars, dbVars, lockVars, callVars, saveVars, walkVars
<1>1. ASSUME NEW c \in Callers, NEW t \in Tiles, TileCall(c, t) PROVE StatHolds'
  BY <1>1 DEF TileCall
<1>2. ASSUME NEW c \in Callers, TileLookup(c) PROVE StatHolds'
  BY <1>2 DEF TileLookup, TileMiss, Lookup, Keys
<1>3. ASSUME NEW c \in Callers, TileRLock(c) PROVE StatHolds'
  BY <1>3 DEF TileRLock
<1>4. ASSUME NEW c \in Callers, TileStat(c) PROVE StatHolds'
  BY <1>4 DEF TileStat, TileMiss
<1>5. ASSUME NEW c \in Callers, TileRemove(c) PROVE StatHolds'
  BY <1>5 DEF TileRemove, TileMiss, Remove, Unlink
<1>6. ASSUME NEW c \in Callers, TileOpen(c) PROVE StatHolds'
  BY <1>6 DEF TileOpen, TileMiss
<1>7. ASSUME NEW c \in Callers, TileRead(c) PROVE StatHolds'
  BY <1>7 DEF TileRead, FdData
<1>8. ASSUME NEW s \in Savers, NEW t \in Tiles, NEW d \in Images, SaveCall(s, t, d)
      PROVE  StatHolds'
  BY <1>8 DEF SaveCall
<1>9. ASSUME NEW s \in Savers, SaveCheck(s) PROVE StatHolds'
  BY <1>9 DEF SaveCheck, SaveGoto, Lookup, Keys
<1>10. ASSUME NEW s \in Savers, SaveStatOrg(s) PROVE StatHolds'
  BY <1>10 DEF SaveStatOrg, SaveGoto, SaveReturn, SaveForget
<1>11. ASSUME NEW s \in Savers, SaveTemp(s) PROVE StatHolds'
  BY <1>11 DEF SaveTemp, SaveGoto
<1>12. ASSUME NEW s \in Savers, SaveStatNew(s) PROVE StatHolds'
  BY <1>12 DEF SaveStatNew, SaveGoto
<1>13. ASSUME NEW s \in Savers, SaveLock(s) PROVE StatHolds'
  BY <1>13 DEF SaveLock, SaveGoto
<1>14. ASSUME NEW s \in Savers, SaveRename(s) PROVE StatHolds'
  BY <1>14 DEF SaveRename, SaveGoto, Unlink
<1>15. ASSUME NEW s \in Savers, SaveCreate(s) PROVE StatHolds'
  BY <1>15 DEF SaveCreate, SaveGoto
<1>16. ASSUME NEW s \in Savers, SaveCopy(s) PROVE StatHolds'
  BY <1>16 DEF SaveCopy, SaveGoto
<1>17. ASSUME NEW s \in Savers, SaveIndex(s) PROVE StatHolds'
  BY <1>17 DEF SaveIndex, DBSet, SaveReturn, SaveForget
<1>18. ASSUME NEW s \in Savers, SaveFail(s) PROVE StatHolds'
  BY <1>18 DEF SaveFail, SaveReturn, SaveForget
<1>19. ASSUME WalkStart PROVE StatHolds'
  BY <1>19 DEF WalkStart
<1>20. ASSUME NEW h \in todo, WalkDir(h) PROVE StatHolds'
  BY <1>20 DEF WalkDir, WalkReturn
<1>21. ASSUME WalkStat PROVE StatHolds'
  BY <1>21 DEF WalkStat, WalkReturn
<1>22. ASSUME WalkLock PROVE StatHolds'
  BY <1>22 DEF WalkLock
<1>23. ASSUME WalkDelete PROVE StatHolds'
  BY <1>23 DEF WalkDelete, Remove, Unlink
<1>24. ASSUME WalkEnd PROVE StatHolds'
  BY <1>24 DEF WalkEnd, WalkReturn
<1>25. ASSUME Tick PROVE StatHolds'
  BY <1>25 DEF Tick
<1>26. ASSUME Restart PROVE StatHolds'
  BY <1>26 DEF Restart, WalkReturn
<1>27. ASSUME UNCHANGED vars PROVE StatHolds'
  BY <1>27 DEF vars
<1>. QED
  BY <1>1, <1>2, <1>3, <1>4, <1>5, <1>6, <1>7, <1>8, <1>9, <1>10, <1>11, <1>12,
     <1>13, <1>14, <1>15, <1>16, <1>17, <1>18, <1>19, <1>20, <1>21, <1>22,
     <1>23, <1>24, <1>25, <1>26, <1>27 DEF Next, TileStep, SaveWork, WalkStep

\* All the variables stay in their ranges, and the lock, the places and what
\* os.Stat told stay as IInv says.
THEOREM Invariance == Spec => []IInv
<1>1. IInv /\ [Next]_vars => IInv'
  BY TypeStep, PlaceStep, LockStep, StatStep DEF IInv
<1>. QED
  BY InitIInv, <1>1, PTL DEF Spec

\* Type correctness.
THEOREM TypeCorrect == Spec => []TypeOK
<1>1. IInv => TypeOK
  BY DEF IInv
<1>. QED
  BY Invariance, <1>1, PTL

\* flock excludes: a writer is alone, and files change under readers' feet only
\* by removal (cache.go, Tile, Save and deleteFile).
THEOREM LockExcludes == Spec => []LockInv
<1>1. IInv => LockInv
  BY DEF IInv
<1>. QED
  BY Invariance, <1>1, PTL

\* What a caller of Tile decides by os.Stat still holds when it acts, although
\* other callers may remove files under the same read lock.
THEOREM StatCorrect == Spec => []StatHolds
<1>1. IInv => StatHolds
  BY DEF IInv
<1>. QED
  BY Invariance, <1>1, PTL

\* No caller of Tile removes a file that is not over maxage.
THEOREM RemovalCorrect == Spec => TileRemovesOnlyExpired
<1>1. ASSUME IInv, [Next]_vars,
             NEW c \in Callers, cpc[c] = "remove", cpc'[c] = "idle", crashes' = crashes,
             NEW h \in Images, files[h] # None, files'[h] = None
      PROVE  Rejected(files[h])
  <2>. USE <1>1, CacheAssumption, NamesAssumption
       DEF IInv, TypeOK, timeVars, dbVars, lockVars, callVars, saveVars, walkVars
  <2>1. TileRemove(c)
    <3>1. ASSUME NEW s \in Savers,
                 SaveWork(s) \/ SaveFail(s) \/ \E t \in Tiles, d \in Images : SaveCall(s, t, d)
          PROVE  cpc' = cpc
      BY <3>1 DEF SaveWork, SaveCall, SaveCheck, SaveStatOrg, SaveTemp, SaveStatNew,
         SaveLock, SaveRename, SaveCreate, SaveCopy, SaveIndex, SaveFail
    <3>2. CASE WalkStart \/ WalkStep \/ Tick \/ UNCHANGED vars
      BY <3>2 DEF WalkStart, WalkStep, WalkDir, WalkStat, WalkLock, WalkDelete, WalkEnd,
         Tick, vars
    <3>3. ASSUME NEW d \in Callers, NEW t \in Tiles, TileCall(d, t) PROVE cpc'[c] # "idle"
      BY <3>3 DEF TileCall
    <3>4. ASSUME NEW d \in Callers, TileStep(d) PROVE d = c
      BY <3>4 DEF TileStep, TileLookup, TileRLock, TileStat, TileRemove, TileOpen,
         TileRead, TileMiss
    <3>5. TileStep(c) => TileRemove(c)
      BY DEF TileStep, TileLookup, TileRLock, TileStat, TileOpen, TileRead
    <3>6. ~Restart
      BY DEF Restart
    <3>. QED
      BY <3>1, <3>2, <3>3, <3>4, <3>5, <3>6 DEF Next
  <2>2. h = chash[c]
    BY <2>1 DEF TileRemove, Remove
  <2>3. files[h] = cinfo[c]
    BY <2>2 DEF StatHolds
  <2>. QED
    BY <2>3 DEF PlaceInv
<1>2. IInv /\ [Next]_vars
        => [\A c \in Callers :
              cpc[c] = "remove" /\ cpc'[c] = "idle" /\ crashes' = crashes =>
                \A h \in Images : files[h] # None /\ files'[h] = None => Rejected(files[h])
           ]_vars
  BY <1>1
<1>. QED
  BY Invariance, <1>2, PTL DEF Spec, TileRemovesOnlyExpired

-----------------------------------------------------------------------------
(* The progress of the calls.                                              *)

\* flock never stops the cache: whoever holds it, on whatever path, can go on, and
\* where nobody holds it everybody can.
THEOREM SomebodyGoesOn == Spec => []NeverStuck
<1>1. ASSUME IInv PROVE NeverStuck
  <2>. USE <1>1, NamesAssumption DEF IInv, NeverStuck
  <2>1. CASE writer \in Savers
    BY <2>1 DEF LockInv, CanSave
  <2>2. CASE writer = Cleaner
    BY <2>2 DEF LockInv, CanWalk
  <2>3. CASE writer = None /\ rlocks # {}
    BY <2>3 DEF LockInv, CanTile
  <2>4. CASE writer = None /\ rlocks = {}
    BY <2>4 DEF CanTile, CanSave, CanWalk
  <2>. QED
    BY <2>1, <2>2, <2>3, <2>4 DEF TypeOK
<1>. QED
  BY Invariance, <1>1, PTL

\* A call of Tile only goes forward through its places.
LEMMA TileGoesOn ==
  ASSUME TypeOK, [Next]_vars, NEW c \in Callers, cpc[c] # "idle", cpc'[c] # cpc[c]
  PROVE  TileLeft(c)' < TileLeft(c)
<1>. USE DEF TypeOK, TileLeft, timeVars, dbVars, lockVars, callVars, saveVars, walkVars
<1>1. ASSUME NEW s \in Savers,
             SaveWork(s) \/ SaveFail(s) \/ \E t \in Tiles, d \in Images : SaveCall(s, t, d)
      PROVE  cpc' = cpc
  BY <1>1 DEF SaveWork, SaveCall, SaveCheck, SaveStatOrg, SaveTemp, SaveStatNew,
     SaveLock, SaveRename, SaveCreate, SaveCopy, SaveIndex, SaveFail
<1>2. CASE WalkStart \/ WalkStep \/ Tick \/ UNCHANGED vars
  BY <1>2 DEF WalkStart, WalkStep, WalkDir, WalkStat, WalkLock, WalkDelete, WalkEnd,
     Tick, vars
<1>3. ASSUME NEW d \in Callers, NEW t \in Tiles, TileCall(d, t) PROVE FALSE
  BY <1>3 DEF TileCall
<1>4. ASSUME NEW d \in Callers, TileStep(d) PROVE d = c
  BY <1>4 DEF TileStep, TileLookup, TileRLock, TileStat, TileRemove, TileOpen,
     TileRead, TileMiss
<1>5. CASE TileLookup(c)
  BY <1>5 DEF TileLookup, TileMiss
<1>6. CASE TileRLock(c)
  BY <1>6 DEF TileRLock
<1>7. CASE TileStat(c)
  BY <1>7 DEF TileStat, TileMiss
<1>8. CASE TileRemove(c) \/ TileOpen(c) \/ TileRead(c)
  BY <1>8 DEF TileRemove, TileOpen, TileRead, TileMiss
<1>9. CASE Restart
  BY <1>9 DEF Restart
<1>. QED
  BY <1>1, <1>2, <1>3, <1>4, <1>5, <1>6, <1>7, <1>8, <1>9 DEF Next, TileStep

\* While a save copies its image into place nobody else touches any file: who does
\* it has flock.
LEMMA NobodyElseWrites ==
  ASSUME TypeOK, LockInv, [Next]_vars, NEW s \in Savers, spc[s] = "copy",
         spc'[s] = "copy", files' # files
  PROVE  SaveCopy(s)
<1>. USE CacheAssumption, NamesAssumption
     DEF TypeOK, LockInv, timeVars, dbVars, lockVars, callVars, saveVars, walkVars
<1>1. ASSUME NEW c \in Callers, TileStep(c) \/ \E t \in Tiles : TileCall(c, t)
      PROVE  FALSE
  BY <1>1 DEF TileStep, TileCall, TileLookup, TileRLock, TileStat, TileRemove, TileOpen,
     TileRead
<1>2. ASSUME NEW r \in Savers, SaveFail(r) \/ \E t \in Tiles, d \in Images : SaveCall(r, t, d)
      PROVE  FALSE
  BY <1>2 DEF SaveFail, SaveCall
<1>3. ASSUME NEW r \in Savers, SaveWork(r) PROVE SaveCopy(r) /\ r = s
  <2>1. SaveRename(r) \/ SaveCreate(r) \/ SaveCopy(r)
    BY <1>3 DEF SaveWork, SaveCheck, SaveStatOrg, SaveTemp, SaveStatNew, SaveLock, SaveIndex
  <2>2. spc[r] \in {"move", "copy"}
    BY <2>1 DEF SaveRename, SaveCreate, SaveCopy
  <2>3. r = s
    BY <2>2
  <2>. QED
    BY <2>1, <2>3 DEF SaveRename, SaveCreate
<1>4. CASE WalkStart \/ WalkStep \/ Tick \/ UNCHANGED vars
  BY <1>4 DEF WalkStart, WalkStep, WalkDir, WalkStat, WalkLock, WalkDelete, WalkEnd,
     Tick, vars
<1>5. ~Restart
  BY DEF Restart
<1>. QED
  BY <1>1, <1>2, <1>3, <1>4, <1>5 DEF Next

\* A call of Save that moves on to another place, or returns, has less to do.
LEMMA SaveMovesOn ==
  ASSUME TypeOK, [Next]_vars, NEW s \in Savers, spc[s] # "idle", spc'[s] # spc[s]
  PROVE  SaveLeft(s)' < SaveLeft(s)
<1>. USE DEF TypeOK, SaveLeft, CopyLeft, timeVars, dbVars, lockVars, callVars, saveVars, walkVars
<1>1. ASSUME NEW c \in Callers, TileStep(c) \/ \E t \in Tiles : TileCall(c, t)
      PROVE  FALSE
  BY <1>1 DEF TileStep, TileCall, TileLookup, TileRLock, TileStat, TileRemove, TileOpen,
     TileRead
<1>2. ASSUME NEW r \in Savers, NEW t \in Tiles, NEW d \in Images, SaveCall(r, t, d)
      PROVE  FALSE
  BY <1>2 DEF SaveCall
<1>3. ASSUME NEW r \in Savers, SaveWork(r) \/ SaveFail(r) PROVE r = s
  BY <1>3 DEF SaveWork, SaveCheck, SaveStatOrg, SaveTemp, SaveStatNew, SaveLock,
     SaveRename, SaveCreate, SaveCopy, SaveIndex, SaveFail, SaveGoto, SaveReturn, SaveForget
<1>4. CASE WalkStart \/ WalkStep \/ Tick \/ UNCHANGED vars
  BY <1>4 DEF WalkStart, WalkStep, WalkDir, WalkStat, WalkLock, WalkDelete, WalkEnd,
     Tick, vars
<1>5. CASE SaveCheck(s) \/ SaveTemp(s) \/ SaveStatNew(s) \/ SaveLock(s)
  BY <1>5 DEF SaveCheck, SaveTemp, SaveStatNew, SaveLock, SaveGoto
<1>6. CASE SaveStatOrg(s) \/ SaveIndex(s) \/ SaveFail(s)
  BY <1>6 DEF SaveStatOrg, SaveIndex, SaveFail, SaveGoto, SaveReturn, SaveForget
<1>7. CASE SaveRename(s) \/ SaveCreate(s)
  BY <1>7 DEF SaveRename, SaveCreate, SaveGoto
<1>8. CASE SaveCopy(s)
  BY <1>8 DEF SaveCopy, SaveGoto
<1>9. CASE Restart
  BY <1>9 DEF Restart
<1>. QED
  BY <1>1, <1>2, <1>3, <1>4, <1>5, <1>6, <1>7, <1>8, <1>9 DEF Next, SaveWork

\* A save keeps its image while it copies it.
LEMMA ImageStays ==
  ASSUME TypeOK, [Next]_vars, NEW s \in Savers, spc[s] = "copy", spc'[s] = "copy"
  PROVE  sdata'[s] = sdata[s]
<1>. USE DEF TypeOK, timeVars, dbVars, lockVars, callVars, saveVars, walkVars
<1>1. ASSUME NEW r \in Savers, SaveWork(r) \/ SaveFail(r) PROVE sdata'[s] = sdata[s]
  BY <1>1 DEF SaveWork, SaveCheck, SaveStatOrg, SaveTemp, SaveStatNew, SaveLock,
     SaveRename, SaveCreate, SaveCopy, SaveIndex, SaveFail, SaveGoto, SaveReturn, SaveForget
<1>2. ASSUME NEW r \in Savers, NEW t \in Tiles, NEW d \in Images, SaveCall(r, t, d)
      PROVE  sdata'[s] = sdata[s]
  BY <1>2 DEF SaveCall
<1>3. ASSUME NEW c \in Callers, TileStep(c) \/ \E t \in Tiles : TileCall(c, t)
      PROVE  sdata' = sdata
  BY <1>3 DEF TileStep, TileCall, TileLookup, TileRLock, TileStat, TileRemove, TileOpen,
     TileRead
<1>4. CASE WalkStart \/ WalkStep \/ Tick \/ UNCHANGED vars
  BY <1>4 DEF WalkStart, WalkStep, WalkDir, WalkStat, WalkLock, WalkDelete, WalkEnd,
     Tick, vars
<1>5. ~Restart
  BY DEF Restart
<1>. QED
  BY <1>1, <1>2, <1>3, <1>4, <1>5 DEF Next

\* A call of Save has never more to do than before, and less after each step of its
\* own, those of the copy too.
LEMMA SaveGoesOn ==
  ASSUME IInv, [Next]_vars, NEW s \in Savers, spc[s] # "idle"
  PROVE  /\ SaveLeft(s)' <= SaveLeft(s)
         /\ spc'[s] # spc[s] \/ (spc[s] = "copy" /\ files' # files)
              => SaveLeft(s)' < SaveLeft(s)
<1>. USE DEF IInv
<1>1. SaveLeft(s) \in Nat /\ SaveLeft(s)' \in Nat
  <2>1. spc[s] \in {"idle", "check", "statOrg", "temp", "statNew", "lock", "move", "copy", "index"}
    BY DEF TypeOK
  <2>2. spc'[s] \in {"idle", "check", "statOrg", "temp", "statNew", "lock", "move", "copy", "index"}
    BY TypeStep DEF TypeOK
  <2>. QED
    BY <2>1, <2>2 DEF SaveLeft, CopyLeft
<1>2. CASE spc'[s] # spc[s]
  BY <1>1, <1>2, SaveMovesOn
<1>3. CASE spc'[s] = spc[s] /\ spc[s] # "copy"
  BY <1>1, <1>3 DEF SaveLeft
<1>4. CASE spc'[s] = "copy" /\ spc[s] = "copy" /\ files' = files
  BY <1>1, <1>4, ImageStays DEF SaveLeft, CopyLeft
<1>5. CASE spc'[s] = "copy" /\ spc[s] = "copy" /\ files' # files
  <2>1. SaveCopy(s)
    BY <1>5, NobodyElseWrites
  <2>2. files[sdata[s]].data = "short" /\ sdata[s] \notin Small
    BY <1>5, <2>1 DEF SaveCopy, SaveGoto, TypeOK
  <2>3. files'[sdata[s]].data = "part" /\ sdata'[s] = sdata[s]
    <3>1. sdata[s] \in Images
      BY <1>5 DEF PlaceInv
    <3>. QED
      BY <2>1, <2>2, <3>1 DEF SaveCopy, SaveGoto, TypeOK
  <2>. QED
    BY <1>5, <2>2, <2>3 DEF SaveLeft, CopyLeft
<1>. QED
  BY <1>2, <1>3, <1>4, <1>5

\* The cleanup goes on to the end of the file at hand or to the next directory.
LEMMA WalkGoesOn ==
  ASSUME TypeOK, [Next]_vars, kpc # "idle", kpc' # "idle"
  PROVE  /\ todo' \subseteq todo
         /\ kpc' # kpc => todo' # todo \/ FileLeft' < FileLeft
<1>. USE DEF TypeOK, FileLeft, timeVars, dbVars, lockVars, callVars, saveVars, walkVars
<1>1. ASSUME NEW c \in Callers, TileStep(c) \/ \E t \in Tiles : TileCall(c, t)
      PROVE  UNCHANGED walkVars
  BY <1>1 DEF TileStep, TileCall, TileLookup, TileRLock, TileStat, TileRemove, TileOpen,
     TileRead
<1>2. ASSUME NEW s \in Savers,
             SaveWork(s) \/ SaveFail(s) \/ \E t \in Tiles, d \in Images : SaveCall(s, t, d)
      PROVE  UNCHANGED walkVars
  BY <1>2 DEF SaveWork, SaveCall, SaveCheck, SaveStatOrg, SaveTemp, SaveStatNew,
     SaveLock, SaveRename, SaveCreate, SaveCopy, SaveIndex, SaveFail
<1>3. CASE Tick \/ UNCHANGED vars
  BY <1>3 DEF Tick, vars
<1>4. ASSUME NEW h \in todo, WalkDir(h) PROVE todo' \subseteq todo /\ todo' # todo
  BY <1>4 DEF WalkDir, WalkReturn
<1>5. CASE WalkStat \/ WalkLock \/ WalkDelete
  BY <1>5 DEF WalkStat, WalkLock, WalkDelete, WalkReturn
<1>6. ~WalkStart /\ ~WalkEnd /\ ~Restart
  BY DEF WalkStart, WalkEnd, WalkReturn, Restart
<1>. QED
  BY <1>1, <1>2, <1>3, <1>4, <1>5, <1>6 DEF Next, WalkStep

\* Every call of Tile or Save, and the cleanup, returns after a bounded number of
\* its own steps: none of them goes back, and what others do to the files leaves it
\* no more to do.  That an image is being copied by one save only is what flock is
\* needed for.
THEOREM CallsEndInTime == Spec => CallsGetOn
<1>1. IInv /\ [Next]_vars
        => [/\ \A c \in Callers : cpc[c] # "idle" /\ cpc'[c] # cpc[c] => TileLeft(c)' < TileLeft(c)
            /\ \A s \in Savers : spc[s] # "idle" =>
                 /\ SaveLeft(s)' <= SaveLeft(s)
                 /\ spc'[s] # spc[s] \/ (spc[s] = "copy" /\ files' # files)
                      => SaveLeft(s)' < SaveLeft(s)
            /\ kpc # "idle" /\ kpc' # "idle" =>
                 /\ todo' \subseteq todo
                 /\ kpc' # kpc => todo' # todo \/ FileLeft' < FileLeft
           ]_vars
  <2>1. IInv => TypeOK
    BY DEF IInv
  <2>. QED
    BY <2>1, TileGoesOn, SaveGoesOn, WalkGoesOn
<1>. QED
  BY Invariance, <1>1, PTL DEF Spec, CallsGetOn

-----------------------------------------------------------------------------
(* Images come from where they were saved to, if the index can tell the    *)
(* tiles apart.                                                            *)

\* No step lets an image through that was not saved for its tile.
LEMMA SavedStep ==
  ASSUME IInv, SavedInv, KeysDistinct(Tiles), [Next]_vars PROVE SavedInv'
<1>. USE CacheAssumption, NamesAssumption
     DEF IInv, TypeOK, PlaceInv, SavedInv, HitIsSaved, Amount,
         timeVars, dbVars, lockVars, callVars, saveVars, walkVars
<1>1. ASSUME NEW c \in Callers, NEW t \in Tiles, TileCall(c, t) PROVE SavedInv'
  BY <1>1 DEF TileCall
<1>2. ASSUME NEW c \in Callers, TileLookup(c) PROVE SavedInv'
  BY <1>2 DEF TileLookup, TileMiss, Lookup, Keys
<1>3. ASSUME NEW c \in Callers, TileRLock(c) PROVE SavedInv'
  BY <1>3 DEF TileRLock
<1>4. ASSUME NEW c \in Callers, TileStat(c) PROVE SavedInv'
  BY <1>4 DEF TileStat, TileMiss
<1>5. ASSUME NEW c \in Callers, TileRemove(c) PROVE SavedInv'
  BY <1>5 DEF TileRemove, TileMiss, Remove, Unlink
<1>6. ASSUME NEW c \in Callers, TileOpen(c) PROVE SavedInv'
  BY <1>6 DEF TileOpen, TileMiss
<1>7. ASSUME NEW c \in Callers, TileRead(c) PROVE SavedInv'
  BY <1>7 DEF TileRead, FdData
<1>8. ASSUME NEW s \in Savers, NEW t \in Tiles, NEW d \in Images, SaveCall(s, t, d)
      PROVE  SavedInv'
  BY <1>8 DEF SaveCall
<1>9. ASSUME NEW s \in Savers, SaveCheck(s) PROVE SavedInv'
  BY <1>9 DEF SaveCheck, SaveGoto, Lookup, Keys
<1>10. ASSUME NEW s \in Savers, SaveStatOrg(s) PROVE SavedInv'
  BY <1>10 DEF SaveStatOrg, SaveGoto, SaveReturn, SaveForget
<1>11. ASSUME NEW s \in Savers, SaveTemp(s) PROVE SavedInv'
  BY <1>11 DEF SaveTemp, SaveGoto
<1>12. ASSUME NEW s \in Savers, SaveStatNew(s) PROVE SavedInv'
  BY <1>12 DEF SaveStatNew, SaveGoto
<1>13. ASSUME NEW s \in Savers, SaveLock(s) PROVE SavedInv'
  BY <1>13 DEF SaveLock, SaveGoto
<1>14. ASSUME NEW s \in Savers, SaveRename(s) PROVE SavedInv'
  BY <1>14 DEF SaveRename, SaveGoto, Unlink
<1>15. ASSUME NEW s \in Savers, SaveCreate(s) PROVE SavedInv'
  BY <1>15 DEF SaveCreate, SaveGoto
<1>16. ASSUME NEW s \in Savers, SaveCopy(s) PROVE SavedInv'
  BY <1>16 DEF SaveCopy, SaveGoto
<1>17. ASSUME NEW s \in Savers, SaveIndex(s) PROVE SavedInv'
  BY <1>17 DEF SaveIndex, DBSet, SaveReturn, SaveForget, KeysDistinct, Keys, Lookup
<1>18. ASSUME NEW s \in Savers, SaveFail(s) PROVE SavedInv'
  BY <1>18 DEF SaveFail, SaveReturn, SaveForget
<1>19. ASSUME WalkStart PROVE SavedInv'
  BY <1>19 DEF WalkStart
<1>20. ASSUME NEW h \in todo, WalkDir(h) PROVE SavedInv'
  BY <1>20 DEF WalkDir, WalkReturn
<1>21. ASSUME WalkStat PROVE SavedInv'
  BY <1>21 DEF WalkStat, WalkReturn
<1>22. ASSUME WalkLock PROVE SavedInv'
  BY <1>22 DEF WalkLock
<1>23. ASSUME WalkDelete PROVE SavedInv'
  BY <1>23 DEF WalkDelete, Remove, Unlink
<1>24. ASSUME WalkEnd PROVE SavedInv'
  BY <1>24 DEF WalkEnd, WalkReturn
<1>25. ASSUME Tick PROVE SavedInv'
  BY <1>25 DEF Tick
<1>26. ASSUME Restart PROVE SavedInv'
  BY <1>26 DEF Restart, WalkReturn
<1>27. ASSUME UNCHANGED vars PROVE SavedInv'
  BY <1>27 DEF vars
<1>. QED
  BY <1>1, <1>2, <1>3, <1>4, <1>5, <1>6, <1>7, <1>8, <1>9, <1>10, <1>11, <1>12,
     <1>13, <1>14, <1>15, <1>16, <1>17, <1>18, <1>19, <1>20, <1>21, <1>22,
     <1>23, <1>24, <1>25, <1>26, <1>27 DEF Next, TileStep, SaveWork, WalkStep

\* What a client gets from the cache was saved for the tile it asked for,
\* whatever saves, cleanups and deaths of the process come in between: provided
\* the index keys of the tiles differ, which DBKey has for zoom levels up to 16
\* (AddressableKeysDistinct in TileKeyProofs).
THEOREM HitsCorrect == ASSUME KeysDistinct(Tiles) PROVE Spec => []HitIsSaved
<1>1. Init => SavedInv
  BY NamesAssumption DEF Init, SavedInv, HitIsSaved, Amount, Keys
<1>2. IInv /\ SavedInv /\ [Next]_vars => SavedInv'
  BY SavedStep
<1>3. SavedInv => HitIsSaved
  BY DEF SavedInv
<1>. QED
  BY Invariance, <1>1, <1>2, <1>3, PTL DEF Spec

\* So it is in the program for every tile the handler lets through up to zoom level
\* 16, which is as far as it goes (SixteenIsTheLast, KeyCollision).
THEOREM HitsToSixteen ==
  ASSUME IntBits = 64, ZRange = 256, XYRange = 65536,
         \A t \in Tiles : IsValid(t) /\ t.Z <= 16
  PROVE  Spec => []HitIsSaved
<1>1. Tiles \in SUBSET Tile
  BY CacheAssumption
<1>2. \A t \in Tiles : Addressable(t)
  BY <1>1, AddressableToSixteen
<1>3. KeysDistinct(Tiles)
  BY <1>1, <1>2, AddressableKeysDistinct
<1>. QED
  BY <1>3, HitsCorrect

-----------------------------------------------------------------------------
(* Where os.Rename works, readers see whole files only.                    *)

\* No step leaves a part of an image where a reader may find it.
LEMMA WholeStep ==
  ASSUME IInv, WholeInv, SameDevice, ~IOFaults, [Next]_vars PROVE WholeInv'
<1>. USE CacheAssumption, NamesAssumption
     DEF IInv, TypeOK, PlaceInv, WholeInv, HitIsWhole, Amount,
         timeVars, dbVars, lockVars, callVars, saveVars, walkVars
<1>1. ASSUME NEW c \in Callers, NEW t \in Tiles, TileCall(c, t) PROVE WholeInv'
  BY <1>1 DEF TileCall
<1>2. ASSUME NEW c \in Callers, TileLookup(c) PROVE WholeInv'
  BY <1>2 DEF TileLookup, TileMiss, Lookup, Keys
<1>3. ASSUME NEW c \in Callers, TileRLock(c) PROVE WholeInv'
  BY <1>3 DEF TileRLock
<1>4. ASSUME NEW c \in Callers, TileStat(c) PROVE WholeInv'
  BY <1>4 DEF TileStat, TileMiss
<1>5. ASSUME NEW c \in Callers, TileRemove(c) PROVE WholeInv'
  BY <1>5 DEF TileRemove, TileMiss, Remove, Unlink
<1>6. ASSUME NEW c \in Callers, TileOpen(c) PROVE WholeInv'
  BY <1>6 DEF TileOpen, TileMiss
<1>7. ASSUME NEW c \in Callers, TileRead(c) PROVE WholeInv'
  BY <1>7 DEF TileRead, FdData
<1>8. ASSUME NEW s \in Savers, NEW t \in Tiles, NEW d \in Images, SaveCall(s, t, d)
      PROVE  WholeInv'
  BY <1>8 DEF SaveCall
<1>9. ASSUME NEW s \in Savers, SaveCheck(s) PROVE WholeInv'
  BY <1>9 DEF SaveCheck, SaveGoto, Lookup, Keys
<1>10. ASSUME NEW s \in Savers, SaveStatOrg(s) PROVE WholeInv'
  BY <1>10 DEF SaveStatOrg, SaveGoto, SaveReturn, SaveForget
<1>11. ASSUME NEW s \in Savers, SaveTemp(s) PROVE WholeInv'
  BY <1>11 DEF SaveTemp, SaveGoto
<1>12. ASSUME NEW s \in Savers, SaveStatNew(s) PROVE WholeInv'
  BY <1>12 DEF SaveStatNew, SaveGoto
<1>13. ASSUME NEW s \in Savers, SaveLock(s) PROVE WholeInv'
  BY <1>13 DEF SaveLock, SaveGoto
<1>14. ASSUME NEW s \in Savers, SaveRename(s) PROVE WholeInv'
  BY <1>14 DEF SaveRename, SaveGoto, Unlink
<1>15. ASSUME NEW s \in Savers, SaveCreate(s) PROVE WholeInv'
  BY <1>15 DEF SaveCreate, SaveGoto
<1>16. ASSUME NEW s \in Savers, SaveCopy(s) PROVE WholeInv'
  BY <1>16 DEF SaveCopy, SaveGoto
<1>17. ASSUME NEW s \in Savers, SaveIndex(s) PROVE WholeInv'
  BY <1>17 DEF SaveIndex, DBSet, SaveReturn, SaveForget
<1>18. ASSUME NEW s \in Savers, SaveFail(s) PROVE WholeInv'
  BY <1>18 DEF SaveFail, SaveReturn, SaveForget
<1>19. ASSUME WalkStart PROVE WholeInv'
  BY <1>19 DEF WalkStart
<1>20. ASSUME NEW h \in todo, WalkDir(h) PROVE WholeInv'
  BY <1>20 DEF WalkDir, WalkReturn
<1>21. ASSUME WalkStat PROVE WholeInv'
  BY <1>21 DEF WalkStat, WalkReturn
<1>22. ASSUME WalkLock PROVE WholeInv'
  BY <1>22 DEF WalkLock
<1>23. ASSUME WalkDelete PROVE WholeInv'
  BY <1>23 DEF WalkDelete, Remove, Unlink
<1>24. ASSUME WalkEnd PROVE WholeInv'
  BY <1>24 DEF WalkEnd, WalkReturn
<1>25. ASSUME Tick PROVE WholeInv'
  BY <1>25 DEF Tick
<1>26. ASSUME Restart PROVE WholeInv'
  BY <1>26 DEF Restart, WalkReturn
<1>27. ASSUME UNCHANGED vars PROVE WholeInv'
  BY <1>27 DEF vars
<1>. QED
  BY <1>1, <1>2, <1>3, <1>4, <1>5, <1>6, <1>7, <1>8, <1>9, <1>10, <1>11, <1>12,
     <1>13, <1>14, <1>15, <1>16, <1>17, <1>18, <1>19, <1>20, <1>21, <1>22,
     <1>23, <1>24, <1>25, <1>26, <1>27 DEF Next, TileStep, SaveWork, WalkStep

\* With the temporary directory on the device of the cache and no call failing,
\* clients get images whole: Save and the cleanup never change a file under an
\* open reader, and the death of the process leaves no part of one behind.
THEOREM HitsWhole == ASSUME SameDevice, ~IOFaults PROVE Spec => []HitIsWhole
<1>1. Init => WholeInv
  BY NamesAssumption DEF Init, WholeInv, HitIsWhole, Amount
<1>2. IInv /\ WholeInv /\ [Next]_vars => WholeInv'
  BY WholeStep
<1>3. WholeInv => HitIsWhole
  BY DEF WholeInv
<1>. QED
  BY Invariance, <1>1, <1>2, <1>3, PTL DEF Spec

-----------------------------------------------------------------------------
(* Who leaves a part of an image behind, on whatever device and with       *)
(* whatever failures.                                                      *)

\* A file that no save copies, and that stays as it is or goes away, is not cut by it.
LEMMA NotCutBy ==
  ASSUME NEW h \in Images, files'[h] \in {files[h], None}, Cut(h)',
         \A s \in Savers : Copies(s, h) => Copies(s, h)'
  PROVE  Cut(h)
BY DEF Cut

\* The step that leaves a file cut ends a save that was copying it.
LEMMA CutStep ==
  ASSUME IInv, [Next]_vars, NEW h \in Images, Cut(h)', ~Cut(h)
  PROVE  \E s \in Savers : Copies(s, h) /\ spc'[s] = "idle"
<1>. USE NamesAssumption
     DEF IInv, TypeOK, Copies, timeVars, dbVars, lockVars, callVars, saveVars, walkVars
<1>1. ASSUME NEW c \in Callers, TileStep(c) \/ \E t \in Tiles : TileCall(c, t)
      PROVE  FALSE
  <2>1. files'[h] \in {files[h], None} /\ UNCHANGED <<spc, sdata>>
    BY <1>1 DEF TileStep, TileCall, TileLookup, TileRLock, TileStat, TileRemove, TileOpen,
       TileRead, Remove
  <2>. QED
    BY <2>1, NotCutBy
<1>2. CASE WalkStart \/ WalkStep \/ Tick \/ UNCHANGED vars
  <2>1. files'[h] \in {files[h], None} /\ UNCHANGED <<spc, sdata>>
    BY <1>2 DEF WalkStart, WalkStep, WalkDir, WalkStat, WalkLock, WalkDelete, WalkEnd,
       Tick, Remove, vars
  <2>. QED
    BY <2>1, NotCutBy
<1>3. ASSUME NEW s \in Savers, NEW t \in Tiles, NEW d \in Images, SaveCall(s, t, d)
      PROVE  FALSE
  BY <1>3, NotCutBy DEF SaveCall
<1>4. ASSUME NEW s \in Savers,
             SaveCheck(s) \/ SaveStatOrg(s) \/ SaveTemp(s) \/ SaveStatNew(s) \/ SaveLock(s)
             \/ SaveIndex(s)
      PROVE  FALSE
  <2>1. files' = files /\ \A r \in Savers : Copies(r, h) => Copies(r, h)'
    BY <1>4 DEF SaveCheck, SaveStatOrg, SaveTemp, SaveStatNew, SaveLock, SaveIndex, SaveGoto,
       SaveReturn, SaveForget
  <2>. QED
    BY <2>1, NotCutBy
<1>5. ASSUME NEW s \in Savers, SaveRename(s) PROVE FALSE
  <2>1. \A r \in Savers : Copies(r, h) => Copies(r, h)'
    BY <1>5 DEF SaveRename, SaveGoto
  <2>2. h # sdata[s]
    BY <1>5 DEF SaveRename, Cut
  <2>. QED
    BY <1>5, <2>1, <2>2, NotCutBy DEF SaveRename
<1>6. ASSUME NEW s \in Savers, SaveCreate(s) PROVE FALSE
  <2>1. \A r \in Savers : Copies(r, h) => Copies(r, h)'
    BY <1>6 DEF SaveCreate, SaveGoto
  <2>2. h # sdata[s]
    BY <1>6 DEF SaveCreate, SaveGoto, Cut
  <2>. QED
    BY <1>6, <2>1, <2>2, NotCutBy DEF SaveCreate
<1>7. ASSUME NEW s \in Savers, SaveCopy(s) PROVE FALSE
  <2>1. h # sdata[s]
    BY <1>7 DEF SaveCopy, SaveGoto, Cut
  <2>2. \A r \in Savers : Copies(r, h) => Copies(r, h)'
    BY <1>7, <2>1 DEF SaveCopy, SaveGoto
  <2>. QED
    BY <1>7, <2>1, <2>2, NotCutBy DEF SaveCopy
<1>8. ASSUME NEW s \in Savers, SaveFail(s) PROVE Copies(s, h) /\ spc'[s] = "idle"
  <2>1. files' = files /\ spc' = [spc EXCEPT ![s] = "idle"]
        /\ \A r \in Savers \ {s} : sdata'[r] = sdata[r]
    BY <1>8 DEF SaveFail, SaveReturn, SaveForget
  <2>2. ~Copies(s, h) => \A r \in Savers : Copies(r, h) => Copies(r, h)'
    BY <2>1
  <2>. QED
    BY <2>1, <2>2, NotCutBy
<1>9. CASE Restart
  <2>1. files' = files /\ \A s \in Savers : spc'[s] = "idle"
    BY <1>9 DEF Restart
  <2>. QED
    BY <2>1 DEF Cut
<1>. QED
  BY <1>1, <1>2, <1>3, <1>4, <1>5, <1>6, <1>7, <1>8, <1>9 DEF Next, SaveWork

\* A part of an image under the name of the whole is always what a copy has left
\* that failed, or in which the process died: neither a second save of the image nor
\* the cleanup nor a caller of Tile, for any number of them, comes between a copy
\* and its end.
THEOREM CutByFailureOnly == Spec => CutOnlyByFailure
<1>1. IInv /\ [Next]_vars
        => [\A h \in Images : Cut(h)' /\ ~Cut(h) =>
              \E s \in Savers : Copies(s, h) /\ spc'[s] = "idle"
           ]_vars
  BY CutStep
<1>. QED
  BY Invariance, <1>1, PTL DEF Spec, CutOnlyByFailure

-----------------------------------------------------------------------------
(* The cache implements its contract.                                      *)

\* A step that gives no answer and takes no question stutters in the contract.
LEMMA AnswerSame ==
  ASSUME UNCHANGED <<saved, carg, got>>,
         \A c \in Callers : got[c] # "none" => chash'[c] = chash[c]
  PROVE  UNCHANGED <<saved, carg, Answer>>
BY DEF Answer

\* Every step of the cache is one of the contract, or none.
LEMMA ContractStep ==
  ASSUME IInv, IInv', SavedInv, WholeInv, WholeInv', [Next]_vars
  PROVE  [Contract!Next]_<<saved, carg, Answer>>
<1>. USE CacheAssumption, NamesAssumption
     DEF timeVars, dbVars, lockVars, callVars, saveVars, walkVars
<1>1. ASSUME NEW c \in Callers, NEW t \in Tiles, TileCall(c, t)
      PROVE  Contract!Ask(c, t)
  <2>1. Answer' = [Answer EXCEPT ![c] = None]
    BY <1>1 DEF TileCall, Answer, IInv, TypeOK
  <2>. QED
    BY <1>1, <2>1 DEF TileCall, Contract!Ask
<1>2. ASSUME NEW c \in Callers, TileMiss(c), cpc[c] # "idle", UNCHANGED saved
      PROVE  Contract!Tell(c)
  <2>1. Answer' = [Answer EXCEPT ![c] = "miss"]
    BY <1>2 DEF TileMiss, Answer, IInv, TypeOK
  <2>2. carg[c] # None /\ Answer[c] = None
    BY <1>2 DEF Answer, IInv, PlaceInv
  <2>. QED
    BY <1>2, <2>1, <2>2 DEF TileMiss, Contract!Tell
<1>3. ASSUME NEW c \in Callers, TileRead(c)
      PROVE  Contract!Tell(c)
  <2>1. got' = [got EXCEPT ![c] = "whole"]
    BY <1>3 DEF TileRead, IInv, TypeOK, PlaceInv, WholeInv, FdData
  <2>2. /\ chash[c] \in Images /\ <<carg[c], chash[c]>> \in saved
        /\ carg[c] # None /\ got[c] = "none"
    BY <1>3 DEF TileRead, IInv, PlaceInv, SavedInv
  <2>3. Answer' = [Answer EXCEPT ![c] = chash[c]]
    BY <1>3, <2>1, <2>2 DEF TileRead, Answer, IInv, TypeOK
  <2>. QED
    BY <1>3, <2>2, <2>3 DEF TileRead, Contract!Tell, Answer
<1>4. ASSUME NEW s \in Savers, NEW t \in Tiles, NEW d \in Images, SaveCall(s, t, d)
      PROVE  Contract!Save(t, d)
  BY <1>4 DEF SaveCall, Contract!Save, Answer
<1>5. ASSUME Restart PROVE Contract!Forget
  BY <1>5 DEF Restart, Contract!Forget, Answer
<1>6. ASSUME NEW c \in Callers, TileLookup(c)
      PROVE  Contract!Tell(c) \/ UNCHANGED <<saved, carg, Answer>>
  BY <1>6, <1>2, AnswerSame
     DEF TileLookup, Remove, IInv, TypeOK, PlaceInv
<1>7. ASSUME NEW c \in Callers, TileRLock(c) PROVE UNCHANGED <<saved, carg, Answer>>
  BY <1>7, AnswerSame DEF TileRLock
<1>8. ASSUME NEW c \in Callers, TileStat(c)
      PROVE  Contract!Tell(c) \/ UNCHANGED <<saved, carg, Answer>>
  BY <1>8, <1>2, AnswerSame
     DEF TileStat, Remove, IInv, TypeOK, PlaceInv
<1>9. ASSUME NEW c \in Callers, TileRemove(c)
      PROVE  Contract!Tell(c) \/ UNCHANGED <<saved, carg, Answer>>
  BY <1>9, <1>2, AnswerSame
     DEF TileRemove, Remove, IInv, TypeOK, PlaceInv
<1>10. ASSUME NEW c \in Callers, TileOpen(c)
      PROVE  Contract!Tell(c) \/ UNCHANGED <<saved, carg, Answer>>
  BY <1>10, <1>2, AnswerSame
     DEF TileOpen, Remove, IInv, TypeOK, PlaceInv
<1>11. ASSUME NEW s \in Savers, SaveCheck(s) PROVE UNCHANGED <<saved, carg, Answer>>
  BY <1>11, AnswerSame DEF SaveCheck, SaveGoto, Lookup, Keys
<1>12. ASSUME NEW s \in Savers, SaveStatOrg(s) PROVE UNCHANGED <<saved, carg, Answer>>
  BY <1>12, AnswerSame DEF SaveStatOrg, SaveGoto, SaveReturn, SaveForget
<1>13. ASSUME NEW s \in Savers, SaveTemp(s) PROVE UNCHANGED <<saved, carg, Answer>>
  BY <1>13, AnswerSame DEF SaveTemp, SaveGoto
<1>14. ASSUME NEW s \in Savers, SaveStatNew(s) PROVE UNCHANGED <<saved, carg, Answer>>
  BY <1>14, AnswerSame DEF SaveStatNew, SaveGoto
<1>15. ASSUME NEW s \in Savers, SaveLock(s) PROVE UNCHANGED <<saved, carg, Answer>>
  BY <1>15, AnswerSame DEF SaveLock, SaveGoto
<1>16. ASSUME NEW s \in Savers, SaveRename(s) PROVE UNCHANGED <<saved, carg, Answer>>
  BY <1>16, AnswerSame DEF SaveRename, SaveGoto, Unlink
<1>17. ASSUME NEW s \in Savers, SaveCreate(s) PROVE UNCHANGED <<saved, carg, Answer>>
  BY <1>17, AnswerSame DEF SaveCreate, SaveGoto
<1>18. ASSUME NEW s \in Savers, SaveCopy(s) PROVE UNCHANGED <<saved, carg, Answer>>
  BY <1>18, AnswerSame DEF SaveCopy, SaveGoto
<1>19. ASSUME NEW s \in Savers, SaveIndex(s) PROVE UNCHANGED <<saved, carg, Answer>>
  BY <1>19, AnswerSame DEF SaveIndex, DBSet, SaveReturn, SaveForget
<1>20. ASSUME NEW s \in Savers, SaveFail(s) PROVE UNCHANGED <<saved, carg, Answer>>
  BY <1>20, AnswerSame DEF SaveFail, SaveReturn, SaveForget
<1>21. ASSUME WalkStart PROVE UNCHANGED <<saved, carg, Answer>>
  BY <1>21, AnswerSame DEF WalkStart
<1>22. ASSUME NEW h \in todo, WalkDir(h) PROVE UNCHANGED <<saved, carg, Answer>>
  BY <1>22, AnswerSame DEF WalkDir, WalkReturn
<1>23. ASSUME WalkStat PROVE UNCHANGED <<saved, carg, Answer>>
  BY <1>23, AnswerSame DEF WalkStat, WalkReturn
<1>24. ASSUME WalkLock PROVE UNCHANGED <<saved, carg, Answer>>
  BY <1>24, AnswerSame DEF WalkLock
<1>25. ASSUME WalkDelete PROVE UNCHANGED <<saved, carg, Answer>>
  BY <1>25, AnswerSame DEF WalkDelete, Remove, Unlink
<1>26. ASSUME WalkEnd PROVE UNCHANGED <<saved, carg, Answer>>
  BY <1>26, AnswerSame DEF WalkEnd, WalkReturn
<1>27. ASSUME Tick PROVE UNCHANGED <<saved, carg, Answer>>
  BY <1>27, AnswerSame DEF Tick
<1>28. ASSUME UNCHANGED vars PROVE UNCHANGED <<saved, carg, Answer>>
  BY <1>28, AnswerSame DEF vars
<1>. QED
  BY <1>1, <1>2, <1>3, <1>4, <1>5, <1>6, <1>7, <1>8, <1>9, <1>10, <1>11, <1>12,
     <1>13, <1>14, <1>15, <1>16, <1>17, <1>18, <1>19, <1>20, <1>21, <1>22,
     <1>23, <1>24, <1>25, <1>26, <1>27, <1>28
     DEF Next, TileStep, SaveWork, WalkStep, Contract!Next

\* The users of the cache see a miss, or the whole of an image saved for their
\* tile: the detailed cache implements CacheContract.
THEOREM ImplementsContract ==
  ASSUME KeysDistinct(Tiles), SameDevice, ~IOFaults
  PROVE  Spec => KeepsContract
<1>1. Init => SavedInv /\ WholeInv
  BY NamesAssumption DEF Init, SavedInv, WholeInv, HitIsSaved, HitIsWhole, Amount, Keys
<1>2. IInv /\ SavedInv /\ [Next]_vars => SavedInv'
  BY SavedStep
<1>3. IInv /\ WholeInv /\ [Next]_vars => WholeInv'
  BY WholeStep
<1>4. Init => Contract!Init
  BY DEF Init, Contract!Init, Answer
<1>5. /\ IInv /\ SavedInv /\ WholeInv /\ [Next]_vars /\ IInv' /\ WholeInv'
      => [Contract!Next]_<<saved, carg, Answer>>
  BY ContractStep
<1>. QED
  BY Invariance, <1>1, <1>2, <1>3, <1>4, <1>5, PTL DEF Spec, KeepsContract, Contract!Spec
=============================================================================
