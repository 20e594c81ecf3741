------------------------------ MODULE TileCache ------------------------------
(***************************************************************************)
(* internal/tilecache/cache.go with the cache active: the file store, the  *)
(* badger index, the lock flock, and the goroutines that use them: callers *)
(* of Tile, goroutines in Save, the hourly cleanup, and the death and      *)
(* restart of the process between any two steps.                           *)
(*                                                                         *)
(* A file is named by the SHA-256 of its content.  The hash is taken to be *)
(* injective, so an image stands for its own hash.  Time is counted in     *)
(* hours, the unit of maxage.  Index transactions and file system calls    *)
(* are atomic, the copy of the cross-device fallback is not.               *)
(***************************************************************************)
EXTENDS TileKey

CONSTANTS
  Tiles,       \* the tiles that are asked for
  Images,      \* tile contents, each also standing for its hash
  Small,       \* the images of less than 100 bytes
  Callers,     \* goroutines that call Cache.Tile
  Savers,      \* goroutines that call Cache.Save
  Cleaner,     \* the goroutine of startCacheCleanupJob
  None,        \* no image, no file, nobody
  MaxAge,      \* Config.MaxAge
  SameDevice,  \* os.Rename from the temporary directory into the cache works
  IOFaults,    \* calls to the file system and to badger may fail
  MaxClock,    \* bound: hours that pass
  MaxCrashes   \* bound: deaths of the process

\* How much of its image a file holds: under 100 bytes, more, or all of it.
Amount == {"short", "part", "whole"}
File == [data : Amount, mtime : Nat]

ASSUME CacheAssumption ==
  /\ Tiles \subseteq Tile
  /\ Small \subseteq Images
  /\ MaxAge \in Int
  /\ SameDevice \in BOOLEAN
  /\ IOFaults \in BOOLEAN
  /\ MaxClock \in Nat
  /\ MaxCrashes \in Nat

ASSUME NamesAssumption ==
  /\ None \notin Images \cup Savers \cup File \cup Tiles
  /\ Cleaner \notin Savers \cup {None}

VARIABLES
  clock,    \* time.Now, in hours
  crashes,  \* deaths of the process so far
  dbUp,     \* badger.Open succeeded, c.db is not nil
  db,       \* the index: key -> hash; its entries are never deleted
  files,    \* the tiles directory: hash -> file
  writer,   \* who holds flock for writing
  rlocks,   \* who holds flock for reading
  \* per caller of Tile:
  cpc, carg, chash, cinfo, \* its place, its tile, db.Hash, the os.Stat result
  fd,       \* the file it has opened: the one linked at chash, or a file no
            \* longer linked, known by its data
  got,      \* what the call gave to its user
  \* per goroutine in Save:
  spc, sarg, sdata, sorg, stmp, \* place, tile, data, orgHash, mtime of tmpFile
  \* the cleanup's walk:
  kpc, kfile, know, todo, \* place, file at hand, now, directories to visit
  saved     \* history: every <<tile, image>> Save was ever called with

timeVars == <<clock, crashes>>
dbVars   == <<dbUp, db>>
lockVars == <<writer, rlocks>>
callVars == <<cpc, carg, chash, cinfo, fd, got>>
saveVars == <<spc, sarg, sdata, sorg, stmp, saved>>
walkVars == <<kpc, kfile, know, todo>>
vars == <<timeVars, dbVars, files, lockVars, callVars, saveVars, walkVars>>

-----------------------------------------------------------------------------
Keys == {DBKey(t) : t \in Tiles}

\* DBHas and then DBGet, each a transaction of its own: entries are never
\* deleted, so both together read the index once.
Lookup(t) == IF dbUp THEN db[DBKey(t)] ELSE None

\* DBSet, which does nothing without a database
DBSet(t, h) == db' = IF dbUp THEN [db EXCEPT ![DBKey(t)] = h] ELSE db

\* isRejected
Rejected(f) == MaxAge > 0 /\ clock - f.mtime > MaxAge

\* fi.Size() < 100
TooSmall(h, f) == f.data = "short" \/ (f.data = "whole" /\ h \in Small)

\* What a reader of c's open file finds in it.
FdData(c) == IF fd[c] = "linked" THEN files[chash[c]].data ELSE fd[c]

\* The name h comes to denote another file or none: who has the old file open
\* keeps it.
Unlink(h) ==
  fd' = [c \in Callers |-> IF fd[c] = "linked" /\ chash[c] = h
                           THEN files[h].data ELSE fd[c]]

\* os.Remove
Remove(h) ==
  /\ files' = [files EXCEPT ![h] = None]
  /\ Unlink(h)

-----------------------------------------------------------------------------
Init ==
  /\ clock = 0 /\ crashes = 0
  /\ dbUp \in (IF IOFaults THEN BOOLEAN ELSE {TRUE})
  /\ db = [k \in Keys |-> None]
  /\ files = [h \in Images |-> None]
  /\ writer = None /\ rlocks = {}
  /\ cpc = [c \in Callers |-> "idle"]
  /\ carg = [c \in Callers |-> None]
  /\ chash = [c \in Callers |-> None]
  /\ cinfo = [c \in Callers |-> None]
  /\ fd = [c \in Callers |-> "none"]
  /\ got = [c \in Callers |-> "none"]
  /\ spc = [s \in Savers |-> "idle"]
  /\ sarg = [s \in Savers |-> None]
  /\ sdata = [s \in Savers |-> None]
  /\ sorg = [s \in Savers |-> None]
  /\ stmp = [s \in Savers |-> 0]
  /\ kpc = "idle" /\ kfile = None /\ know = 0 /\ todo = {}
  /\ saved = {}

-----------------------------------------------------------------------------
(* Cache.Tile *)

TileCall(c, t) ==
  /\ cpc[c] = "idle"
  /\ cpc' = [cpc EXCEPT ![c] = "lookup"]
  /\ carg' = [carg EXCEPT ![c] = t]
  /\ chash' = [chash EXCEPT ![c] = None]
  /\ got' = [got EXCEPT ![c] = "none"]
  /\ UNCHANGED <<timeVars, dbVars, files, lockVars, cinfo, fd, saveVars, walkVars>>

\* Mutant: an early return without RUnlock.
TileMissLocked(c) ==
  /\ cpc' = [cpc EXCEPT ![c] = "idle"]
  /\ got' = [got EXCEPT ![c] = "miss"]
  /\ cinfo' = [cinfo EXCEPT ![c] = None]
  /\ UNCHANGED <<carg, chash, rlocks>>

\* return nil, false; the deferred RUnlock is a no-op for who holds no lock
TileMiss(c) ==
  /\ cpc' = [cpc EXCEPT ![c] = "idle"]
  /\ got' = [got EXCEPT ![c] = "miss"]
  /\ cinfo' = [cinfo EXCEPT ![c] = None]
  /\ rlocks' = rlocks \ {c}
  /\ UNCHANGED <<carg, chash>>

TileLookup(c) ==
  /\ cpc[c] = "lookup"
  /\ \/ /\ Lookup(carg[c]) = None \/ IOFaults
        /\ TileMiss(c)
     \/ /\ Lookup(carg[c]) # None
        /\ chash' = [chash EXCEPT ![c] = Lookup(carg[c])]
        /\ cpc' = [cpc EXCEPT ![c] = "rlock"]
        /\ UNCHANGED <<carg, cinfo, got, rlocks>>
  /\ UNCHANGED <<timeVars, dbVars, files, writer, fd, saveVars, walkVars>>

TileRLock(c) ==
  /\ cpc[c] = "rlock"
  /\ writer = None
  /\ rlocks' = rlocks \cup {c}
  /\ cpc' = [cpc EXCEPT ![c] = "stat"]
  /\ UNCHANGED <<timeVars, dbVars, files, writer, carg, chash, cinfo, fd, got,
                 saveVars, walkVars>>

TileStat(c) ==
  LET f == files[chash[c]]
  IN /\ cpc[c] = "stat"
     /\ \/ /\ f = None \/ IOFaults
           /\ TileMiss(c)
        \/ /\ f # None
           /\ ~Rejected(f) /\ TooSmall(chash[c], f)
           /\ TileMiss(c)
        \/ /\ f # None
           /\ Rejected(f) \/ ~TooSmall(chash[c], f)
           /\ cinfo' = [cinfo EXCEPT ![c] = f]
           /\ cpc' = [cpc EXCEPT ![c] = IF Rejected(f) THEN "remove" ELSE "open"]
           /\ UNCHANGED <<carg, chash, got, rlocks>>
     /\ UNCHANGED <<timeVars, dbVars, files, writer, fd, saveVars, walkVars>>

\* Mutant: after the removal the index is asked again.
TileRemoveRetry(c) ==
  /\ cpc[c] = "remove"
  /\ files[chash[c]] # None /\ Remove(chash[c])
  /\ cpc' = [cpc EXCEPT ![c] = "lookup"]
  /\ cinfo' = [cinfo EXCEPT ![c] = None]
  /\ rlocks' = rlocks \ {c}
  /\ UNCHANGED <<timeVars, dbVars, writer, carg, chash, got, saveVars, walkVars>>

\* The caller holds flock for reading only, so another one may be here too.
TileRemove(c) ==
  /\ cpc[c] = "remove"
  /\ \/ files[chash[c]] # None /\ Remove(chash[c])
     \/ /\ files[chash[c]] = None \/ IOFaults
        /\ UNCHANGED <<files, fd>>
  /\ TileMiss(c)
  /\ UNCHANGED <<timeVars, dbVars, writer, saveVars, walkVars>>

TileOpen(c) ==
  /\ cpc[c] = "open"
  /\ \/ /\ files[chash[c]] # None
        /\ fd' = [fd EXCEPT ![c] = "linked"]
        /\ cpc' = [cpc EXCEPT ![c] = "read"]
        /\ cinfo' = [cinfo EXCEPT ![c] = None]
        /\ rlocks' = rlocks \ {c}
        /\ UNCHANGED <<carg, chash, got>>
     \/ /\ files[chash[c]] = None \/ IOFaults
        /\ TileMiss(c)
        /\ UNCHANGED fd
  /\ UNCHANGED <<timeVars, dbVars, files, writer, saveVars, walkVars>>

\* Whoever called Tile copies the reader to its client and closes it.  The
\* lock is long released.
TileRead(c) ==
  /\ cpc[c] = "read"
  /\ got' = [got EXCEPT ![c] = FdData(c)]
  /\ fd' = [fd EXCEPT ![c] = "none"]
  /\ cpc' = [cpc EXCEPT ![c] = "idle"]
  /\ UNCHANGED <<timeVars, dbVars, files, lockVars, carg, chash, cinfo,
                 saveVars, walkVars>>

-----------------------------------------------------------------------------
(* Cache.Save *)

SaveCall(s, t, d) ==
  /\ spc[s] = "idle"
  /\ spc' = [spc EXCEPT ![s] = "check"]
  /\ sarg' = [sarg EXCEPT ![s] = t]
  /\ sdata' = [sdata EXCEPT ![s] = d]
  /\ saved' = saved \cup {<<t, d>>}
  /\ UNCHANGED <<timeVars, dbVars, files, lockVars, callVars, sorg, stmp, walkVars>>

SaveForget(s) ==
  /\ spc' = [spc EXCEPT ![s] = "idle"]
  /\ sarg' = [sarg EXCEPT ![s] = None]
  /\ sdata' = [sdata EXCEPT ![s] = None]
  /\ sorg' = [sorg EXCEPT ![s] = None]
  /\ stmp' = [stmp EXCEPT ![s] = 0]
  /\ UNCHANGED saved

\* Mutant: a return without Unlock.
SaveReturnLocked(s) == SaveForget(s) /\ UNCHANGED writer

\* return, with the deferred Unlock if it was taken
SaveReturn(s) ==
  /\ SaveForget(s)
  /\ writer' = IF writer = s THEN None ELSE writer

SaveGoto(s, place) ==
  /\ spc' = [spc EXCEPT ![s] = place]
  /\ UNCHANGED <<sarg, sdata, saved>>

\* DBHas takes a failed transaction for a missing entry.
SaveCheck(s) ==
  /\ spc[s] = "check"
  /\ \E org \in {Lookup(sarg[s])} \cup (IF IOFaults THEN {None} ELSE {}) :
       /\ sorg' = [sorg EXCEPT ![s] = org]
       /\ SaveGoto(s, IF org = None THEN "temp" ELSE "statOrg")
  /\ UNCHANGED <<timeVars, dbVars, files, lockVars, callVars, stmp, walkVars>>

\* The tile has an entry: when its file is there too, nothing is saved.
SaveStatOrg(s) ==
  /\ spc[s] = "statOrg"
  /\ \/ files[sorg[s]] # None /\ SaveReturn(s)
     \/ /\ files[sorg[s]] = None \/ IOFaults
        /\ SaveGoto(s, "temp")
        /\ UNCHANGED <<sorg, stmp, writer>>
  /\ UNCHANGED <<timeVars, dbVars, files, rlocks, callVars, walkVars>>

\* The temporary file is complete and the hash known.
SaveTemp(s) ==
  /\ spc[s] = "temp"
  /\ stmp' = [stmp EXCEPT ![s] = clock]
  /\ SaveGoto(s, "statNew")
  /\ UNCHANGED <<timeVars, dbVars, files, lockVars, callVars, sorg, walkVars>>

\* Checked without the lock.  Only a missing file is moved into place: another
\* failure of os.Stat counts as a file that is there.
SaveStatNew(s) ==
  /\ spc[s] = "statNew"
  /\ \/ files[sdata[s]] = None /\ SaveGoto(s, "lock")
     \/ /\ files[sdata[s]] # None \/ IOFaults
        /\ SaveGoto(s, "index")
  /\ UNCHANGED <<timeVars, dbVars, files, lockVars, callVars, sorg, stmp, walkVars>>

\* Mutant: the move takes flock for reading only, beside the callers of Tile.
SaveLockShared(s) ==
  /\ spc[s] = "lock"
  /\ writer = None
  /\ writer' = s
  /\ SaveGoto(s, "move")
  /\ UNCHANGED <<timeVars, dbVars, files, rlocks, callVars, sorg, stmp, walkVars>>

SaveLock(s) ==
  /\ spc[s] = "lock"
  /\ writer = None /\ rlocks = {}
  /\ writer' = s
  /\ SaveGoto(s, "move")
  /\ UNCHANGED <<timeVars, dbVars, files, rlocks, callVars, sorg, stmp, walkVars>>

\* os.Rename puts the temporary file, with its mtime, in the place of a file
\* that may have come to be there in the meantime.
SaveRename(s) ==
  /\ spc[s] = "move"
  /\ SameDevice
  /\ files' = [files EXCEPT ![sdata[s]] = [data |-> "whole", mtime |-> stmp[s]]]
  /\ Unlink(sdata[s])
  /\ SaveGoto(s, "index")
  /\ UNCHANGED <<timeVars, dbVars, lockVars, cpc, carg, chash, cinfo, got,
                 sorg, stmp, walkVars>>

\* Mutant: the data is written in place, not renamed into it.
SaveCreateAlways(s) ==
  /\ spc[s] = "move"
  /\ files' = [files EXCEPT ![sdata[s]] = [data |-> "short", mtime |-> clock]]
  /\ SaveGoto(s, "copy")
  /\ UNCHANGED <<timeVars, dbVars, lockVars, callVars, sorg, stmp, walkVars>>

\* os.Rename fails, across devices always; os.Create empties a file that may have come to be there.
SaveCreate(s) ==
  /\ spc[s] = "move"
  /\ ~SameDevice \/ IOFaults
  /\ files' = [files EXCEPT ![sdata[s]] = [data |-> "short", mtime |-> clock]]
  /\ SaveGoto(s, "copy")
  /\ UNCHANGED <<timeVars, dbVars, lockVars, callVars, sorg, stmp, walkVars>>

\* Mutant: the error of io.Copy is dropped.
SaveCopyQuiet(s) ==
  LET h == sdata[s]
  IN /\ spc[s] = "copy"
     /\ \E more \in {"part", "whole"} :
          files' = [files EXCEPT ![h] = [data |-> more, mtime |-> clock]]
     /\ SaveGoto(s, "index")
     /\ UNCHANGED <<timeVars, dbVars, lockVars, callVars, sorg, stmp, walkVars>>

SaveCopy(s) ==
  LET h == sdata[s]
      more == IF files[h].data = "short" /\ h \notin Small THEN "part" ELSE "whole"
  IN /\ spc[s] = "copy"
     /\ files' = [files EXCEPT ![h] = [data |-> more, mtime |-> clock]]
     /\ SaveGoto(s, IF more = "whole" THEN "index" ELSE "copy")
     /\ UNCHANGED <<timeVars, dbVars, lockVars, callVars, sorg, stmp, walkVars>>

\* The entry is written too when DBHas fails to find it.
SaveIndex(s) ==
  /\ spc[s] = "index"
  /\ \/ /\ Lookup(sarg[s]) = None \/ sdata[s] # sorg[s] \/ IOFaults
        /\ DBSet(sarg[s], sdata[s])
     \/ /\ Lookup(sarg[s]) # None /\ sdata[s] = sorg[s]
        /\ UNCHANGED db
  /\ SaveReturn(s)
  /\ UNCHANGED <<timeVars, dbUp, files, rlocks, callVars, walkVars>>

\* Any of the calls that can fail makes Save return the error; what a failed
\* copy has written stays.
SaveFail(s) ==
  /\ IOFaults
  /\ spc[s] \in {"check", "temp", "lock", "move", "copy", "index"}
  /\ SaveReturn(s)
  /\ UNCHANGED <<timeVars, dbVars, files, rlocks, callVars, walkVars>>

-----------------------------------------------------------------------------
(* CleanupOldFiles: filepath.Walk over the tiles directory.  The first six *)
(* digits of its hash give each file a directory of its own.               *)

\* Mutant: the time limit is taken from now here already, and again in the walk.
WalkStartEarly ==
  /\ kpc = "idle"
  /\ kpc' = "walk" /\ know' = clock - MaxAge /\ todo' = Images
  /\ UNCHANGED <<timeVars, dbVars, files, lockVars, callVars, saveVars, kfile>>

WalkStart ==
  /\ kpc = "idle"
  /\ kpc' = "walk" /\ know' = clock /\ todo' = Images
  /\ UNCHANGED <<timeVars, dbVars, files, lockVars, callVars, saveVars, kfile>>

WalkReturn ==
  /\ kpc' = "idle" /\ kfile' = None /\ know' = 0 /\ todo' = {}

\* The names in the directory of h are read.  The walk function returns every
\* error it is given, which ends the walk.
WalkDir(h) ==
  /\ kpc = "walk"
  /\ \/ IOFaults /\ WalkReturn
     \/ /\ todo' = todo \ {h}
        /\ \/ files[h] = None /\ UNCHANGED <<kpc, kfile>>
           \/ files[h] # None /\ kpc' = "lstat" /\ kfile' = h
        /\ UNCHANGED know
  /\ UNCHANGED <<timeVars, dbVars, files, lockVars, callVars, saveVars>>

\* os.Lstat fails for a file that is gone since, and that ends the walk too.
WalkStat ==
  /\ kpc = "lstat"
  /\ \/ /\ files[kfile] = None \/ IOFaults
        /\ WalkReturn
     \/ /\ files[kfile] # None
        /\ kpc' = IF know - files[kfile].mtime > MaxAge THEN "lock" ELSE "walk"
        /\ UNCHANGED <<kfile, know, todo>>
  /\ UNCHANGED <<timeVars, dbVars, files, lockVars, callVars, saveVars>>

WalkLock ==
  /\ kpc = "lock"
  /\ writer = None /\ rlocks = {}
  /\ writer' = Cleaner
  /\ kpc' = "delete"
  /\ UNCHANGED <<timeVars, dbVars, files, rlocks, callVars, saveVars, kfile, know, todo>>

\* deleteFile, which logs a failure and goes on
WalkDelete ==
  /\ kpc = "delete"
  /\ \/ files[kfile] # None /\ Remove(kfile)
     \/ /\ files[kfile] = None \/ IOFaults
        /\ UNCHANGED <<files, fd>>
  /\ writer' = None
  /\ kpc' = "walk"
  /\ UNCHANGED <<timeVars, dbVars, rlocks, cpc, carg, chash, cinfo, got,
                 saveVars, kfile, know, todo>>

WalkEnd ==
  /\ kpc = "walk" /\ todo = {}
  /\ WalkReturn
  /\ UNCHANGED <<timeVars, dbVars, files, lockVars, callVars, saveVars>>

-----------------------------------------------------------------------------
(* The world around the cache *)

Tick ==
  /\ clock < MaxClock
  /\ clock' = clock + 1
  /\ UNCHANGED <<crashes, dbVars, files, lockVars, callVars, saveVars, walkVars>>

\* The process dies, or main returns with saves under way, and is started
\* again: files and committed transactions stay, all else is lost.
Restart ==
  /\ crashes < MaxCrashes
  /\ crashes' = crashes + 1
  /\ dbUp' \in (IF IOFaults THEN BOOLEAN ELSE {TRUE})
  /\ writer' = None /\ rlocks' = {}
  /\ cpc' = [c \in Callers |-> "idle"]
  /\ carg' = [c \in Callers |-> None]
  /\ chash' = [c \in Callers |-> None]
  /\ cinfo' = [c \in Callers |-> None]
  /\ fd' = [c \in Callers |-> "none"]
  /\ got' = [c \in Callers |-> "none"]
  /\ spc' = [s \in Savers |-> "idle"]
  /\ sarg' = [s \in Savers |-> None]
  /\ sdata' = [s \in Savers |-> None]
  /\ sorg' = [s \in Savers |-> None]
  /\ stmp' = [s \in Savers |-> 0]
  /\ WalkReturn
  /\ UNCHANGED <<clock, db, files, saved>>

-----------------------------------------------------------------------------
TileStep(c) ==
  TileLookup(c) \/ TileRLock(c) \/ TileStat(c) \/ TileRemove(c) \/ TileOpen(c)
  \/ TileRead(c)

SaveWork(s) ==
  SaveCheck(s) \/ SaveStatOrg(s) \/ SaveTemp(s) \/ SaveStatNew(s) \/ SaveLock(s)
  \/ SaveRename(s) \/ SaveCreate(s) \/ SaveCopy(s) \/ SaveIndex(s)

WalkStep ==
  \/ \E h \in todo : WalkDir(h)
  \/ WalkStat \/ WalkLock \/ WalkDelete \/ WalkEnd

Next ==
  \/ \E c \in Callers, t \in Tiles : TileCall(c, t)
  \/ \E c \in Callers : TileStep(c)
  \/ \E s \in Savers, t \in Tiles, d \in Images : SaveCall(s, t, d)
  \/ \E s \in Savers : SaveWork(s) \/ SaveFail(s)
  \/ WalkStart \/ WalkStep
  \/ Tick \/ Restart

Spec == Init /\ [][Next]_vars

\* Goroutines are scheduled, and sync.RWMutex starves neither side: a waiting
\* Lock holds back later readers, and Unlock lets in the readers that wait.
\* Nothing has to fail: a save that waits is not helped by an error.
Fairness ==
  /\ \A c \in Callers : WF_vars(TileStep(c)) /\ SF_vars(TileRLock(c))
  /\ \A s \in Savers : WF_vars(SaveWork(s)) /\ SF_vars(SaveLock(s))
  /\ WF_vars(WalkStep) /\ SF_vars(WalkLock)

FairSpec == Spec /\ Fairness

-----------------------------------------------------------------------------
(* Properties *)

\* Every variable stays in its range.
TypeOK ==
  /\ clock \in Nat /\ crashes \in Nat
  /\ dbUp \in BOOLEAN
  /\ db \in [Keys -> Images \cup {None}]
  /\ files \in [Images -> File \cup {None}]
  /\ writer \in Savers \cup {Cleaner, None}
  /\ rlocks \subseteq Callers
  /\ cpc \in [Callers -> {"idle", "lookup", "rlock", "stat", "remove", "open", "read"}]
  /\ carg \in [Callers -> Tiles \cup {None}]
  /\ chash \in [Callers -> Images \cup {None}]
  /\ cinfo \in [Callers -> File \cup {None}]
  /\ fd \in [Callers -> Amount \cup {"none", "linked"}]
  /\ got \in [Callers -> Amount \cup {"none", "miss"}]
  /\ spc \in [Savers -> {"idle", "check", "statOrg", "temp", "statNew", "lock",
                         "move", "copy", "index"}]
  /\ sarg \in [Savers -> Tiles \cup {None}]
  /\ sdata \in [Savers -> Images \cup {None}]
  /\ sorg \in [Savers -> Images \cup {None}]
  /\ stmp \in [Savers -> Nat]
  /\ kpc \in {"idle", "walk", "lstat", "lock", "delete"}
  /\ kfile \in Images \cup {None}
  /\ know \in Nat
  /\ todo \subseteq Images
  /\ saved \subseteq Tiles \X Images

\* An image a client gets from the cache was saved for the tile it asked for,
\* whatever saves, cleanups and restarts came in between.
HitIsSaved ==
  \A c \in Callers : got[c] \in Amount => <<carg[c], chash[c]>> \in saved

\* A client gets images whole: a file is never changed or cut under a reader
\* that flock no longer protects.
HitIsWhole ==
  \A c \in Callers : got[c] \in Amount => got[c] = "whole"

\* While a caller of Tile decides by what os.Stat told it, whether to remove
\* or to open, the name denotes that same file or, removed by another caller,
\* none.
StatHolds ==
  \A c \in Callers :
    cpc[c] \in {"remove", "open"} => files[chash[c]] \in {cinfo[c], None}

\* A caller of Tile removes a file only when it is over maxage, although it
\* holds flock only for reading.
TileRemovesOnlyExpired ==
  [][\A c \in Callers :
       cpc[c] = "remove" /\ cpc'[c] = "idle" /\ crashes' = crashes =>
         \A h \in Images : files[h] # None /\ files'[h] = None => Rejected(files[h])
    ]_vars

Copies(s, h) == spc[s] = "copy" /\ sdata[s] = h

\* The file of h holds less than its name is the hash of, and nobody is about to
\* complete it.
Cut(h) ==
  files[h] # None /\ files[h].data # "whole" /\ ~ \E s \in Savers : Copies(s, h)

\* A part of an image is left under the name of the whole only when the process
\* dies while a save copies it into place, or when that copy fails and its Save
\* returns the error: whatever else saves, the cleanup and callers of Tile do to
\* the files, and whether os.Rename works or not.
CutOnlyByFailure ==
  [][\A h \in Images : Cut(h)' /\ ~Cut(h) =>
       \E s \in Savers : Copies(s, h) /\ spc'[s] = "idle"
    ]_vars

\* At rest every file holds the content its name is the hash of, also after a
\* death of the process and after a failed save.
FileMatchesName == \A h \in Images : ~Cut(h)

\* The cleanup deletes only files that were over maxage when it started.
CleanupDeletesOnlyOld ==
  [][\A h \in Images :
       kpc = "delete" /\ kpc' = "walk" /\ files[h] # None /\ files'[h] = None
         => know - files[h].mtime > MaxAge
    ]_vars

\* A walk that returns leaves behind no file over maxage it has not looked at.
CleanupMissesNone ==
  [][kpc # "idle" /\ kpc' = "idle" /\ crashes' = crashes
       => \A h \in todo : files[h] = None \/ know - files[h].mtime <= MaxAge
    ]_vars

\* What the cleanup deletes for its age, Tile does not distribute any more.  With a
\* maxage of 0 it does.
DistributesNoneOverAge ==
  [][\A c \in Callers :
       cpc[c] = "stat" /\ cpc'[c] = "open" => clock - files[chash[c]].mtime <= MaxAge
    ]_vars

\* The lock: a writer is alone; callers hold it exactly where they stat, remove
\* and open; who moves a file into place or deletes one for its age is the
\* writer.
LockInv ==
  /\ rlocks = {c \in Callers : cpc[c] \in {"stat", "remove", "open"}}
  /\ writer # None => rlocks = {}
  /\ \A s \in Savers : /\ spc[s] \in {"move", "copy"} => writer = s
                       /\ writer = s => spc[s] \in {"move", "copy", "index"}
  /\ writer = Cleaner <=> kpc = "delete"

\* What each place of the code knows of the values it works with.
PlaceInv ==
  /\ \A c \in Callers :
       /\ cpc[c] # "idle" => carg[c] \in Tiles /\ got[c] = "none"
       /\ cpc[c] \in {"rlock", "stat", "remove", "open", "read"} => chash[c] \in Images
       /\ cpc[c] \in {"remove", "open"} => cinfo[c] \in File
       /\ cpc[c] = "remove" => Rejected(cinfo[c])
       /\ cpc[c] = "read" <=> fd[c] # "none"
       /\ fd[c] = "linked" => files[chash[c]] # None
       /\ got[c] \in Amount => carg[c] \in Tiles /\ chash[c] \in Images
  /\ \A s \in Savers :
       /\ spc[s] # "idle" => sarg[s] \in Tiles /\ sdata[s] \in Images
       /\ spc[s] = "statOrg" => sorg[s] \in Images
       /\ spc[s] = "copy" => files[sdata[s]] # None
  /\ kpc \in {"lstat", "lock", "delete"} => kfile \in Images

\* Every image on its way to a client was saved for the tile it is for.
SavedInv ==
  /\ \A t \in Tiles : db[DBKey(t)] # None => <<t, db[DBKey(t)]>> \in saved
  /\ \A c \in Callers :
       cpc[c] \in {"rlock", "stat", "remove", "open", "read"}
         => <<carg[c], chash[c]>> \in saved
  /\ \A s \in Savers : spc[s] # "idle" => <<sarg[s], sdata[s]>> \in saved
  /\ HitIsSaved

\* Where rename works, no file is ever seen that is not whole.
WholeInv ==
  /\ \A h \in Images : files[h] # None => files[h].data = "whole"
  /\ \A c \in Callers : fd[c] \in {"none", "linked", "whole"}
  /\ \A s \in Savers : spc[s] # "copy"
  /\ HitIsWhole

\* The cache as its users see it: a question, and the answer to it.
Answer ==
  [c \in Callers |-> IF got[c] = "none" THEN None
                     ELSE IF got[c] = "whole" THEN chash[c] ELSE got[c]]

Contract == INSTANCE CacheContract WITH asked <- carg, answer <- Answer, Miss <- "miss"

\* The cache keeps the contract: a miss or the whole of an image saved for the
\* tile asked for.
KeepsContract == Contract!Spec

\* The calls that are not waiting for flock, or may have it.
CanTile(c) == cpc[c] # "idle" /\ (cpc[c] = "rlock" => writer = None)
CanSave(s) == spc[s] # "idle" /\ (spc[s] = "lock" => writer = None /\ rlocks = {})
CanWalk == kpc # "idle" /\ (kpc = "lock" => writer = None /\ rlocks = {})

\* As long as a call of Tile or Save or the cleanup is under way, one of them can
\* go on: who has flock does not wait for it, and who returns, whatever has failed,
\* has given it back.
NeverStuck ==
  \/ \A c \in Callers : cpc[c] = "idle"
     /\ \A s \in Savers : spc[s] = "idle"
     /\ kpc = "idle"
  \/ (\E c \in Callers : CanTile(c)) \/ (\E s \in Savers : CanSave(s)) \/ CanWalk

\* The steps a call of Tile, a call of Save and the cleanup for the file at hand
\* have before them, at most.
TileLeft(c) ==
  [lookup |-> 5, rlock |-> 4, stat |-> 3, open |-> 2, remove |-> 1, read |-> 1,
   idle |-> 0][cpc[c]]
CopyLeft(s) == IF files[sdata[s]].data = "short" /\ sdata[s] \notin Small THEN 2 ELSE 1
SaveLeft(s) ==
  [check |-> 9, statOrg |-> 8, temp |-> 7, statNew |-> 6, lock |-> 5, move |-> 4,
   copy |-> 1, index |-> 1, idle |-> 0][spc[s]]
  + IF spc[s] = "copy" THEN CopyLeft(s) ELSE 0
FileLeft == [lstat |-> 3, lock |-> 2, delete |-> 1, walk |-> 0, idle |-> 0][kpc]

\* No call of Tile or Save under way goes back, nor does the cleanup, which visits
\* no directory twice; and nothing the others do to the files, in particular to the
\* one that is being copied, gives a call more to do.
CallsGetOn ==
  [][/\ \A c \in Callers : cpc[c] # "idle" /\ cpc'[c] # cpc[c] => TileLeft(c)' < TileLeft(c)
     /\ \A s \in Savers : spc[s] # "idle" =>
          /\ SaveLeft(s)' <= SaveLeft(s)
          /\ spc'[s] # spc[s] \/ (spc[s] = "copy" /\ files' # files)
               => SaveLeft(s)' < SaveLeft(s)
     /\ kpc # "idle" /\ kpc' # "idle" =>
          /\ todo' \subseteq todo
          /\ kpc' # kpc => todo' # todo \/ FileLeft' < FileLeft
    ]_vars

\* Every call returns, whoever holds or wants flock: no reader or writer is
\* left waiting for ever, on any error path.
TileReturns == \A c \in Callers : cpc[c] # "idle" ~> cpc[c] = "idle"
SaveReturns == \A s \in Savers : spc[s] # "idle" ~> spc[s] = "idle"
WalkReturns == kpc # "idle" ~> kpc = "idle"
CallsReturn == TileReturns /\ SaveReturns /\ WalkReturns
=============================================================================
