--------------------------- MODULE AddrCacheProofs ---------------------------
(***************************************************************************)
(* Proofs about AddrCache for every set of workers, paths and mappings and *)
(* for files of any sizes: the safety invariants its run checks, and that  *)
(* it implements FileSharing.                                              *)
(*                                                                         *)
(* Sharing needs what the descriptor cache needs (FdCacheProofs).  Reading *)
(* needs three things more: that whoever reads from a raw pointer refers   *)
(* to the mapping as well, that cur_filesize_ is the size of the file      *)
(* whose mapping the callback has, unless an error has shut the            *)
(* connection, and that cache_filesize_ stays below it, if it was zero     *)
(* before.                                                                 *)
(***************************************************************************)
EXTENDS AddrCache, TLAPS

Critical == {"find", "open", "mmap", "unlock", "erase", "munmap"}
Deleting == {"del", "erase", "munmap"}
Getting == {"get", "find", "open", "mmap", "unlock"}

\* The mutex is held by the worker in a critical section, so by at most one.
MutexHeld == \A w \in Workers : pc[w] \in Critical <=> mutex_addr_ = w

\* What a worker's place in the code says of its variables.
Places ==
  \A w \in Workers :
    /\ pc[w] \in Getting <=> want[w] \in Paths
    /\ pc[w] \in {"idle", "get", "find", "open", "mmap"} => local[w] = NoMapping
    /\ pc[w] \in Deleting /\ then[w] = "idle" => local[w] = NoMapping
    /\ pc[w] \in Deleting <=> doomed[w] \in Mappings
    /\ pc[w] = "serve" => local[w] # NoMapping
    /\ fd[w] = IF pc[w] = "mmap" THEN 1 ELSE 0

\* A raw pointer is used while the reference beside it is kept: the handler's own, or
\* that of the callback.
BesideReference ==
  \A w \in Workers : buf[w] # NoMapping =>
    /\ buf[w] = local[w] \/ (pc[w] = "send" /\ buf[w] = captured[w])
    /\ pc[w] \in {"serve", "last", "send"} \/ (pc[w] \in Deleting /\ then[w] = "send")

\* A thread about to open() a path does so because its entry has expired.
StillExpired ==
  \A w \in Workers : pc[w] \in {"open", "mmap"} => Expired(addr_map_[want[w]])

\* A doomed mapping is mapped, out of use, and has one deleter.
DoomedAlone ==
  \A w \in Workers : doomed[w] \in Mappings =>
    /\ doomed[w] \in mapped \ InUse
    /\ \A v \in Workers \ {w} : doomed[v] # doomed[w]

\* A mapping about to be unmapped is no longer in the map.
Unnamed == \A w \in Workers : pc[w] = "munmap" =>
              \A p \in Paths : addr_map_[p] # doomed[w]

\* The kernel has whole mappings, each of one file.
WholeMappings == \A m \in Mappings : /\ extent[m] = len[m]
                                     /\ m \in mapped <=> file[m] \in Paths

InUseIsMapped == InUse \subseteq mapped

\* A mapping in use is the one new sessions find.
LiveIsCached == \A m \in InUse : addr_map_[file[m]] = m

\* The map names no mapping that is gone, and none of another file.
MapNamesMapped == \A p \in Paths : addr_map_[p] \in Mappings =>
                     addr_map_[p] \in mapped /\ file[addr_map_[p]] = p

MappedHasOwner == \A m \in mapped \ InUse : \E w \in Workers : doomed[w] = m

\* Every version of a file has a size.
VersionsExist == \A p \in Paths : version[p] \in 1..Len(SizesOf[p])

Sharers == /\ TypeOK /\ MutexHeld /\ Places /\ BesideReference
           /\ StillExpired /\ DoomedAlone /\ Unnamed /\ WholeMappings
           /\ InUseIsMapped /\ LiveIsCached /\ MapNamesMapped /\ MappedHasOwner /\ VersionsExist

\* A file that has never been changed is mapped with its size, and with its size in
\* cur_filesize_ is it asked for, read at once, and sent by the callback.
Unchanged(p) == version[p] = 1

MappedSizes == \A m \in mapped : Unchanged(file[m]) => extent[m] = SizesOf[file[m]][1]

KnownSizes ==
  \A w \in Workers :
    /\ pc[w] \in Getting /\ Unchanged(want[w]) => size[w] = SizesOf[want[w]][1]
    /\ pc[w] = "unlock" /\ local[w] # NoMapping => file[local[w]] = want[w]
    /\ buf[w] # NoMapping /\ Unchanged(file[buf[w]]) => size[w] = SizesOf[file[buf[w]]][1]
    /\ pc[w] = "serve" => buf[w] = local[w]
    /\ /\ captured[w] # NoMapping /\ w \notin shut
       /\ pc[w] \notin Getting \cup {"serve"} /\ Unchanged(file[captured[w]])
       => size[w] = SizesOf[file[captured[w]]][1]

\* cur_filesize_ is the size of some file.  The first part is within it, and once
\* cache_filesize_ has started from zero it stays below, as long as there is more to
\* send and no error has shut the connection; so no part goes beyond.
Offsets ==
  \A w \in Workers :
    /\ size[w] < WordSize
    /\ buf[w] # NoMapping /\ (fresh[w] \/ pc[w] = "serve") => upto[w] <= size[w]
    /\ /\ captured[w] # NoMapping /\ fresh[w] /\ w \notin shut
       /\ pc[w] \notin Getting \cup {"serve"}
       => cache_filesize_[w] < size[w]

Inductive == Sharers /\ MappedSizes /\ KnownSizes /\ Offsets

-----------------------------------------------------------------------------
(* Sharing is inductive: one lemma per action                              *)

\* Nothing is cached or mapped when the server starts.
LEMMA InitSharers == Init => Sharers
  BY DistinctConstants, SizesAssumption DEF Init, Sharers, TypeOK, MutexHeld,
     Places, Critical, Deleting, Getting, InUse, LiveIsCached, MapNamesMapped,
     BesideReference, StillExpired, Expired, DoomedAlone, Unnamed,
     InUseIsMapped, mapped, WholeMappings, MappedHasOwner, VersionsExist

\* Lengths are natural numbers.
LEMMA LengthsAreNat ==
  ASSUME NEW w \in Workers, TypeOK
  PROVE  FirstPart(w) \in Nat /\ Left(w) \in Nat
<1>1. FirstPart(w) \in Nat
  BY SizesAssumption DEF TypeOK, FirstPart
<1>2. size[w] - cache_filesize_[w] \in Int
  BY DEF TypeOK
<1>3. Left(w) \in Nat
  BY <1>2, SizesAssumption DEF Left
<1> QED BY <1>1, <1>3

\* A call of GetAddr() moves the caller to the mutex and changes nothing shared.
LEMMA CallGetAddrSharers ==
  ASSUME NEW w \in Workers, NEW p \in Paths, Sharers, CallGetAddr(w, p)
  PROVE  Sharers'
<1>1. TypeOK' /\ MutexHeld'
  <2>1. SizesOf[p] \in Seq(Nat) /\ version[p] \in 1..Len(SizesOf[p])
    BY SizesAssumption DEF Sharers, VersionsExist
  <2>2. SizesOf[p][version[p]] \in Nat
    BY <2>1
  <2> QED
    BY <2>2 DEF Sharers, TypeOK, MutexHeld, Critical, CallGetAddr, mapVars,
       offset, reading, Goto
<1>2. Places'
  BY DistinctConstants DEF Sharers, TypeOK, MutexHeld, Places, Critical,
     Deleting, Getting, InUse, LiveIsCached, MapNamesMapped, CallGetAddr,
     mapVars, offset, reading, Goto
<1>3. BesideReference'
  BY DistinctConstants DEF Sharers, TypeOK, Places, BesideReference, Deleting,
     Getting, InUse, CallGetAddr, mapVars, offset, reading, Goto
<1>4. StillExpired'
  BY DistinctConstants DEF Sharers, TypeOK, MutexHeld, Places, StillExpired,
     Critical, Getting, Deleting, Expired, InUse, CallGetAddr, mapVars, offset,
     reading, Goto
<1>5. DoomedAlone' /\ Unnamed'
  BY DistinctConstants DEF Sharers, TypeOK, Places, DoomedAlone, Unnamed,
     InUseIsMapped, MapNamesMapped, LiveIsCached, Deleting, InUse, mapped,
     CallGetAddr, mapVars, offset, reading, Goto
<1>6. WholeMappings' /\ InUseIsMapped'
  BY DistinctConstants DEF Sharers, TypeOK, Places, DoomedAlone,
     WholeMappings, InUseIsMapped, Getting, Deleting, InUse, mapped,
     CallGetAddr, mapVars, offset, reading, Goto
<1>7. LiveIsCached' /\ MapNamesMapped'
  BY DistinctConstants DEF Sharers, TypeOK, Places, StillExpired, DoomedAlone,
     Unnamed, WholeMappings, InUseIsMapped, LiveIsCached, MapNamesMapped,
     Getting, Deleting, Expired, InUse, mapped, CallGetAddr, mapVars, offset,
     reading, Goto
<1>8. MappedHasOwner'
  BY DistinctConstants DEF Sharers, TypeOK, Places, DoomedAlone,
     MappedHasOwner, Deleting, Getting, InUse, mapped, CallGetAddr, mapVars,
     offset, reading, Goto
<1>9. VersionsExist'
  BY DistinctConstants DEF Sharers, TypeOK, VersionsExist, CallGetAddr,
     mapVars, offset, reading, Goto
<1> QED BY <1>1, <1>2, <1>3, <1>4, <1>5, <1>6, <1>7, <1>8, <1>9 DEF Sharers

\* Taking the mutex keeps the invariant: it was free, so nobody else is inside.
LEMMA LockGetAddrSharers ==
  ASSUME NEW w \in Workers, Sharers, LockGetAddr(w)
  PROVE  Sharers'
<1>1. TypeOK' /\ MutexHeld'
  <2>1. TypeOK'
    BY DistinctConstants DEF Sharers, TypeOK, Places, Deleting, Getting,
       LockGetAddr, mapVars, offset, reading, Goto
  <2>2. MutexHeld'
    BY DistinctConstants DEF Sharers, TypeOK, MutexHeld, Places, Critical,
       Deleting, Getting, LockGetAddr, mapVars, offset, reading, Goto
  <2> QED BY <2>1, <2>2
<1>2. Places'
  BY DistinctConstants DEF Sharers, TypeOK, MutexHeld, Places, Critical,
     Deleting, Getting, InUse, LiveIsCached, MapNamesMapped, LockGetAddr,
     mapVars, offset, reading, Goto
<1>3. BesideReference'
  BY DistinctConstants DEF Sharers, TypeOK, Places, BesideReference, Deleting,
     Getting, InUse, LockGetAddr, mapVars, offset, reading, Goto
<1>4. StillExpired'
  BY DistinctConstants DEF Sharers, TypeOK, MutexHeld, Places, StillExpired,
     Critical, Getting, Deleting, Expired, InUse, LockGetAddr, mapVars, offset,
     reading, Goto
<1>5. DoomedAlone' /\ Unnamed'
  BY DistinctConstants DEF Sharers, TypeOK, Places, DoomedAlone, Unnamed,
     InUseIsMapped, MapNamesMapped, LiveIsCached, Deleting, InUse, mapped,
     LockGetAddr, mapVars, offset, reading, Goto
<1>6. WholeMappings' /\ InUseIsMapped'
  BY DistinctConstants DEF Sharers, TypeOK, Places, DoomedAlone,
     WholeMappings, InUseIsMapped, Getting, Deleting, InUse, mapped,
     LockGetAddr, mapVars, offset, reading, Goto
<1>7. LiveIsCached' /\ MapNamesMapped'
  BY DistinctConstants DEF Sharers, TypeOK, Places, StillExpired, DoomedAlone,
     Unnamed, WholeMappings, InUseIsMapped, LiveIsCached, MapNamesMapped,
     Getting, Deleting, Expired, InUse, mapped, LockGetAddr, mapVars, offset,
     reading, Goto
<1>8. MappedHasOwner'
  BY DistinctConstants DEF Sharers, TypeOK, Places, DoomedAlone,
     MappedHasOwner, Deleting, Getting, InUse, mapped, LockGetAddr, mapVars,
     offset, reading, Goto
<1>9. VersionsExist'
  BY DistinctConstants DEF Sharers, TypeOK, VersionsExist, LockGetAddr,
     mapVars, offset, reading, Goto
<1> QED BY <1>1, <1>2, <1>3, <1>4, <1>5, <1>6, <1>7, <1>8, <1>9 DEF Sharers

\* Taking a reference from the map keeps the invariant: only a mapping that is in
\* use already gets another user, so no doomed mapping comes back.
LEMMA FindSharers ==
  ASSUME NEW w \in Workers, Sharers, Find(w)
  PROVE  Sharers'
<1>1. TypeOK' /\ MutexHeld'
  <2>1. TypeOK'
    BY DistinctConstants DEF Sharers, TypeOK, Places, Deleting, Getting, Find,
       mapVars, offset, reading, Goto, Lock, Expired
  <2>2. MutexHeld'
    BY DistinctConstants DEF Sharers, TypeOK, MutexHeld, Places, Critical,
       Deleting, Getting, Find, mapVars, offset, reading, Goto, Lock, Expired
  <2> QED BY <2>1, <2>2
<1>2. Places'
  BY DistinctConstants DEF Sharers, TypeOK, MutexHeld, Places, Critical,
     Deleting, Getting, InUse, LiveIsCached, MapNamesMapped, Find, mapVars,
     offset, reading, Goto, Lock, Expired
<1>3. BesideReference'
  BY DistinctConstants DEF Sharers, TypeOK, Places, BesideReference, Deleting,
     Getting, InUse, Find, mapVars, offset, reading, Goto, Lock, Expired
<1>4. StillExpired'
  BY DistinctConstants DEF Sharers, TypeOK, MutexHeld, Places, StillExpired,
     Critical, Getting, Deleting, Expired, InUse, Find, mapVars, offset, reading,
     Goto, Lock
<1>5. DoomedAlone' /\ Unnamed'
  BY DistinctConstants DEF Sharers, TypeOK, Places, DoomedAlone, Unnamed,
     InUseIsMapped, MapNamesMapped, LiveIsCached, Deleting, InUse, mapped,
     Find, mapVars, offset, reading, Goto, Lock, Expired
<1>6. WholeMappings' /\ InUseIsMapped'
  BY DistinctConstants DEF Sharers, TypeOK, Places, DoomedAlone,
     WholeMappings, InUseIsMapped, Getting, Deleting, InUse, mapped, Find,
     mapVars, offset, reading, Goto, Lock, Expired
<1>7. LiveIsCached' /\ MapNamesMapped'
  BY DistinctConstants DEF Sharers, TypeOK, Places, StillExpired, DoomedAlone,
     Unnamed, WholeMappings, InUseIsMapped, LiveIsCached, MapNamesMapped,
     Getting, Deleting, Expired, InUse, mapped, Find, mapVars, offset, reading,
     Goto, Lock
<1>8. MappedHasOwner'
  BY DistinctConstants DEF Sharers, TypeOK, Places, DoomedAlone,
     MappedHasOwner, Deleting, Getting, InUse, mapped, Find, mapVars, offset,
     reading, Goto,
     Lock, Expired
<1>9. VersionsExist'
  BY DistinctConstants DEF Sharers, TypeOK, VersionsExist, Find, mapVars, offset,
     reading, Goto, Lock, Expired
<1> QED BY <1>1, <1>2, <1>3, <1>4, <1>5, <1>6, <1>7, <1>8, <1>9 DEF Sharers

\* Opening the file changes the caller's place and its descriptor only.
LEMMA OpenFileSharers ==
  ASSUME NEW w \in Workers, Sharers, OpenFile(w)
  PROVE  Sharers'
<1>1. TypeOK' /\ MutexHeld'
  <2>1. fd' \in [Workers -> Int]
    BY DEF Sharers, TypeOK, OpenFile
  <2>2. TypeOK'
    BY <2>1 DEF Sharers, TypeOK, OpenFile, mapVars, offset, reading, Goto
  <2>3. MutexHeld'
    BY DistinctConstants, ZenonT(60) DEF Sharers, TypeOK, MutexHeld, Critical, OpenFile,
       Goto
  <2> QED BY <2>2, <2>3
<1>2. Places'
  BY DistinctConstants DEF Sharers, TypeOK, MutexHeld, Places, Critical,
     Deleting, Getting, InUse, LiveIsCached, MapNamesMapped, OpenFile,
     mapVars, offset, reading, Goto
<1>3. BesideReference'
  BY DistinctConstants DEF Sharers, TypeOK, Places, BesideReference, Deleting,
     Getting, InUse, OpenFile, mapVars, offset, reading, Goto
<1>4. StillExpired'
  BY DistinctConstants DEF Sharers, TypeOK, MutexHeld, Places, StillExpired,
     Critical, Getting, Deleting, Expired, InUse, OpenFile, mapVars, offset,
     reading, Goto
<1>5. DoomedAlone' /\ Unnamed'
  BY DistinctConstants DEF Sharers, TypeOK, Places, DoomedAlone, Unnamed,
     InUseIsMapped, MapNamesMapped, LiveIsCached, Deleting, InUse, mapped,
     OpenFile, mapVars, offset, reading, Goto
<1>6. WholeMappings' /\ InUseIsMapped'
  BY DistinctConstants DEF Sharers, TypeOK, Places, DoomedAlone,
     WholeMappings, InUseIsMapped, Getting, Deleting, InUse, mapped, OpenFile,
     mapVars, offset, reading, Goto
<1>7. LiveIsCached' /\ MapNamesMapped'
  BY DistinctConstants DEF Sharers, TypeOK, Places, StillExpired, DoomedAlone,
     Unnamed, WholeMappings, InUseIsMapped, LiveIsCached, MapNamesMapped,
     Getting, Deleting, Expired, InUse, mapped, OpenFile, mapVars, offset,
     reading, Goto
<1>8. MappedHasOwner'
  BY DistinctConstants DEF Sharers, TypeOK, Places, DoomedAlone,
     MappedHasOwner, Deleting, Getting, InUse, mapped, OpenFile, mapVars, offset,
     reading, Goto
<1>9. VersionsExist'
  BY DistinctConstants DEF Sharers, TypeOK, VersionsExist, OpenFile, mapVars,
     offset, reading, Goto
<1> QED BY <1>1, <1>2, <1>3, <1>4, <1>5, <1>6, <1>7, <1>8, <1>9 DEF Sharers

\* Publishing a new mapping keeps the invariant: the entry it replaces has
\* expired, and nothing refers to the new mapping yet.
LEMMA MmapSharers ==
  ASSUME NEW w \in Workers, Sharers, Mmap(w)
  PROVE  Sharers'
<1>1. TypeOK' /\ MutexHeld'
  <2>1. TypeOK'
    BY DistinctConstants DEF Sharers, TypeOK, Places, Deleting, Getting, Mmap,
       mapVars, offset, reading, Goto, Fresh
  <2>2. MutexHeld'
    BY DistinctConstants DEF Sharers, TypeOK, MutexHeld, Places, Critical,
       Deleting, Getting, Mmap, mapVars, offset, reading, Goto, Fresh
  <2> QED BY <2>1, <2>2
<1>2. Places'
  BY DistinctConstants DEF Sharers, TypeOK, MutexHeld, Places, Critical,
     Deleting, Getting, InUse, LiveIsCached, MapNamesMapped, Mmap, mapVars,
     offset, reading, Goto, Fresh
<1>3. BesideReference'
  BY DistinctConstants DEF Sharers, TypeOK, Places, BesideReference, Deleting,
     Getting, InUse, Mmap, mapVars, offset, reading, Goto, Fresh
<1>4. StillExpired'
  BY DistinctConstants DEF Sharers, TypeOK, MutexHeld, Places, StillExpired,
     Critical, Getting, Deleting, Expired, InUse, Mmap, mapVars, offset, reading,
     Goto, Fresh
<1>5. DoomedAlone' /\ Unnamed'
  BY DistinctConstants DEF Sharers, TypeOK, Places, DoomedAlone, Unnamed,
     InUseIsMapped, MapNamesMapped, LiveIsCached, Deleting, InUse, mapped,
     Mmap, mapVars, offset, reading, Goto, Fresh
<1>6. WholeMappings' /\ InUseIsMapped'
  BY DistinctConstants DEF Sharers, TypeOK, Places, DoomedAlone,
     WholeMappings, InUseIsMapped, Getting, Deleting, InUse, mapped, Mmap,
     mapVars, offset, reading, Goto, Fresh
<1>7. LiveIsCached' /\ MapNamesMapped'
  BY DistinctConstants DEF Sharers, TypeOK, Places, StillExpired, DoomedAlone,
     Unnamed, WholeMappings, InUseIsMapped, LiveIsCached, MapNamesMapped,
     Getting, Deleting, Expired, InUse, mapped, Mmap, mapVars, offset, reading,
     Goto, Fresh
<1>8. MappedHasOwner'
  BY DistinctConstants DEF Sharers, TypeOK, Places, DoomedAlone,
     MappedHasOwner, Deleting, Getting, InUse, mapped, Mmap, mapVars, offset,
     reading, Goto,
     Fresh
<1>9. VersionsExist'
  BY DistinctConstants DEF Sharers, TypeOK, VersionsExist, Mmap, mapVars, offset,
     reading, Goto, Fresh
<1> QED BY <1>1, <1>2, <1>3, <1>4, <1>5, <1>6, <1>7, <1>8, <1>9 DEF Sharers

\* A failed mmap() closes the descriptor and changes nothing shared.
LEMMA MmapFailsSharers ==
  ASSUME NEW w \in Workers, Sharers, MmapFails(w)
  PROVE  Sharers'
<1>1. TypeOK' /\ MutexHeld'
  <2>1. TypeOK'
    BY DistinctConstants DEF Sharers, TypeOK, Places, Deleting, Getting,
       MmapFails, mapVars, offset, reading, Goto
  <2>2. MutexHeld'
    BY DistinctConstants DEF Sharers, TypeOK, MutexHeld, Places, Critical,
       Deleting, Getting, MmapFails, mapVars, offset, reading, Goto
  <2> QED BY <2>1, <2>2
<1>2. Places'
  BY DistinctConstants DEF Sharers, TypeOK, MutexHeld, Places, Critical,
     Deleting, Getting, InUse, LiveIsCached, MapNamesMapped, MmapFails,
     mapVars, offset, reading, Goto
<1>3. BesideReference'
  BY DistinctConstants DEF Sharers, TypeOK, Places, BesideReference, Deleting,
     Getting, InUse, MmapFails, mapVars, offset, reading, Goto
<1>4. StillExpired'
  BY DistinctConstants DEF Sharers, TypeOK, MutexHeld, Places, StillExpired,
     Critical, Getting, Deleting, Expired, InUse, MmapFails, mapVars, offset,
     reading, Goto
<1>5. DoomedAlone' /\ Unnamed'
  BY DistinctConstants DEF Sharers, TypeOK, Places, DoomedAlone, Unnamed,
     InUseIsMapped, MapNamesMapped, LiveIsCached, Deleting, InUse, mapped,
     MmapFails, mapVars, offset, reading, Goto
<1>6. WholeMappings' /\ InUseIsMapped'
  BY DistinctConstants DEF Sharers, TypeOK, Places, DoomedAlone,
     WholeMappings, InUseIsMapped, Getting, Deleting, InUse, mapped,
     MmapFails, mapVars, offset, reading, Goto
<1>7. LiveIsCached' /\ MapNamesMapped'
  BY DistinctConstants DEF Sharers, TypeOK, Places, StillExpired, DoomedAlone,
     Unnamed, WholeMappings, InUseIsMapped, LiveIsCached, MapNamesMapped,
     Getting, Deleting, Expired, InUse, mapped, MmapFails, mapVars, offset,
     reading, Goto
<1>8. MappedHasOwner'
  BY DistinctConstants DEF Sharers, TypeOK, Places, DoomedAlone,
     MappedHasOwner, Deleting, Getting, InUse, mapped, MmapFails, mapVars,
     offset, reading, Goto
<1>9. VersionsExist'
  BY DistinctConstants DEF Sharers, TypeOK, VersionsExist, MmapFails, mapVars,
     offset, reading, Goto
<1> QED BY <1>1, <1>2, <1>3, <1>4, <1>5, <1>6, <1>7, <1>8, <1>9 DEF Sharers

\* Leaving GetAddr() releases the mutex for nobody but its holder.
LEMMA ReturnGetAddrSharers ==
  ASSUME NEW w \in Workers, Sharers, ReturnGetAddr(w)
  PROVE  Sharers'
<1>1. TypeOK' /\ MutexHeld'
  <2>1. FirstPart(w) \in Nat
    BY LengthsAreNat DEF Sharers
  <2>2. upto' \in [Workers -> Nat] /\ buf' \in [Workers -> Mappings \cup {NoMapping}]
    BY <2>1 DEF Sharers, TypeOK, ReturnGetAddr, Reads, ReadsNothing
  <2>3. TypeOK'
    BY <2>2 DEF Sharers, TypeOK, ReturnGetAddr, mapVars, offset, Goto, ShutByError
  <2>4. MutexHeld'
    BY DistinctConstants DEF Sharers, TypeOK, MutexHeld, Critical, ReturnGetAddr, Goto
  <2> QED BY <2>3, <2>4
<1>2. Places'
  BY DistinctConstants DEF Sharers, TypeOK, MutexHeld, Places, Critical,
     Deleting, Getting, InUse, LiveIsCached, MapNamesMapped, ReturnGetAddr,
     mapVars, offset, reading, Goto, Reads, ReadsNothing, ShutByError
<1>3. BesideReference'
  BY DistinctConstants DEF Sharers, TypeOK, Places, BesideReference, Deleting,
     Getting, InUse, ReturnGetAddr, mapVars, offset, reading, Goto, Reads,
     ReadsNothing, FirstPart, ShutByError
<1>4. StillExpired'
  BY DistinctConstants DEF Sharers, TypeOK, MutexHeld, Places, StillExpired,
     Critical, Getting, Deleting, Expired, InUse, ReturnGetAddr, mapVars, offset,
     reading, Goto, Reads, ReadsNothing, ShutByError
<1>5. DoomedAlone' /\ Unnamed'
  BY DistinctConstants DEF Sharers, TypeOK, Places, DoomedAlone, Unnamed,
     InUseIsMapped, MapNamesMapped, LiveIsCached, Deleting, InUse, mapped,
     ReturnGetAddr, mapVars, offset, reading, Goto, Reads, ReadsNothing, ShutByError
<1>6. WholeMappings' /\ InUseIsMapped'
  BY DistinctConstants DEF Sharers, TypeOK, Places, DoomedAlone,
     WholeMappings, InUseIsMapped, Getting, Deleting, InUse, mapped,
     ReturnGetAddr, mapVars, offset, reading, Goto, Reads, ReadsNothing, ShutByError
<1>7. LiveIsCached' /\ MapNamesMapped'
  BY DistinctConstants DEF Sharers, TypeOK, Places, StillExpired, DoomedAlone,
     Unnamed, WholeMappings, InUseIsMapped, LiveIsCached, MapNamesMapped,
     Getting, Deleting, Expired, InUse, mapped, ReturnGetAddr, mapVars, offset,
     reading, Goto, Reads, ReadsNothing,
     ShutByError
<1>8. MappedHasOwner'
  BY DistinctConstants DEF Sharers, TypeOK, Places, DoomedAlone,
     MappedHasOwner, Deleting, Getting, InUse, mapped, ReturnGetAddr, mapVars,
     offset, reading, Goto, Reads, ReadsNothing, ShutByError
<1>9. VersionsExist'
  BY DistinctConstants DEF Sharers, TypeOK, VersionsExist, ReturnGetAddr,
     mapVars, offset, reading, Goto, Reads, ReadsNothing, ShutByError
<1> QED BY <1>1, <1>2, <1>3, <1>4, <1>5, <1>6, <1>7, <1>8, <1>9 DEF Sharers

\* Installing a callback keeps the invariant: the mapping the callback before it
\* had becomes doomed, if that was the last reference, while mapped and in the map.
LEMMA InstallCallbackSharers ==
  ASSUME NEW w \in Workers, Sharers, InstallCallback(w)
  PROVE  Sharers'
<1>1. TypeOK' /\ MutexHeld'
  <2>1. FirstPart(w) \in Nat
    BY LengthsAreNat DEF Sharers
  <2>2. /\ cache_filesize_' \in [Workers -> Nat] /\ fresh' \in [Workers -> BOOLEAN]
        /\ captured' \in [Workers -> Mappings \cup {NoMapping}]
    BY <2>1 DEF Sharers, TypeOK, InstallCallback
  <2>3. upto' \in [Workers -> Nat] /\ buf' \in [Workers -> Mappings \cup {NoMapping}]
    BY DEF Sharers, TypeOK, InstallCallback, Reads, ReadsNothing
  <2>4. TypeOK'
    BY <2>2, <2>3 DEF Sharers, TypeOK, InstallCallback, mapVars, Goto, Drop, InUse
  <2>5. MutexHeld'
    BY DistinctConstants DEF Sharers, TypeOK, MutexHeld, Critical, InstallCallback, Goto,
       Drop
  <2> QED BY <2>4, <2>5
<1>2. Places'
  BY DistinctConstants DEF Sharers, TypeOK, MutexHeld, Places, Critical,
     Deleting, Getting, InUse, LiveIsCached, MapNamesMapped, InstallCallback,
     mapVars, offset, reading, Goto, Reads, ReadsNothing, Drop
<1>3. BesideReference'
  BY DistinctConstants DEF Sharers, TypeOK, Places, BesideReference, Deleting,
     Getting, InUse, InstallCallback, mapVars, offset, reading, Goto, Reads,
     ReadsNothing, FirstPart, Drop
<1>4. StillExpired'
  BY DistinctConstants, SMTT(30) DEF Sharers, TypeOK, MutexHeld, Places, StillExpired,
     Critical, Getting, Deleting, Expired, InUse, InstallCallback, mapVars,
     offset, reading, Goto, Reads, ReadsNothing, Drop
<1>5. DoomedAlone' /\ Unnamed'
  BY DistinctConstants, SMTT(30) DEF Sharers, TypeOK, Places, DoomedAlone, Unnamed,
     InUseIsMapped, MapNamesMapped, LiveIsCached, Deleting, InUse, mapped,
     InstallCallback, mapVars, offset, reading, Goto, Reads, ReadsNothing, Drop
<1>6. WholeMappings' /\ InUseIsMapped'
  BY DistinctConstants DEF Sharers, TypeOK, Places, DoomedAlone,
     WholeMappings, InUseIsMapped, Getting, Deleting, InUse, mapped,
     InstallCallback, mapVars, offset, reading, Goto, Reads, ReadsNothing, Drop
<1>7. LiveIsCached' /\ MapNamesMapped'
  BY DistinctConstants DEF Sharers, TypeOK, Places, StillExpired, DoomedAlone,
     Unnamed, WholeMappings, InUseIsMapped, LiveIsCached, MapNamesMapped,
     Getting, Deleting, Expired, InUse, mapped, InstallCallback, mapVars, offset,
     reading, Goto, Reads, ReadsNothing, Drop
<1>8. MappedHasOwner'
  BY DistinctConstants DEF Sharers, TypeOK, Places, DoomedAlone,
     MappedHasOwner, Deleting, Getting, InUse, mapped, InstallCallback,
     mapVars, offset, reading, Goto, Reads, ReadsNothing, Drop
<1>9. VersionsExist'
  BY DistinctConstants DEF Sharers, TypeOK, VersionsExist, InstallCallback,
     mapVars, offset, reading, Goto, Reads, ReadsNothing, Drop
<1> QED BY <1>1, <1>2, <1>3, <1>4, <1>5, <1>6, <1>7, <1>8, <1>9 DEF Sharers

\* Sending a part in the middle reads what the callback keeps.
LEMMA SendPartSharers ==
  ASSUME NEW w \in Workers, Sharers, SendPart(w)
  PROVE  Sharers'
<1>1. TypeOK' /\ MutexHeld'
  <2>1. Left(w) \in Nat /\ BufferSize \in Nat
    BY LengthsAreNat, SizesAssumption DEF Sharers
  <2>a. cache_filesize_' \in [Workers -> Nat]
    BY <2>1 DEF Sharers, TypeOK, SendPart
  <2>b. upto' \in [Workers -> Nat]
    BY <2>1 DEF Sharers, TypeOK, SendPart, Sends, Reads, ReadsNothing
  <2>c. buf' \in [Workers -> Mappings \cup {NoMapping}]
    BY DEF Sharers, TypeOK, SendPart, Sends, Reads, ReadsNothing
  <2>2. /\ upto' \in [Workers -> Nat] /\ buf' \in [Workers -> Mappings \cup {NoMapping}]
        /\ cache_filesize_' \in [Workers -> Nat]
    BY <2>a, <2>b, <2>c
  <2>3. TypeOK'
    BY <2>2 DEF Sharers, TypeOK, SendPart, mapVars, offset, Goto
  <2>4. MutexHeld'
    BY DistinctConstants DEF Sharers, TypeOK, MutexHeld, Critical, SendPart, Goto
  <2> QED BY <2>3, <2>4
<1>2. Places'
  BY DistinctConstants DEF Sharers, TypeOK, MutexHeld, Places, Critical,
     Deleting, Getting, InUse, LiveIsCached, MapNamesMapped, SendPart,
     mapVars, offset, reading, Goto, Sends, Reads, ReadsNothing
<1>3. BesideReference'
  BY DistinctConstants DEF Sharers, TypeOK, Places, BesideReference, Deleting,
     Getting, InUse, SendPart, mapVars, offset, reading, Goto, Sends, Reads,
     ReadsNothing, Left
<1>4. StillExpired'
  BY DistinctConstants DEF Sharers, TypeOK, MutexHeld, Places, StillExpired,
     Critical, Getting, Deleting, Expired, InUse, SendPart, mapVars, offset,
     reading, Goto, Sends, Reads, ReadsNothing
<1>5. DoomedAlone' /\ Unnamed'
  BY DistinctConstants DEF Sharers, TypeOK, Places, DoomedAlone, Unnamed,
     InUseIsMapped, MapNamesMapped, LiveIsCached, Deleting, InUse, mapped,
     SendPart, mapVars, offset, reading, Goto, Sends, Reads, ReadsNothing
<1>6. WholeMappings' /\ InUseIsMapped'
  BY DistinctConstants DEF Sharers, TypeOK, Places, DoomedAlone,
     WholeMappings, InUseIsMapped, Getting, Deleting, InUse, mapped,
     SendPart, mapVars, offset, reading, Goto, Sends, Reads, ReadsNothing
<1>7. LiveIsCached' /\ MapNamesMapped'
  BY DistinctConstants DEF Sharers, TypeOK, Places, StillExpired, DoomedAlone,
     Unnamed, WholeMappings, InUseIsMapped, LiveIsCached, MapNamesMapped,
     Getting, Deleting, Expired, InUse, mapped, SendPart, mapVars, offset,
     reading, Goto, Sends, Reads, ReadsNothing
<1>8. MappedHasOwner'
  BY DistinctConstants DEF Sharers, TypeOK, Places, DoomedAlone,
     MappedHasOwner, Deleting, Getting, InUse, mapped, SendPart, mapVars, offset,
     reading, Goto, Sends, Reads, ReadsNothing
<1>9. VersionsExist'
  BY DistinctConstants DEF Sharers, TypeOK, VersionsExist, SendPart, mapVars,
     offset, reading, Goto, Sends, Reads, ReadsNothing
<1> QED BY <1>1, <1>2, <1>3, <1>4, <1>5, <1>6, <1>7, <1>8, <1>9 DEF Sharers

\* The guard is one more reference to what the callback has.
LEMMA GuardAddrSharers ==
  ASSUME NEW w \in Workers, Sharers, GuardAddr(w)
  PROVE  Sharers'
<1>1. TypeOK' /\ MutexHeld'
  <2>1. Left(w) \in Nat /\ BufferSize \in Nat
    BY LengthsAreNat, SizesAssumption DEF Sharers
  <2>2. /\ upto' \in [Workers -> Nat] /\ buf' \in [Workers -> Mappings \cup {NoMapping}]
        /\ cache_filesize_' \in [Workers -> Nat]
    BY <2>1 DEF Sharers, TypeOK, GuardAddr, Sends, Reads, ReadsNothing, offset
  <2>3. TypeOK'
    BY <2>2 DEF Sharers, TypeOK, GuardAddr, mapVars, offset, Goto
  <2>4. MutexHeld'
    BY DistinctConstants DEF Sharers, TypeOK, MutexHeld, Critical, GuardAddr, Goto
  <2> QED BY <2>3, <2>4
<1>2. Places'
  BY DistinctConstants DEF Sharers, TypeOK, MutexHeld, Places, Critical,
     Deleting, Getting, InUse, LiveIsCached, MapNamesMapped, GuardAddr,
     mapVars, offset, reading, Goto, Sends, Reads, ReadsNothing
<1>3. BesideReference'
  BY DistinctConstants DEF Sharers, TypeOK, Places, BesideReference, Deleting,
     Getting, InUse, GuardAddr, mapVars, offset, reading, Goto, Sends, Reads,
     ReadsNothing, Left
<1>4. StillExpired'
  BY DistinctConstants DEF Sharers, TypeOK, MutexHeld, Places, StillExpired,
     Critical, Getting, Deleting, Expired, InUse, GuardAddr, mapVars, offset,
     reading, Goto, Sends, Reads, ReadsNothing
<1>5. DoomedAlone' /\ Unnamed'
  BY DistinctConstants DEF Sharers, TypeOK, Places, DoomedAlone, Unnamed,
     InUseIsMapped, MapNamesMapped, LiveIsCached, Deleting, InUse, mapped,
     GuardAddr, mapVars, offset, reading, Goto, Sends, Reads, ReadsNothing
<1>6. WholeMappings' /\ InUseIsMapped'
  BY DistinctConstants DEF Sharers, TypeOK, Places, DoomedAlone,
     WholeMappings, InUseIsMapped, Getting, Deleting, InUse, mapped,
     GuardAddr, mapVars, offset, reading, Goto, Sends, Reads, ReadsNothing
<1>7. LiveIsCached' /\ MapNamesMapped'
  BY DistinctConstants DEF Sharers, TypeOK, Places, StillExpired, DoomedAlone,
     Unnamed, WholeMappings, InUseIsMapped, LiveIsCached, MapNamesMapped,
     Getting, Deleting, Expired, InUse, mapped, GuardAddr, mapVars, offset,
     reading, Goto, Sends, Reads, ReadsNothing
<1>8. MappedHasOwner'
  BY DistinctConstants DEF Sharers, TypeOK, Places, DoomedAlone,
     MappedHasOwner, Deleting, Getting, InUse, mapped, GuardAddr, mapVars,
     offset, reading, Goto, Sends, Reads, ReadsNothing
<1>9. VersionsExist'
  BY DistinctConstants DEF Sharers, TypeOK, VersionsExist, GuardAddr, mapVars,
     offset, reading, Goto, Sends, Reads, ReadsNothing
<1> QED BY <1>1, <1>2, <1>3, <1>4, <1>5, <1>6, <1>7, <1>8, <1>9 DEF Sharers

\* Replacing the callback that owns the mapping dooms nothing the guard has.
LEMMA SetLastWriteCompleteSharers ==
  ASSUME NEW w \in Workers, Sharers, SetLastWriteComplete(w)
  PROVE  Sharers'
<1>1. TypeOK' /\ MutexHeld'
  <2>1. TypeOK'
    BY SMTT(30) DEF Sharers, TypeOK, Places, SetLastWriteComplete, mapVars, offset,
       reading, Goto, Drop, InUse
  <2>2. MutexHeld'
    BY SMTT(30), DistinctConstants DEF Sharers, TypeOK, MutexHeld, Critical,
       SetLastWriteComplete, Goto, Drop
  <2> QED BY <2>1, <2>2
<1>2. Places'
  BY DistinctConstants DEF Sharers, TypeOK, MutexHeld, Places, Critical,
     Deleting, Getting, InUse, LiveIsCached, MapNamesMapped,
     SetLastWriteComplete, mapVars, offset, reading, Goto, Drop
<1>3. BesideReference'
  BY DistinctConstants DEF Sharers, TypeOK, Places, BesideReference, Deleting,
     Getting, InUse, SetLastWriteComplete, mapVars, offset, reading, Goto, Drop
<1>4. StillExpired'
  BY DistinctConstants DEF Sharers, TypeOK, MutexHeld, Places, StillExpired,
     Critical, Getting, Deleting, Expired, InUse, SetLastWriteComplete,
     mapVars, offset, reading, Goto, Drop
<1>5. DoomedAlone' /\ Unnamed'
  BY DistinctConstants DEF Sharers, TypeOK, Places, DoomedAlone, Unnamed,
     InUseIsMapped, MapNamesMapped, LiveIsCached, Deleting, InUse, mapped,
     SetLastWriteComplete, mapVars, offset, reading, Goto, Drop
<1>6. WholeMappings' /\ InUseIsMapped'
  BY DistinctConstants DEF Sharers, TypeOK, Places, DoomedAlone,
     WholeMappings, InUseIsMapped, Getting, Deleting, InUse, mapped,
     SetLastWriteComplete, mapVars, offset, reading, Goto, Drop
<1>7. LiveIsCached' /\ MapNamesMapped'
  BY DistinctConstants DEF Sharers, TypeOK, Places, StillExpired, DoomedAlone,
     Unnamed, WholeMappings, InUseIsMapped, LiveIsCached, MapNamesMapped,
     Getting, Deleting, Expired, InUse, mapped, SetLastWriteComplete, mapVars,
     offset, reading, Goto, Drop
<1>8. MappedHasOwner'
  BY DistinctConstants DEF Sharers, TypeOK, Places, DoomedAlone,
     MappedHasOwner, Deleting, Getting, InUse, mapped, SetLastWriteComplete,
     mapVars, offset, reading, Goto, Drop
<1>9. VersionsExist'
  BY DistinctConstants DEF Sharers, TypeOK, VersionsExist,
     SetLastWriteComplete, mapVars, offset, reading, Goto, Drop
<1> QED BY <1>1, <1>2, <1>3, <1>4, <1>5, <1>6, <1>7, <1>8, <1>9 DEF Sharers

\* Sending the last part ends the use of the raw pointer.
LEMMA SentSharers ==
  ASSUME NEW w \in Workers, Sharers, Sent(w)
  PROVE  Sharers'
<1>1. TypeOK' /\ MutexHeld'
  <2>1. TypeOK'
    BY DistinctConstants DEF Sharers, TypeOK, Places, Deleting, Getting, Sent,
       mapVars, offset, reading, Goto, Reads, ReadsNothing
  <2>2. MutexHeld'
    BY DistinctConstants DEF Sharers, TypeOK, MutexHeld, Places, Critical,
       Deleting, Getting, Sent, mapVars, offset, reading, Goto, Reads,
       ReadsNothing
  <2> QED BY <2>1, <2>2
<1>2. Places'
  BY DistinctConstants DEF Sharers, TypeOK, MutexHeld, Places, Critical,
     Deleting, Getting, InUse, LiveIsCached, MapNamesMapped, Sent,
     mapVars, offset, reading, Goto, Reads, ReadsNothing
<1>3. BesideReference'
  BY DistinctConstants DEF Sharers, TypeOK, Places, BesideReference, Deleting,
     Getting, InUse, Sent, mapVars, offset, reading, Goto, Reads, ReadsNothing
<1>4. StillExpired'
  BY DistinctConstants DEF Sharers, TypeOK, MutexHeld, Places, StillExpired,
     Critical, Getting, Deleting, Expired, InUse, Sent, mapVars, offset, reading,
     Goto, Reads, ReadsNothing
<1>5. DoomedAlone' /\ Unnamed'
  BY DistinctConstants DEF Sharers, TypeOK, Places, DoomedAlone, Unnamed,
     InUseIsMapped, MapNamesMapped, LiveIsCached, Deleting, InUse, mapped,
     Sent, mapVars, offset, reading, Goto, Reads, ReadsNothing
<1>6. WholeMappings' /\ InUseIsMapped'
  BY DistinctConstants DEF Sharers, TypeOK, Places, DoomedAlone,
     WholeMappings, InUseIsMapped, Getting, Deleting, InUse, mapped, Sent,
     mapVars, offset, reading, Goto, Reads, ReadsNothing
<1>7. LiveIsCached' /\ MapNamesMapped'
  BY DistinctConstants DEF Sharers, TypeOK, Places, StillExpired, DoomedAlone,
     Unnamed, WholeMappings, InUseIsMapped, LiveIsCached, MapNamesMapped,
     Getting, Deleting, Expired, InUse, mapped, Sent, mapVars, offset, reading,
     Goto, Reads, ReadsNothing
<1>8. MappedHasOwner'
  BY DistinctConstants DEF Sharers, TypeOK, Places, DoomedAlone,
     MappedHasOwner, Deleting, Getting, InUse, mapped, Sent, mapVars, offset,
     reading, Goto, Reads, ReadsNothing
<1>9. VersionsExist'
  BY DistinctConstants DEF Sharers, TypeOK, VersionsExist, Sent, mapVars, offset,
     reading, Goto, Reads, ReadsNothing
<1> QED BY <1>1, <1>2, <1>3, <1>4, <1>5, <1>6, <1>7, <1>8, <1>9 DEF Sharers

\* Returning from a handler keeps the invariant, as installing a callback does.
LEMMA ReturnHandlerSharers ==
  ASSUME NEW w \in Workers, Sharers, ReturnHandler(w)
  PROVE  Sharers'
<1>1. TypeOK' /\ MutexHeld'
  <2>1. TypeOK'
    BY SMTT(30) DEF Sharers, TypeOK, Places, ReturnHandler, mapVars, offset, reading,
       Goto, Drop, InUse
  <2>2. MutexHeld'
    BY SMTT(30), DistinctConstants DEF Sharers, TypeOK, MutexHeld, Critical,
       ReturnHandler, Goto, Drop
  <2> QED BY <2>1, <2>2
<1>2. Places'
  BY DistinctConstants DEF Sharers, TypeOK, MutexHeld, Places, Critical,
     Deleting, Getting, InUse, LiveIsCached, MapNamesMapped, ReturnHandler,
     mapVars, offset, reading, Goto, Drop
<1>3. BesideReference'
  BY DistinctConstants DEF Sharers, TypeOK, Places, BesideReference, Deleting,
     Getting, InUse, ReturnHandler, mapVars, offset, reading, Goto, Drop
<1>4. StillExpired'
  BY DistinctConstants DEF Sharers, TypeOK, MutexHeld, Places, StillExpired,
     Critical, Getting, Deleting, Expired, InUse, ReturnHandler, mapVars, offset,
     reading, Goto, Drop
<1>5. DoomedAlone' /\ Unnamed'
  BY DistinctConstants DEF Sharers, TypeOK, Places, DoomedAlone, Unnamed,
     InUseIsMapped, MapNamesMapped, LiveIsCached, Deleting, InUse, mapped,
     ReturnHandler, mapVars, offset, reading, Goto, Drop
<1>6. WholeMappings' /\ InUseIsMapped'
  BY DistinctConstants DEF Sharers, TypeOK, Places, DoomedAlone,
     WholeMappings, InUseIsMapped, Getting, Deleting, InUse, mapped,
     ReturnHandler, mapVars, offset, reading, Goto, Drop
<1>7. LiveIsCached' /\ MapNamesMapped'
  BY DistinctConstants DEF Sharers, TypeOK, Places, StillExpired, DoomedAlone,
     Unnamed, WholeMappings, InUseIsMapped, LiveIsCached, MapNamesMapped,
     Getting, Deleting, Expired, InUse, mapped, ReturnHandler, mapVars, offset,
     reading, Goto,
     Drop
<1>8. MappedHasOwner'
  BY DistinctConstants DEF Sharers, TypeOK, Places, DoomedAlone,
     MappedHasOwner, Deleting, Getting, InUse, mapped, ReturnHandler, mapVars,
     offset, reading, Goto, Drop
<1>9. VersionsExist'
  BY DistinctConstants DEF Sharers, TypeOK, VersionsExist, ReturnHandler,
     mapVars, offset, reading, Goto, Drop
<1> QED BY <1>1, <1>2, <1>3, <1>4, <1>5, <1>6, <1>7, <1>8, <1>9 DEF Sharers

\* So does a disconnection.
LEMMA DisconnectSharers ==
  ASSUME NEW w \in Workers, Sharers, Disconnect(w)
  PROVE  Sharers'
<1>1. TypeOK' /\ MutexHeld'
  <2>1. TypeOK'
    BY DistinctConstants DEF Sharers, TypeOK, Places, Deleting, Getting,
       Disconnect, mapVars, offset, reading, Goto, Drop
  <2>2. MutexHeld'
    BY DistinctConstants DEF Sharers, TypeOK, MutexHeld, Places, Critical,
       Deleting, Getting, Disconnect, mapVars, offset, reading, Goto, Drop
  <2> QED BY <2>1, <2>2
<1>2. Places'
  BY DistinctConstants DEF Sharers, TypeOK, MutexHeld, Places, Critical,
     Deleting, Getting, InUse, LiveIsCached, MapNamesMapped, Disconnect,
     mapVars, offset, reading, Goto, Drop
<1>3. BesideReference'
  BY DistinctConstants DEF Sharers, TypeOK, Places, BesideReference, Deleting,
     Getting, InUse, Disconnect, mapVars, offset, reading, Goto, Drop
<1>4. StillExpired'
  BY DistinctConstants DEF Sharers, TypeOK, MutexHeld, Places, StillExpired,
     Critical, Getting, Deleting, Expired, InUse, Disconnect, mapVars, offset,
     reading, Goto,
     Drop
<1>5. DoomedAlone' /\ Unnamed'
  BY DistinctConstants DEF Sharers, TypeOK, Places, DoomedAlone, Unnamed,
     InUseIsMapped, MapNamesMapped, LiveIsCached, Deleting, InUse, mapped,
     Disconnect, mapVars, offset, reading, Goto, Drop
<1>6. WholeMappings' /\ InUseIsMapped'
  BY DistinctConstants DEF Sharers, TypeOK, Places, DoomedAlone,
     WholeMappings, InUseIsMapped, Getting, Deleting, InUse, mapped,
     Disconnect, mapVars, offset, reading, Goto, Drop
<1>7. LiveIsCached' /\ MapNamesMapped'
  BY DistinctConstants DEF Sharers, TypeOK, Places, StillExpired, DoomedAlone,
     Unnamed, WholeMappings, InUseIsMapped, LiveIsCached, MapNamesMapped,
     Getting, Deleting, Expired, InUse, mapped, Disconnect, mapVars, offset,
     reading, Goto,
     Drop
<1>8. MappedHasOwner'
  BY DistinctConstants DEF Sharers, TypeOK, Places, DoomedAlone,
     MappedHasOwner, Deleting, Getting, InUse, mapped, Disconnect, mapVars,
     offset, reading, Goto, Drop
<1>9. VersionsExist'
  BY DistinctConstants DEF Sharers, TypeOK, VersionsExist, Disconnect,
     mapVars, offset, reading, Goto, Drop
<1> QED BY <1>1, <1>2, <1>3, <1>4, <1>5, <1>6, <1>7, <1>8, <1>9 DEF Sharers

\* A deleter that takes the mutex keeps the invariant.
LEMMA LockDeleterSharers ==
  ASSUME NEW w \in Workers, Sharers, LockDeleter(w)
  PROVE  Sharers'
<1>1. TypeOK' /\ MutexHeld'
  <2>1. TypeOK'
    BY DistinctConstants DEF Sharers, TypeOK, Places, Deleting, Getting,
       LockDeleter, mapVars, offset, reading, Goto
  <2>2. MutexHeld'
    BY DistinctConstants DEF Sharers, TypeOK, MutexHeld, Places, Critical,
       Deleting, Getting, LockDeleter, mapVars, offset, reading, Goto
  <2> QED BY <2>1, <2>2
<1>2. Places'
  BY DistinctConstants DEF Sharers, TypeOK, MutexHeld, Places, Critical,
     Deleting, Getting, InUse, LiveIsCached, MapNamesMapped, LockDeleter,
     mapVars, offset, reading, Goto
<1>3. BesideReference'
  BY DistinctConstants DEF Sharers, TypeOK, Places, BesideReference, Deleting,
     Getting, InUse, LockDeleter, mapVars, offset, reading, Goto
<1>4. StillExpired'
  BY DistinctConstants DEF Sharers, TypeOK, MutexHeld, Places, StillExpired,
     Critical, Getting, Deleting, Expired, InUse, LockDeleter, mapVars, offset,
     reading, Goto
<1>5. DoomedAlone' /\ Unnamed'
  BY DistinctConstants DEF Sharers, TypeOK, Places, DoomedAlone, Unnamed,
     InUseIsMapped, MapNamesMapped, LiveIsCached, Deleting, InUse, mapped,
     LockDeleter, mapVars, offset, reading, Goto
<1>6. WholeMappings' /\ InUseIsMapped'
  BY DistinctConstants DEF Sharers, TypeOK, Places, DoomedAlone,
     WholeMappings, InUseIsMapped, Getting, Deleting, InUse, mapped,
     LockDeleter, mapVars, offset, reading, Goto
<1>7. LiveIsCached' /\ MapNamesMapped'
  BY DistinctConstants DEF Sharers, TypeOK, Places, StillExpired, DoomedAlone,
     Unnamed, WholeMappings, InUseIsMapped, LiveIsCached, MapNamesMapped,
     Getting, Deleting, Expired, InUse, mapped, LockDeleter, mapVars, offset,
     reading, Goto
<1>8. MappedHasOwner'
  BY DistinctConstants DEF Sharers, TypeOK, Places, DoomedAlone,
     MappedHasOwner, Deleting, Getting, InUse, mapped, LockDeleter, mapVars,
     offset, reading, Goto
<1>9. VersionsExist'
  BY DistinctConstants DEF Sharers, TypeOK, VersionsExist, LockDeleter,
     mapVars, offset, reading, Goto
<1> QED BY <1>1, <1>2, <1>3, <1>4, <1>5, <1>6, <1>7, <1>8, <1>9 DEF Sharers

\* Erasing an expired entry keeps the invariant: no mapping in use is in it, and
\* afterwards the deleter's own mapping is in none.
LEMMA EraseSharers ==
  ASSUME NEW w \in Workers, Sharers, Erase(w)
  PROVE  Sharers'
<1>1. TypeOK' /\ MutexHeld'
  <2>1. TypeOK'
    BY DistinctConstants DEF Sharers, TypeOK, Places, Deleting, Getting, Erase,
       mapVars, offset, reading, Goto, Erases, Expired
  <2>2. MutexHeld'
    BY DistinctConstants DEF Sharers, TypeOK, MutexHeld, Places, Critical,
       Deleting, Getting, Erase, mapVars, offset, reading, Goto, Erases, Expired
  <2> QED BY <2>1, <2>2
<1>2. Places'
  BY DistinctConstants DEF Sharers, TypeOK, MutexHeld, Places, Critical,
     Deleting, Getting, InUse, LiveIsCached, MapNamesMapped, Erase, mapVars,
     offset, reading, Goto, Erases, Expired
<1>3. BesideReference'
  BY DistinctConstants DEF Sharers, TypeOK, Places, BesideReference, Deleting,
     Getting, InUse, Erase, mapVars, offset, reading, Goto, Erases, Expired
<1>4. StillExpired'
  BY DistinctConstants DEF Sharers, TypeOK, MutexHeld, Places, StillExpired,
     Critical, Getting, Deleting, Expired, InUse, Erase, mapVars, offset,
     reading, Goto, Erases
<1>5. DoomedAlone' /\ Unnamed'
  BY DistinctConstants DEF Sharers, TypeOK, Places, DoomedAlone, Unnamed,
     InUseIsMapped, MapNamesMapped, LiveIsCached, Deleting, InUse, mapped,
     Erase, mapVars, offset, reading, Goto, Erases, Expired
<1>6. WholeMappings' /\ InUseIsMapped'
  BY DistinctConstants DEF Sharers, TypeOK, Places, DoomedAlone,
     WholeMappings, InUseIsMapped, Getting, Deleting, InUse, mapped, Erase,
     mapVars, offset, reading, Goto, Erases, Expired
<1>7. LiveIsCached' /\ MapNamesMapped'
  BY DistinctConstants DEF Sharers, TypeOK, Places, StillExpired, DoomedAlone,
     Unnamed, WholeMappings, InUseIsMapped, LiveIsCached, MapNamesMapped,
     Getting, Deleting, Expired, InUse, mapped, Erase, mapVars, offset, reading,
     Goto, Erases
<1>8. MappedHasOwner'
  BY DistinctConstants DEF Sharers, TypeOK, Places, DoomedAlone,
     MappedHasOwner, Deleting, Getting, InUse, mapped, Erase, mapVars, offset,
     reading, Goto,
     Erases, Expired
<1>9. VersionsExist'
  BY DistinctConstants DEF Sharers, TypeOK, VersionsExist, Erase, mapVars,
     offset, reading, Goto, Erases, Expired
<1> QED BY <1>1, <1>2, <1>3, <1>4, <1>5, <1>6, <1>7, <1>8, <1>9 DEF Sharers

\* Unmapping keeps the invariant: the mapping is not in use, not in the map, no
\* other deleter has it, and all of it goes.
LEMMA MunmapSharers ==
  ASSUME NEW w \in Workers, Sharers, Munmap(w)
  PROVE  Sharers'
<1>1. TypeOK' /\ MutexHeld'
  <2>1. TypeOK'
    BY DistinctConstants DEF Sharers, TypeOK, Places, Deleting, Getting, Munmap,
       mapVars, offset, reading, Goto, Unmaps
  <2>2. MutexHeld'
    BY DistinctConstants DEF Sharers, TypeOK, MutexHeld, Places, Critical,
       Deleting, Getting, Munmap, mapVars, offset, reading, Goto, Unmaps
  <2> QED BY <2>1, <2>2
<1>2. Places'
  BY DistinctConstants DEF Sharers, TypeOK, MutexHeld, Places, Critical,
     Deleting, Getting, InUse, LiveIsCached, MapNamesMapped, Munmap, mapVars,
     offset, reading, Goto, Unmaps
<1>3. BesideReference'
  BY DistinctConstants DEF Sharers, TypeOK, Places, BesideReference, Deleting,
     Getting, InUse, Munmap, mapVars, offset, reading, Goto, Unmaps
<1>4. StillExpired'
  BY DistinctConstants DEF Sharers, TypeOK, MutexHeld, Places, StillExpired,
     Critical, Getting, Deleting, Expired, InUse, Munmap, mapVars, offset,
     reading, Goto,
     Unmaps
<1>5. DoomedAlone' /\ Unnamed'
  BY DistinctConstants DEF Sharers, TypeOK, Places, DoomedAlone, Unnamed,
     InUseIsMapped, MapNamesMapped, LiveIsCached, Deleting, InUse, mapped,
     Munmap, mapVars, offset, reading, Goto, Unmaps
<1>6. WholeMappings' /\ InUseIsMapped'
  BY DistinctConstants DEF Sharers, TypeOK, Places, DoomedAlone,
     WholeMappings, InUseIsMapped, Getting, Deleting, InUse, mapped, Munmap,
     mapVars, offset, reading, Goto, Unmaps
<1>7. LiveIsCached' /\ MapNamesMapped'
  BY DistinctConstants DEF Sharers, TypeOK, Places, StillExpired, DoomedAlone,
     Unnamed, WholeMappings, InUseIsMapped, LiveIsCached, MapNamesMapped,
     Getting, Deleting, Expired, InUse, mapped, Munmap, mapVars, offset, reading,
     Goto, Unmaps
<1>8. MappedHasOwner'
  <2>1. doomed[w] \in Mappings /\ mapped' = mapped \ {doomed[w]} /\ InUse' = InUse
    BY DEF Sharers, TypeOK, Places, WholeMappings, Deleting, InUse, mapped,
       Munmap, Unmaps
  <2> QED
    BY <2>1 DEF Sharers, TypeOK, MappedHasOwner, Munmap
<1>9. VersionsExist'
  BY DistinctConstants DEF Sharers, TypeOK, VersionsExist, Munmap, mapVars,
     offset, reading, Goto, Unmaps
<1> QED BY <1>1, <1>2, <1>3, <1>4, <1>5, <1>6, <1>7, <1>8, <1>9 DEF Sharers

\* A change of a file touches nothing of the cache.
LEMMA ChangeFileSharers ==
  ASSUME NEW p \in Paths, Sharers, ChangeFile(p)
  PROVE  Sharers'
<1>1. TypeOK' /\ MutexHeld'
  <2>1. TypeOK'
    BY DistinctConstants DEF Sharers, TypeOK, Places, Deleting, Getting,
       ChangeFile, mapVars, offset, reading
  <2>2. MutexHeld'
    BY DistinctConstants DEF Sharers, TypeOK, MutexHeld, Places, Critical,
       Deleting, Getting, ChangeFile, mapVars, offset, reading
  <2> QED BY <2>1, <2>2
<1>2. Places'
  BY DistinctConstants DEF Sharers, TypeOK, MutexHeld, Places, Critical,
     Deleting, Getting, InUse, LiveIsCached, MapNamesMapped, ChangeFile, mapVars,
     offset, reading
<1>3. BesideReference'
  BY DistinctConstants DEF Sharers, TypeOK, Places, BesideReference, Deleting,
     Getting, InUse, ChangeFile, mapVars, offset, reading
<1>4. StillExpired'
  BY DistinctConstants DEF Sharers, TypeOK, MutexHeld, Places, StillExpired,
     Critical, Getting, Deleting, Expired, InUse, ChangeFile, mapVars, offset,
     reading
<1>5. DoomedAlone' /\ Unnamed'
  BY DistinctConstants DEF Sharers, TypeOK, Places, DoomedAlone, Unnamed,
     InUseIsMapped, MapNamesMapped, LiveIsCached, Deleting, InUse, mapped,
     ChangeFile, mapVars, offset, reading
<1>6. WholeMappings' /\ InUseIsMapped'
  BY DistinctConstants DEF Sharers, TypeOK, Places, DoomedAlone,
     WholeMappings, InUseIsMapped, Getting, Deleting, InUse, mapped,
     ChangeFile, mapVars, offset, reading
<1>7. LiveIsCached' /\ MapNamesMapped'
  BY DistinctConstants DEF Sharers, TypeOK, Places, StillExpired, DoomedAlone,
     Unnamed, WholeMappings, InUseIsMapped, LiveIsCached, MapNamesMapped,
     Getting, Deleting, Expired, InUse, mapped, ChangeFile, mapVars, offset, reading
<1>8. MappedHasOwner'
  BY DistinctConstants DEF Sharers, TypeOK, Places, DoomedAlone,
     MappedHasOwner, Deleting, Getting, InUse, mapped, ChangeFile, mapVars,
     offset, reading
<1>9. VersionsExist'
  BY DistinctConstants DEF Sharers, TypeOK, VersionsExist, ChangeFile, mapVars,
     offset, reading
<1> QED BY <1>1, <1>2, <1>3, <1>4, <1>5, <1>6, <1>7, <1>8, <1>9 DEF Sharers

-----------------------------------------------------------------------------
(* Sizes                                                                   *)

\* Nothing is mapped or read when the server starts.
LEMMA InitSizes == Init => MappedSizes /\ KnownSizes
  BY DistinctConstants DEF Init, MappedSizes, KnownSizes, mapped, Getting

\* stat() says the size of a file that has not been changed since.
LEMMA CallGetAddrSizes ==
  ASSUME NEW w \in Workers, NEW p \in Paths, Inductive, CallGetAddr(w, p)
  PROVE  MappedSizes' /\ KnownSizes'
<1>1. MappedSizes'
  BY DistinctConstants, SizesAssumption DEF Inductive, Sharers, MappedSizes,
     Unchanged, WholeMappings, mapped, TypeOK, Places, Getting, KnownSizes,
     CallGetAddr, mapVars, offset, reading, Goto
<1>2. KnownSizes'
  <2>1. /\ pc[w] = "idle" /\ pc' = [pc EXCEPT ![w] = "get"] /\ want' = [want EXCEPT ![w] = p]
        /\ size' = [size EXCEPT ![w] = SizesOf[p][version[p]]]
        /\ UNCHANGED <<local, buf, captured, shut, file, version>>
    BY DEF CallGetAddr, mapVars, reading, Goto
  <2>2. TypeOK /\ KnownSizes /\ buf[w] = NoMapping
    BY <2>1 DEF Inductive, Sharers, BesideReference, Deleting
  <2> QED
    BY <2>1, <2>2, SMTT(30) DEF TypeOK, KnownSizes, Unchanged, Getting
<1> QED BY <1>1, <1>2

\* No mapping comes into use and no size changes.
LEMMA LockGetAddrSizes ==
  ASSUME NEW w \in Workers, Inductive, LockGetAddr(w)
  PROVE  MappedSizes' /\ KnownSizes'
<1>1. MappedSizes'
  BY SMTT(30), DistinctConstants DEF Inductive, Sharers, MappedSizes,
     Unchanged, WholeMappings, mapped, TypeOK, Places, Getting, KnownSizes,
     LockGetAddr, mapVars, offset, reading, Goto
<1>2. KnownSizes'
  BY SMTT(30), DistinctConstants DEF Inductive, Sharers, KnownSizes,
     Unchanged, TypeOK, Places, BesideReference, DoomedAlone, WholeMappings,
     InUseIsMapped, MapNamesMapped, Getting, Deleting, InUse, mapped,
     LockGetAddr, mapVars, offset, reading, Goto
<1> QED BY <1>1, <1>2

\* A mapping found in the map is one of the file asked for.
LEMMA FindSizes ==
  ASSUME NEW w \in Workers, Inductive, Find(w)
  PROVE  MappedSizes' /\ KnownSizes'
<1>1. MappedSizes'
  BY SMTT(30), DistinctConstants DEF Inductive, Sharers, MappedSizes,
     Unchanged, WholeMappings, mapped, TypeOK, Places, Getting, KnownSizes,
     Find, mapVars, offset, reading, Goto, Lock, Expired
<1>2. KnownSizes'
  BY SMTT(30), DistinctConstants DEF Inductive, Sharers, KnownSizes,
     Unchanged, TypeOK, Places, BesideReference, DoomedAlone, WholeMappings,
     InUseIsMapped, MapNamesMapped, Getting, Deleting, InUse, mapped, Find,
     mapVars, offset, reading, Goto, Lock, Expired
<1> QED BY <1>1, <1>2

\* No mapping comes into use and no size changes.
LEMMA OpenFileSizes ==
  ASSUME NEW w \in Workers, Inductive, OpenFile(w)
  PROVE  MappedSizes' /\ KnownSizes'
<1>1. MappedSizes'
  BY SMTT(30), DistinctConstants DEF Inductive, Sharers, MappedSizes,
     Unchanged, WholeMappings, mapped, TypeOK, Places, Getting, KnownSizes,
     OpenFile, mapVars, offset, reading, Goto
<1>2. KnownSizes'
  BY SMTT(30), DistinctConstants DEF Inductive, Sharers, KnownSizes,
     Unchanged, TypeOK, Places, BesideReference, DoomedAlone, WholeMappings,
     InUseIsMapped, MapNamesMapped, Getting, Deleting, InUse, mapped,
     OpenFile, mapVars, offset, reading, Goto
<1> QED BY <1>1, <1>2

\* A new mapping has the size that the caller has found.
LEMMA MmapSizes ==
  ASSUME NEW w \in Workers, Inductive, Mmap(w)
  PROVE  MappedSizes' /\ KnownSizes'
<1>1. MappedSizes'
  BY SMTT(30), DistinctConstants DEF Inductive, Sharers, MappedSizes,
     Unchanged, WholeMappings, mapped, TypeOK, Places, Getting, KnownSizes,
     Mmap, mapVars, offset, reading, Goto, Fresh
<1>2. KnownSizes'
  <2>1. PICK m \in Fresh : /\ file' = [file EXCEPT ![m] = want[w]]
                           /\ local' = [local EXCEPT ![w] = m]
    BY DEF Mmap
  <2>2. \A v \in Workers : /\ buf[v] \in (Mappings \cup {NoMapping}) \ {m}
                           /\ captured[v] \in (Mappings \cup {NoMapping}) \ {m}
                           /\ local[v] \in (Mappings \cup {NoMapping}) \ {m}
    BY <2>1, DistinctConstants DEF Fresh, Inductive, Sharers, TypeOK,
       BesideReference, InUse
  <2>3. m \in Mappings /\ file'[m] = want[w] /\ \A k \in Mappings \ {m} : file'[k] = file[k]
    BY <2>1 DEF Fresh, Inductive, Sharers, TypeOK
  <2>4. /\ \A v \in Workers \ {w} : pc'[v] = pc[v] /\ local'[v] = local[v]
        /\ pc[w] = "mmap" /\ pc'[w] = "unlock" /\ local'[w] = m
    BY <2>1 DEF Inductive, Sharers, TypeOK, Mmap, Goto
  <2>5. buf[w] = NoMapping
    BY DEF Inductive, Sharers, BesideReference, Places, Deleting, Mmap
  <2>6. UNCHANGED <<want, size, buf, captured, shut, version>>
    BY DEF Mmap, reading
  <2> QED
    BY <2>2, <2>3, <2>4, <2>5, <2>6 DEF Inductive, KnownSizes, Unchanged, Getting
<1> QED BY <1>1, <1>2

\* No mapping comes into use and no size changes.
LEMMA MmapFailsSizes ==
  ASSUME NEW w \in Workers, Inductive, MmapFails(w)
  PROVE  MappedSizes' /\ KnownSizes'
<1>1. MappedSizes'
  BY SMTT(30), DistinctConstants DEF Inductive, Sharers, MappedSizes,
     Unchanged, WholeMappings, mapped, TypeOK, Places, Getting, KnownSizes,
     MmapFails, mapVars, offset, reading, Goto
<1>2. KnownSizes'
  BY SMTT(30), DistinctConstants DEF Inductive, Sharers, KnownSizes,
     Unchanged, TypeOK, Places, BesideReference, DoomedAlone, WholeMappings,
     InUseIsMapped, MapNamesMapped, Getting, Deleting, InUse, mapped,
     MmapFails, mapVars, offset, reading, Goto
<1> QED BY <1>1, <1>2

\* A session that has no mapping to read from is shut.
LEMMA ReturnGetAddrSizes ==
  ASSUME NEW w \in Workers, Inductive, ReturnGetAddr(w)
  PROVE  MappedSizes' /\ KnownSizes'
<1>1. MappedSizes'
  BY SMTT(30), DistinctConstants DEF Inductive, Sharers, MappedSizes,
     Unchanged, WholeMappings, mapped, TypeOK, Places, Getting, KnownSizes,
     ReturnGetAddr, mapVars, offset, reading, Goto, Reads, ReadsNothing, ShutByError
<1>2. KnownSizes'
  BY SMTT(30), DistinctConstants DEF Inductive, Sharers, KnownSizes,
     Unchanged, TypeOK, Places, BesideReference, DoomedAlone, WholeMappings,
     InUseIsMapped, MapNamesMapped, Getting, Deleting, InUse, mapped,
     ReturnGetAddr, mapVars, offset, reading, Goto, Reads, ReadsNothing, ShutByError
<1> QED BY <1>1, <1>2

\* The callback refers to the mapping just read, or to none.
LEMMA InstallCallbackSizes ==
  ASSUME NEW w \in Workers, Inductive, InstallCallback(w)
  PROVE  MappedSizes' /\ KnownSizes'
<1>1. MappedSizes'
  BY SMTT(30), DistinctConstants DEF Inductive, Sharers, MappedSizes,
     Unchanged, WholeMappings, mapped, TypeOK, Places, Getting, KnownSizes,
     InstallCallback, mapVars, offset, reading, Goto, Reads, ReadsNothing, Drop
<1>2. KnownSizes'
  BY SMTT(60), DistinctConstants DEF Inductive, Sharers,
     KnownSizes,
     Unchanged, TypeOK, Places, BesideReference, DoomedAlone, WholeMappings,
     InUseIsMapped, MapNamesMapped, Getting, Deleting, InUse, mapped,
     InstallCallback, mapVars, offset, reading, Goto, Reads, ReadsNothing, Drop
<1> QED BY <1>1, <1>2

\* Only a session that is not shut reads, with the size of its file.
LEMMA SendPartSizes ==
  ASSUME NEW w \in Workers, Inductive, SendPart(w)
  PROVE  MappedSizes' /\ KnownSizes'
<1>1. MappedSizes'
  BY SMTT(30), DistinctConstants DEF Inductive, Sharers, MappedSizes,
     Unchanged, WholeMappings, mapped, TypeOK, Places, Getting, KnownSizes,
     SendPart, mapVars, offset, reading, Goto, Sends, Reads, ReadsNothing
<1>2. KnownSizes'
  BY SMTT(30), DistinctConstants DEF Inductive, Sharers, KnownSizes,
     Unchanged, TypeOK, Places, BesideReference, DoomedAlone, WholeMappings,
     InUseIsMapped, MapNamesMapped, Getting, Deleting, InUse, mapped,
     SendPart, mapVars, offset, reading, Goto, Sends, Reads, ReadsNothing
<1> QED BY <1>1, <1>2

\* Only a session that is not shut reads, with the size of its file.
LEMMA GuardAddrSizes ==
  ASSUME NEW w \in Workers, Inductive, GuardAddr(w)
  PROVE  MappedSizes' /\ KnownSizes'
<1>1. MappedSizes'
  BY SMTT(30), DistinctConstants DEF Inductive, Sharers, MappedSizes,
     Unchanged, WholeMappings, mapped, TypeOK, Places, Getting, KnownSizes,
     GuardAddr, mapVars, offset, reading, Goto, Sends, Reads, ReadsNothing
<1>2. KnownSizes'
  BY SMTT(30), DistinctConstants DEF Inductive, Sharers, KnownSizes,
     Unchanged, TypeOK, Places, BesideReference, DoomedAlone, WholeMappings,
     InUseIsMapped, MapNamesMapped, Getting, Deleting, InUse, mapped,
     GuardAddr, mapVars, offset, reading, Goto, Sends, Reads, ReadsNothing
<1> QED BY <1>1, <1>2

\* No mapping comes into use and no size changes.
LEMMA SetLastWriteCompleteSizes ==
  ASSUME NEW w \in Workers, Inductive, SetLastWriteComplete(w)
  PROVE  MappedSizes' /\ KnownSizes'
<1>1. MappedSizes'
  BY SMTT(30), DistinctConstants DEF Inductive, Sharers, MappedSizes,
     Unchanged, WholeMappings, mapped, TypeOK, Places, Getting, KnownSizes,
     SetLastWriteComplete, mapVars, offset, reading, Goto, Drop
<1>2. KnownSizes'
  BY SMTT(30), DistinctConstants DEF Inductive, Sharers, KnownSizes,
     Unchanged, TypeOK, Places, BesideReference, DoomedAlone, WholeMappings,
     InUseIsMapped, MapNamesMapped, Getting, Deleting, InUse, mapped,
     SetLastWriteComplete, mapVars, offset, reading, Goto, Drop
<1> QED BY <1>1, <1>2

\* No mapping comes into use and no size changes.
LEMMA SentSizes ==
  ASSUME NEW w \in Workers, Inductive, Sent(w)
  PROVE  MappedSizes' /\ KnownSizes'
<1>1. MappedSizes'
  BY SMTT(30), DistinctConstants DEF Inductive, Sharers, MappedSizes,
     Unchanged, WholeMappings, mapped, TypeOK, Places, Getting, KnownSizes,
     Sent, mapVars, offset, reading, Goto, Reads, ReadsNothing
<1>2. KnownSizes'
  BY SMTT(30), DistinctConstants DEF Inductive, Sharers, KnownSizes,
     Unchanged, TypeOK, Places, BesideReference, DoomedAlone, WholeMappings,
     InUseIsMapped, MapNamesMapped, Getting, Deleting, InUse, mapped,
     Sent, mapVars, offset, reading, Goto, Reads, ReadsNothing
<1> QED BY <1>1, <1>2

\* No mapping comes into use and no size changes.
LEMMA ReturnHandlerSizes ==
  ASSUME NEW w \in Workers, Inductive, ReturnHandler(w)
  PROVE  MappedSizes' /\ KnownSizes'
<1>1. MappedSizes'
  BY SMTT(30), DistinctConstants DEF Inductive, Sharers, MappedSizes,
     Unchanged, WholeMappings, mapped, TypeOK, Places, Getting, KnownSizes,
     ReturnHandler, mapVars, offset, reading, Goto, Drop
<1>2. KnownSizes'
  BY SMTT(30), DistinctConstants DEF Inductive, Sharers, KnownSizes,
     Unchanged, TypeOK, Places, BesideReference, DoomedAlone, WholeMappings,
     InUseIsMapped, MapNamesMapped, Getting, Deleting, InUse, mapped,
     ReturnHandler, mapVars, offset, reading, Goto, Drop
<1> QED BY <1>1, <1>2

\* No mapping comes into use and no size changes.
LEMMA DisconnectSizes ==
  ASSUME NEW w \in Workers, Inductive, Disconnect(w)
  PROVE  MappedSizes' /\ KnownSizes'
<1>1. MappedSizes'
  BY SMTT(30), DistinctConstants DEF Inductive, Sharers, MappedSizes,
     Unchanged, WholeMappings, mapped, TypeOK, Places, Getting, KnownSizes,
     Disconnect, mapVars, offset, reading, Goto, Drop
<1>2. KnownSizes'
  BY SMTT(30), DistinctConstants DEF Inductive, Sharers, KnownSizes,
     Unchanged, TypeOK, Places, BesideReference, DoomedAlone, WholeMappings,
     InUseIsMapped, MapNamesMapped, Getting, Deleting, InUse, mapped,
     Disconnect, mapVars, offset, reading, Goto, Drop
<1> QED BY <1>1, <1>2

\* No mapping comes into use and no size changes.
LEMMA LockDeleterSizes ==
  ASSUME NEW w \in Workers, Inductive, LockDeleter(w)
  PROVE  MappedSizes' /\ KnownSizes'
<1>1. MappedSizes'
  BY SMTT(30), DistinctConstants DEF Inductive, Sharers, MappedSizes,
     Unchanged, WholeMappings, mapped, TypeOK, Places, Getting, KnownSizes,
     LockDeleter, mapVars, offset, reading, Goto
<1>2. KnownSizes'
  BY SMTT(30), DistinctConstants DEF Inductive, Sharers, KnownSizes,
     Unchanged, TypeOK, Places, BesideReference, DoomedAlone, WholeMappings,
     InUseIsMapped, MapNamesMapped, Getting, Deleting, InUse, mapped,
     LockDeleter, mapVars, offset, reading, Goto
<1> QED BY <1>1, <1>2

\* No mapping comes into use and no size changes.
LEMMA EraseSizes ==
  ASSUME NEW w \in Workers, Inductive, Erase(w)
  PROVE  MappedSizes' /\ KnownSizes'
<1>1. MappedSizes'
  BY SMTT(30), DistinctConstants DEF Inductive, Sharers, MappedSizes,
     Unchanged, WholeMappings, mapped, TypeOK, Places, Getting, KnownSizes,
     Erase, mapVars, offset, reading, Goto, Erases, Expired
<1>2. KnownSizes'
  BY SMTT(30), DistinctConstants DEF Inductive, Sharers, KnownSizes,
     Unchanged, TypeOK, Places, BesideReference, DoomedAlone, WholeMappings,
     InUseIsMapped, MapNamesMapped, Getting, Deleting, InUse, mapped, Erase,
     mapVars, offset, reading, Goto, Erases, Expired
<1> QED BY <1>1, <1>2

\* The other mappings keep their extents.
LEMMA MunmapSizes ==
  ASSUME NEW w \in Workers, Inductive, Munmap(w)
  PROVE  MappedSizes' /\ KnownSizes'
<1>1. MappedSizes'
  BY SMTT(30), DistinctConstants DEF Inductive, Sharers, MappedSizes,
     Unchanged, WholeMappings, mapped, TypeOK, Places, Getting, KnownSizes,
     Munmap, mapVars, offset, reading, Goto, Unmaps
<1>2. KnownSizes'
  <2>1. /\ doomed[w] \in Mappings
        /\ \A v \in Workers : buf[v] # doomed[w] /\ captured[v] # doomed[w] /\ local[v] # doomed[w]
    BY DistinctConstants DEF Inductive, Sharers, TypeOK, Places, BesideReference,
       DoomedAlone, Deleting, InUse, Munmap
  <2>2. \A m \in Mappings \ {doomed[w]} : file'[m] = file[m]
    BY DEF Inductive, Sharers, TypeOK, Munmap
  <2>3. /\ \A v \in Workers \ {w} : pc'[v] = pc[v]
        /\ pc[w] \notin Getting \cup {"serve"} /\ pc'[w] \notin Getting \cup {"serve"}
    BY DEF Inductive, Sharers, TypeOK, Getting, Munmap, Goto
  <2>4. UNCHANGED <<want, size, local, buf, captured, shut, version>>
    BY DEF Munmap, reading
  <2>5. \A v \in Workers : /\ buf[v] \in Mappings \cup {NoMapping}
                           /\ captured[v] \in Mappings \cup {NoMapping}
                           /\ local[v] \in Mappings \cup {NoMapping}
    BY DEF Inductive, Sharers, TypeOK
  <2> QED
    BY <2>1, <2>2, <2>3, <2>4, <2>5 DEF Inductive, KnownSizes, Unchanged, Getting
<1> QED BY <1>1, <1>2

\* What has been changed makes no promise any more.
LEMMA ChangeFileSizes ==
  ASSUME NEW p \in Paths, Inductive, ChangeFile(p)
  PROVE  MappedSizes' /\ KnownSizes'
<1>1. MappedSizes'
  BY SMTT(30), DistinctConstants DEF Inductive, Sharers, MappedSizes,
     Unchanged, WholeMappings, mapped, TypeOK, Places, Getting, KnownSizes,
     ChangeFile, mapVars, offset, reading
<1>2. KnownSizes'
  BY SMTT(30), DistinctConstants DEF Inductive, Sharers, KnownSizes,
     Unchanged, TypeOK, Places, BesideReference, DoomedAlone, WholeMappings,
     InUseIsMapped, MapNamesMapped, Getting, Deleting, InUse, mapped,
     ChangeFile, mapVars, offset, reading
<1> QED BY <1>1, <1>2

-----------------------------------------------------------------------------
(* Offsets                                                                 *)

\* A rest that is not negative does not wrap.
LEMMA SmallRest ==
  ASSUME NEW a \in Nat, a < WordSize
  PROVE  a % WordSize = a
  BY SizesAssumption

\* An action that neither asks for a file, nor reads, nor counts, nor installs a
\* callback leaves the offsets as they are.
LEMMA OffsetsUntouched ==
  ASSUME Inductive, UNCHANGED <<size, offset, reading, shut>>,
         \A w \in Workers : /\ captured'[w] \in {captured[w], NoMapping}
                            /\ pc[w] \in Getting \cup {"serve"}
                                 => pc'[w] \in Getting \cup {"serve"}
                            /\ pc'[w] = "serve" => pc[w] = "serve"
  PROVE  Offsets'
  BY DEF Inductive, Offsets, offset, reading

\* Nothing is read and nothing counted when the server starts.
LEMMA InitOffsets == Init => Offsets
<1>1. 0 < WordSize
  BY SizesAssumption
<1> QED
  BY <1>1 DEF Init, Offsets

\* The parts of a file follow each other within it.
LEMMA OffsetsStay ==
  ASSUME Inductive, Next
  PROVE  Offsets'
<1> USE DEF offset, reading, Goto
<1>0. Sharers /\ TypeOK /\ Offsets
  BY DEF Inductive, Sharers
<1>w. 0 < WordSize
  BY SizesAssumption
<1>1. ASSUME NEW w \in Workers, NEW p \in Paths, CallGetAddr(w, p) PROVE Offsets'
  <2>1. size'[w] < WordSize
    <3>1. SizesOf[p] \in Seq(Nat) /\ version[p] \in 1..Len(SizesOf[p])
      BY <1>0, SizesAssumption DEF Sharers, VersionsExist
    <3> QED BY <1>0, <1>1, <3>1, SizesAssumption DEF TypeOK, CallGetAddr
  <2>2. buf[w] = NoMapping
    BY <1>0, <1>1 DEF Sharers, BesideReference, Deleting, CallGetAddr
  <2> QED
    BY <1>0, <1>1, <2>1, <2>2 DEF TypeOK, Offsets, CallGetAddr, Getting
<1>2. ASSUME NEW w \in Workers, ReturnGetAddr(w) PROVE Offsets'
  <2>1. FirstPart(w) <= size[w]
    BY <1>0, SizesAssumption DEF TypeOK, FirstPart
  <2>2. CASE local[w] = NoMapping
    BY <1>0, <1>2, <2>2 DEF TypeOK, Offsets, ReturnGetAddr, Reads, ReadsNothing,
                            ShutByError, Getting
  <2>3. CASE local[w] # NoMapping
    BY <1>0, <1>2, <2>1, <2>3 DEF TypeOK, Offsets, ReturnGetAddr, Reads, Getting
  <2> QED BY <2>2, <2>3
<1>3. ASSUME NEW w \in Workers, InstallCallback(w) PROVE Offsets'
  <2>1. /\ UNCHANGED <<size, shut>>
        /\ buf' = [buf EXCEPT ![w] = NoMapping] /\ upto' = [upto EXCEPT ![w] = 0]
        /\ \A v \in Workers \ {w} : /\ pc'[v] = pc[v] /\ captured'[v] = captured[v]
                                    /\ fresh'[v] = fresh[v]
                                    /\ cache_filesize_'[v] = cache_filesize_[v]
    BY <1>0, <1>3 DEF TypeOK, InstallCallback, ReadsNothing, Reads, Drop
  <2>2. captured'[w] # NoMapping /\ fresh'[w] => cache_filesize_'[w] < size[w]
    <3>1. FirstPart(w) \in Nat
      BY <1>0, SizesAssumption DEF TypeOK, FirstPart
    <3>2. CASE /\ FirstPart(w) < size[w]
               /\ cache_filesize_' = [cache_filesize_ EXCEPT ![w] = @ + FirstPart(w)]
      <4>1. fresh'[w] => cache_filesize_[w] = 0
        BY <1>0, <1>3 DEF TypeOK, InstallCallback
      <4> QED BY <1>0, <3>1, <3>2, <4>1 DEF TypeOK
    <3>3. CASE captured' = [captured EXCEPT ![w] = NoMapping]
      BY <1>0, <3>3 DEF TypeOK
    <3> QED BY <1>3, <3>2, <3>3 DEF InstallCallback
  <2>3. buf'[w] = NoMapping
    BY <1>0, <2>1 DEF TypeOK
  <2> QED
    BY <1>0, <2>1, <2>2, <2>3 DEF TypeOK, Offsets
<1>4. ASSUME NEW w \in Workers, SendPart(w) \/ GuardAddr(w) PROVE Offsets'
  <2>1. /\ UNCHANGED <<size, fresh, captured, shut>>
        /\ pc[w] = "idle" /\ captured[w] # NoMapping /\ pc'[w] # "serve"
        /\ \A v \in Workers \ {w} : /\ pc'[v] = pc[v] /\ buf'[v] = buf[v] /\ upto'[v] = upto[v]
                                    /\ cache_filesize_'[v] = cache_filesize_[v]
    BY <1>0, <1>4 DEF TypeOK, SendPart, GuardAddr, Sends, ReadsNothing, Reads
  <2>2. ASSUME fresh[w], w \notin shut
        PROVE  cache_filesize_'[w] < size[w] /\ upto'[w] <= size[w]
    <3>1. cache_filesize_[w] < size[w] /\ size[w] < WordSize
      BY <1>0, <2>1, <2>2 DEF Offsets, Getting
    <3>a. size[w] - cache_filesize_[w] \in Nat /\ size[w] - cache_filesize_[w] < WordSize
      BY <1>0, <3>1, SizesAssumption DEF TypeOK
    <3>2. Left(w) = size[w] - cache_filesize_[w]
      BY <3>a, SmallRest DEF Left
    <3>3. CASE SendPart(w)
      BY <1>0, <2>2, <3>1, <3>2, <3>3, SizesAssumption DEF TypeOK, SendPart,
         Sends, Reads
    <3>4. CASE GuardAddr(w)
      BY <1>0, <2>2, <3>1, <3>2, <3>4, SizesAssumption DEF TypeOK, GuardAddr,
         Sends, Reads
    <3> QED BY <1>4, <3>3, <3>4
  <2>3. w \in shut => buf'[w] = NoMapping
    BY <1>0, <1>4 DEF TypeOK, SendPart, GuardAddr, Sends, ReadsNothing, Reads
  <2> QED
    BY <1>0, <2>1, <2>2, <2>3 DEF TypeOK, Offsets
<1>5. ASSUME NEW w \in Workers, Sent(w) PROVE Offsets'
  BY <1>0, <1>5 DEF TypeOK, Offsets, Sent, ReadsNothing, Reads, Getting
<1>6. ASSUME NEW w \in Workers, Disconnect(w) PROVE Offsets'
  <2>1. /\ size'[w] = 0 /\ captured'[w] = NoMapping /\ UNCHANGED reading
        /\ \A v \in Workers \ {w} : /\ pc'[v] = pc[v] /\ captured'[v] = captured[v]
                                    /\ size'[v] = size[v] /\ fresh'[v] = fresh[v]
                                    /\ cache_filesize_'[v] = cache_filesize_[v]
                                    /\ v \in shut' <=> v \in shut
    BY <1>0, <1>6 DEF TypeOK, Disconnect, Drop
  <2>2. buf[w] = NoMapping
    BY <1>0, <1>6 DEF Sharers, BesideReference, Deleting, Disconnect
  <2>3. buf'[w] = NoMapping
    BY <2>1, <2>2
  <2> QED
    BY <1>0, <1>w, <2>1, <2>3 DEF TypeOK, Offsets
<1>7. ASSUME NEW w \in Workers,
             \/ LockGetAddr(w) \/ Find(w) \/ OpenFile(w) \/ Mmap(w) \/ MmapFails(w)
             \/ LockDeleter(w) \/ Erase(w)
      PROVE  Offsets'
  <2>1. /\ UNCHANGED <<size, offset, reading, shut, captured>>
        /\ \A v \in Workers \ {w} : pc'[v] = pc[v]
        /\ pc[w] \in Getting \cup {"serve"} <=> pc'[w] \in Getting \cup {"serve"}
        /\ pc'[w] # "serve"
    BY <1>0, <1>7 DEF TypeOK, LockGetAddr, Find, OpenFile, Mmap, MmapFails,
       LockDeleter,
                      Erase, Getting
  <2> QED
    BY <2>1, OffsetsUntouched
<1>8. ASSUME NEW w \in Workers,
SetLastWriteComplete(w) \/ ReturnHandler(w) \/ Munmap(w)
      PROVE  Offsets'
  <2>1. /\ UNCHANGED <<size, offset, reading, shut>>
        /\ \A v \in Workers : captured'[v] \in {captured[v], NoMapping}
        /\ \A v \in Workers \ {w} : pc'[v] = pc[v]
        /\ pc[w] \notin Getting \cup {"serve"} /\ pc'[w] # "serve"
    BY <1>0, <1>8 DEF TypeOK, SetLastWriteComplete, ReturnHandler, Munmap, Drop,
       Getting
  <2> QED
    BY <2>1, OffsetsUntouched
<1>9. ASSUME NEW p \in Paths, ChangeFile(p) PROVE Offsets'
  <2>1. UNCHANGED <<size, offset, reading, shut, captured, pc>>
    BY <1>9 DEF ChangeFile
  <2> QED
    BY <2>1, OffsetsUntouched
<1> QED
  BY <1>1, <1>2, <1>3, <1>4, <1>5, <1>6, <1>7, <1>8, <1>9 DEF Next, Step

-----------------------------------------------------------------------------
(* The theorems                                                            *)

\* The invariant holds in every reachable state.
THEOREM InductiveHolds == Spec => []Inductive
<1>1. Init => Inductive
  BY InitSharers, InitSizes, InitOffsets DEF Inductive
<1>2. Inductive /\ [Next]_vars => Inductive'
  <2> SUFFICES ASSUME Inductive, [Next]_vars PROVE Inductive'
    OBVIOUS
  <2> DEFINE SharersKept == Sharers' /\ MappedSizes' /\ KnownSizes'
  <2>1. CASE UNCHANGED vars
    BY <2>1 DEF vars, Inductive, Sharers, TypeOK, MutexHeld, Places,
       BesideReference,
       StillExpired, DoomedAlone, Unnamed, WholeMappings, InUseIsMapped,
       LiveIsCached,
       MapNamesMapped, MappedHasOwner, VersionsExist, MappedSizes, KnownSizes,
       Offsets,
       Unchanged, InUse, Expired, mapped, offset, reading, mapVars
  <2>2. ASSUME NEW w \in Workers, NEW p \in Paths, CallGetAddr(w,
  p) PROVE SharersKept
    BY <2>2, CallGetAddrSharers, CallGetAddrSizes DEF Inductive
  <2>3. ASSUME NEW w \in Workers, SendPart(w) \/ GuardAddr(w) \/ Disconnect(w)
         PROVE  SharersKept
    BY <2>3, SendPartSharers, SendPartSizes, GuardAddrSharers, GuardAddrSizes,
       DisconnectSharers, DisconnectSizes
       DEF Inductive
  <2>4. ASSUME NEW w \in Workers, Step(w) PROVE SharersKept
    <3>1. Sharers'
      BY <2>4, LockGetAddrSharers, FindSharers, OpenFileSharers, MmapSharers,
         MmapFailsSharers, ReturnGetAddrSharers, InstallCallbackSharers,
         SetLastWriteCompleteSharers, SentSharers, ReturnHandlerSharers,
         LockDeleterSharers, EraseSharers, MunmapSharers DEF Step, Inductive
    <3>2. MappedSizes' /\ KnownSizes'
      BY <2>4, LockGetAddrSizes, FindSizes, OpenFileSizes, MmapSizes,
         MmapFailsSizes,
         ReturnGetAddrSizes, InstallCallbackSizes, SetLastWriteCompleteSizes,
         SentSizes, ReturnHandlerSizes, LockDeleterSizes, EraseSizes, MunmapSizes
         DEF Step
    <3> QED
      BY <3>1, <3>2
  <2>5. ASSUME NEW p \in Paths, ChangeFile(p) PROVE SharersKept
    BY <2>5, ChangeFileSharers, ChangeFileSizes DEF Inductive
  <2>6. ASSUME Next PROVE SharersKept
    BY <2>2, <2>3, <2>4, <2>5, <2>6 DEF Next
  <2> QED
    BY <2>1, <2>6, OffsetsStay DEF Inductive
<1> QED
  BY <1>1, <1>2, PTL DEF Spec

\* Every variable keeps its type.
THEOREM TypeCorrect == Spec => []TypeOK
<1>1. Inductive => TypeOK
  BY DEF Inductive, Sharers
<1> QED
  BY <1>1, InductiveHolds, PTL

\* A raw pointer that is read from points to what is mapped.
THEOREM ReadsStayMapped == Spec => []ReadsAreMapped
<1>1. Inductive => ReadsAreMapped
  BY DEF Inductive, Sharers, TypeOK, ReadsAreMapped, BesideReference,
     InUseIsMapped, InUse
<1> QED
  BY <1>1, InductiveHolds, PTL

\* Unless a file is changed, no first part, and no later part of a transfer that began
\* with cache_filesize_ at zero, reads further than it is mapped, although the length
\* that is read and the length that is mapped come from two calls of stat().
THEOREM ReadsFit == Spec => []ReadsFitUnlessChanged
<1>1. Inductive => ReadsFitUnlessChanged
  <2> SUFFICES ASSUME Inductive, NEW w \in Workers,
                      buf[w] # NoMapping, version[file[buf[w]]] = 1,
                      fresh[w] \/ pc[w] = "serve"
               PROVE  upto[w] <= extent[buf[w]]
    BY DEF ReadsFitUnlessChanged
  <2>1. buf[w] \in mapped
    BY DEF Inductive, Sharers, TypeOK, BesideReference, InUseIsMapped, InUse
  <2>2. extent[buf[w]] = size[w]
    BY <2>1 DEF Inductive, MappedSizes, KnownSizes, Unchanged
  <2>3. upto[w] <= size[w]
    BY DEF Inductive, Offsets
  <2> QED
    BY <2>2, <2>3
<1> QED
  BY <1>1, InductiveHolds, PTL

\* What is mapped and not used has exactly one deleter.
THEOREM OneDeleter == Spec => []MappedIsOwned
<1>1. Inductive => MappedIsOwned
  <2> SUFFICES ASSUME Inductive, NEW m \in mapped \ InUse
               PROVE  \E w \in Workers : /\ doomed[w] = m
                                         /\ \A v \in Workers \ {w} : doomed[v] # m
    BY DEF MappedIsOwned
  <2>1. PICK w \in Workers : doomed[w] = m
    BY DEF Inductive, Sharers, MappedHasOwner
  <2>2. \A v \in Workers \ {w} : doomed[v] # m
    BY <2>1 DEF Inductive, Sharers, DoomedAlone, mapped
  <2> QED
    BY <2>1, <2>2
<1> QED
  BY <1>1, InductiveHolds, PTL

\* GetAddr() leaves no descriptor behind on any of its ways out.
THEOREM NoDescriptorIsLeft == Spec => []DescriptorsAreClosed
<1>1. Inductive => DescriptorsAreClosed
  BY DEF Inductive, Sharers, DescriptorsAreClosed, Places, MutexHeld, Critical
<1> QED
  BY <1>1, InductiveHolds, PTL

-----------------------------------------------------------------------------
(* AddrCache implements FileSharing, with mappings for handles             *)

\* A step of the cache is a step of FileSharing or leaves its variables alone.
LEMMA StepImplements ==
  ASSUME Inductive, Next
  PROVE  [Sharing!Next]_(Sharing!fsVars)
<1> USE DEF Sharing!fsVars, Sharing!InUse, InUse, mapVars
\* A reference from the map is one that is in use for the path.
<1>1. ASSUME NEW w \in Workers, Find(w)
      PROVE  UNCHANGED Sharing!fsVars \/ Sharing!Share(w, want[w])
  <2> DEFINE wptr == IF addr_map_[want[w]] = NoEntry THEN NoMapping ELSE addr_map_[want[w]]
  <2>1. /\ want[w] \in Paths /\ local[w] = NoMapping
        /\ local' = [local EXCEPT ![w] = Lock(wptr)]
        /\ UNCHANGED <<captured, file, extent>>
    BY <1>1 DEF Find, Inductive, Sharers, Places, Getting
  <2>2. mapped' = mapped
    BY <2>1 DEF mapped
  <2>3. CASE wptr \in InUse
    <3>1. wptr = addr_map_[want[w]] /\ wptr \in Mappings
      BY <2>3, DistinctConstants
    <3>2. file[wptr] = want[w]
      BY <2>1, <3>1 DEF Inductive, Sharers, MapNamesMapped
    <3> QED
      BY <2>1, <2>2, <2>3, <3>2 DEF Lock, Expired, Sharing!Share
  <2>4. CASE wptr \notin InUse
    <3>1. local' = local
      BY <2>1, <2>4 DEF Lock, Expired, Inductive, Sharers, TypeOK
    <3> QED
      BY <2>1, <2>2, <3>1
  <2> QED
    BY <2>3, <2>4
\* A file is mapped when its entry has expired, so when nobody uses it.
<1>2. ASSUME NEW w \in Workers, Mmap(w)
      PROVE  Sharing!OpenFresh(w, want[w])
  <2>1. /\ local[w] = NoMapping /\ want[w] \in Paths
        /\ \A m \in InUse : file[m] # want[w]
    BY <1>2 DEF Mmap, Expired, Inductive, Sharers, Places, Getting, StillExpired,
                LiveIsCached
  <2>2. PICK m \in Fresh : /\ file' = [file EXCEPT ![m] = want[w]]
                           /\ extent' = [extent EXCEPT ![m] = size[w]]
                           /\ local' = [local EXCEPT ![w] = m]
    BY <1>2 DEF Mmap
  <2>3. m \in Mappings \ mapped /\ mapped' = mapped \cup {m}
    BY <1>2, <2>2 DEF Mmap, Fresh, Inductive, Sharers, TypeOK, mapped
  <2>4. UNCHANGED captured
    BY <1>2 DEF Mmap
  <2> QED
    BY <2>1, <2>2, <2>3, <2>4 DEF Sharing!OpenFresh
\* The callback keeps the mapping that the handler has, or none.
<1>3. ASSUME NEW w \in Workers, InstallCallback(w)
      PROVE  Sharing!Install(w) \/ Sharing!Forget(w)
  BY <1>3 DEF InstallCallback, mapped, Sharing!Install, Sharing!Forget
\* The guard shares what the callback has.
<1>4. ASSUME NEW w \in Workers, GuardAddr(w)
      PROVE  \E p \in Paths : Sharing!Share(w, p)
  <2>1. captured[w] \in InUse /\ file[captured[w]] \in Paths
    BY <1>4 DEF GuardAddr, Inductive, Sharers, TypeOK, WholeMappings, InUseIsMapped
  <2>2. local[w] = NoMapping /\ UNCHANGED <<captured, file, mapped>>
    BY <1>4 DEF GuardAddr, Inductive, Sharers, Places, mapped
  <2>3. Sharing!Share(w, file[captured[w]])
    BY <1>4, <2>1, <2>2 DEF GuardAddr, Sharing!Share
  <2> QED
    BY <2>1, <2>3
<1>5. ASSUME NEW w \in Workers, SetLastWriteComplete(w) \/ Disconnect(w)
      PROVE  Sharing!Forget(w)
  BY <1>5 DEF SetLastWriteComplete, Disconnect, mapped, Sharing!Forget
<1>6. ASSUME NEW w \in Workers, ReturnHandler(w)
      PROVE  Sharing!Return(w)
  BY <1>6 DEF ReturnHandler, mapped, Sharing!Return
\* A deleter unmaps its own mapping, which nobody uses, and all of it.
<1>7. ASSUME NEW w \in Workers, Munmap(w)
      PROVE  doomed[w] \in Mappings /\ Sharing!Close(doomed[w])
  <2>1. doomed[w] \in mapped \ InUse
    BY <1>7 DEF Munmap, Inductive, Sharers, Places, Deleting, DoomedAlone
  <2>2. mapped' = mapped \ {doomed[w]}
    BY <1>7, <2>1 DEF Munmap, Unmaps, Inductive, Sharers, TypeOK, WholeMappings,
       mapped
  <2>3. file' = [file EXCEPT ![doomed[w]] = NoPath] /\ UNCHANGED <<local, captured>>
    BY <1>7 DEF Munmap
  <2> QED
    BY <2>1, <2>2, <2>3 DEF Sharing!Close, mapped
\* What else a worker does touches neither its references nor what is mapped.
<1>8. ASSUME NEW w \in Workers,
             \/ LockGetAddr(w) \/ OpenFile(w) \/ MmapFails(w) \/ ReturnGetAddr(w)
             \/ SendPart(w) \/ Sent(w) \/ LockDeleter(w) \/ Erase(w)
      PROVE  UNCHANGED Sharing!fsVars
  BY <1>8 DEF LockGetAddr, OpenFile, MmapFails, ReturnGetAddr, SendPart, Sent,
              LockDeleter, Erase, mapped
<1>9. ASSUME NEW w \in Workers, Step(w)
      PROVE  [Sharing!Next]_(Sharing!fsVars)
  <2>1. CASE Find(w)
    <3>1. want[w] \in Paths
      BY <2>1 DEF Find, Inductive, Sharers, Places, Getting
    <3> QED BY <2>1, <3>1, <1>1 DEF Sharing!Next
  <2>2. CASE Mmap(w)
    <3>1. want[w] \in Paths
      BY <2>2 DEF Mmap, Inductive, Sharers, Places, Getting
    <3> QED BY <2>2, <3>1, <1>2 DEF Sharing!Next
  <2> QED
    BY <1>9, <2>1, <2>2, <1>3, <1>5, <1>6, <1>7, <1>8 DEF Step, Sharing!Next
<1>10. ASSUME NEW w \in Workers, NEW p \in Paths, CallGetAddr(w, p)
       PROVE  UNCHANGED Sharing!fsVars
  BY <1>10 DEF CallGetAddr, mapped
<1>11. ASSUME NEW p \in Paths, ChangeFile(p)
       PROVE  UNCHANGED Sharing!fsVars
  BY <1>11 DEF ChangeFile, mapped
<1> QED
  BY <1>4, <1>5, <1>8, <1>9, <1>10, <1>11 DEF Next, Sharing!Next

\* The mapping cache shares files as the descriptor cache does: one mapping per path
\* for all who use it at a time, unmapped only when nobody does.
THEOREM ImplementsSharing == Spec => SharesMappings
<1>1. Init => Sharing!Init
  BY DEF Init, Sharing!Init, mapped
<1>2. Inductive /\ [Next]_vars => [Sharing!Next]_(Sharing!fsVars)
  <2> SUFFICES ASSUME Inductive, [Next]_vars PROVE [Sharing!Next]_(Sharing!fsVars)
    OBVIOUS
  <2>1. CASE Next
    BY <2>1, StepImplements
  <2>2. CASE UNCHANGED vars
    BY <2>2 DEF vars, mapVars, Sharing!fsVars, mapped
  <2> QED
    BY <2>1, <2>2
<1> QED
  BY <1>1, <1>2, InductiveHolds, PTL DEF Spec, SharesMappings, Sharing!Spec
=============================================================================
