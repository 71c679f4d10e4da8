--------------------------- MODULE FdCacheProofs ---------------------------
(***************************************************************************)
(* Proofs about FdCache for every set of workers, paths and handles: the   *)
(* invariants its runs check, and that it implements FileSharing.          *)
(*                                                                         *)
(* The invariants are not inductive as they stand.  They hold because a    *)
(* thread touches the map only between taking and releasing the mutex,     *)
(* because in that time no handle can come into use but through that       *)
(* thread, and because a doomed handle stays out of use until its deleter  *)
(* has closed it.  Inductive says so.                                      *)
(***************************************************************************)
EXTENDS FdCache, TLAPS

Critical == {"find", "open", "unlock", "erase", "close"}
Deleting == {"del", "erase", "close"}

\* The mutex is held by the worker in a critical section, so by at most one.
MutexHeld == \A w \in Workers : pc[w] \in Critical <=> mutex_ = w

\* What a worker's place in the code says of its variables.
Places ==
  \A w \in Workers :
    /\ pc[w] \in {"get", "find", "open", "unlock"} => want[w] \in Paths
    /\ pc[w] \in {"idle", "get", "find", "open"} => local[w] = NoHandle
    /\ pc[w] \in Deleting /\ then[w] = "idle" => local[w] = NoHandle
    /\ pc[w] \in Deleting <=> doomed[w] \in Handles

\* A thread about to open() a path does so because its entry has expired.
StillExpired == \A w \in Workers : pc[w] = "open" => Expired(fd_map_[want[w]])

\* A doomed handle is open, out of use, and has one deleter.
DoomedAlone ==
  \A w \in Workers : doomed[w] \in Handles =>
    /\ doomed[w] \in open \ InUse
    /\ \A v \in Workers \ {w} : doomed[v] # doomed[w]

\* A handle about to be closed is no longer in the map.
Unnamed == \A w \in Workers : pc[w] = "close" =>
              \A p \in Paths : fd_map_[p] # doomed[w]

FileOfOpen == \A h \in Handles : h \in open <=> file[h] \in Paths

OpenHasOwner == \A h \in open \ InUse : \E w \in Workers : doomed[w] = h

Inductive == /\ TypeOK /\ MutexHeld /\ Places
             /\ StillExpired /\ DoomedAlone /\ Unnamed /\ FileOfOpen
             /\ HeldHandlesOpen /\ LiveHandleIsCached
             /\ MapNeverNamesClosed /\ OpenHasOwner

-----------------------------------------------------------------------------
(* The invariant is inductive: one lemma per action                        *)

\* The invariant holds when the server starts: nothing is cached or open.
LEMMA InitInductive == Init => Inductive
  BY DistinctConstants DEF Init, Inductive, TypeOK, MutexHeld, Places, StillExpired,
     DoomedAlone, Unnamed, FileOfOpen, HeldHandlesOpen, LiveHandleIsCached,
     MapNeverNamesClosed, OpenHasOwner, InUse, Critical, Deleting

\* A call of GetFd() moves the caller to the mutex and changes nothing shared.
LEMMA CallGetFdInductive ==
  ASSUME NEW w \in Workers, NEW p \in Paths, Inductive, CallGetFd(w, p)
  PROVE  Inductive'
<1>1. TypeOK'
  BY DEF Inductive, TypeOK, CallGetFd, Goto
<1>2. MutexHeld' /\ Places'
  BY DEF Inductive, TypeOK, MutexHeld, Places, CallGetFd, Goto, Critical,
     Deleting
<1>3. StillExpired'
  BY DEF Inductive, StillExpired, CallGetFd, Goto, Expired, InUse
<1>4. DoomedAlone' /\ Unnamed'
  BY DEF Inductive, DoomedAlone, Unnamed, CallGetFd, Goto, InUse
<1>5. FileOfOpen' /\ HeldHandlesOpen' /\ OpenHasOwner'
  BY DEF Inductive, FileOfOpen, HeldHandlesOpen, OpenHasOwner, CallGetFd,
     InUse
<1>6. LiveHandleIsCached' /\ MapNeverNamesClosed'
  BY DEF Inductive, LiveHandleIsCached, MapNeverNamesClosed, CallGetFd, InUse
<1> QED BY <1>1, <1>2, <1>3, <1>4, <1>5, <1>6 DEF Inductive

\* Taking the mutex keeps the invariant: it was free, so nobody else is inside.
LEMMA LockGetFdInductive ==
  ASSUME NEW w \in Workers, Inductive, LockGetFd(w)
  PROVE  Inductive'
<1>1. TypeOK'
  BY DEF Inductive, TypeOK, LockGetFd, Goto
<1>2. MutexHeld' /\ Places'
  BY DistinctConstants DEF Inductive, TypeOK, MutexHeld, Places, LockGetFd,
     Goto, Critical, Deleting
<1>3. StillExpired'
  BY DEF Inductive, StillExpired, LockGetFd, Goto, Expired, InUse
<1>4. DoomedAlone' /\ Unnamed'
  BY DEF Inductive, DoomedAlone, Unnamed, LockGetFd, Goto, InUse
<1>5. FileOfOpen' /\ HeldHandlesOpen' /\ OpenHasOwner'
  BY DEF Inductive, FileOfOpen, HeldHandlesOpen, OpenHasOwner, LockGetFd,
     InUse
<1>6. LiveHandleIsCached' /\ MapNeverNamesClosed'
  BY DEF Inductive, LiveHandleIsCached, MapNeverNamesClosed, LockGetFd, InUse
<1> QED BY <1>1, <1>2, <1>3, <1>4, <1>5, <1>6 DEF Inductive

\* Taking a reference from the map keeps the invariant: only a handle that is
\* in use already gets another user, so no doomed handle comes back.
LEMMA FindInductive ==
  ASSUME NEW w \in Workers, Inductive, Find(w)
  PROVE  Inductive'
<1>1. TypeOK'
  BY DEF Inductive, TypeOK, Find, Goto, Expired, InUse, Lock
<1>2. MutexHeld' /\ Places'
  BY DEF Inductive, TypeOK, MutexHeld, Places, Find, Goto, Critical, Deleting
<1>3. StillExpired'
  BY DistinctConstants DEF Inductive, StillExpired, Find, Goto, Expired,
     InUse, Lock
<1>4. DoomedAlone' /\ Unnamed'
  BY DEF Inductive, Places, DoomedAlone, Unnamed, Find, Goto, Deleting,
     Expired, InUse, Lock
<1>5. FileOfOpen' /\ HeldHandlesOpen' /\ OpenHasOwner'
  BY DistinctConstants DEF Inductive, Places, FileOfOpen, HeldHandlesOpen,
     OpenHasOwner, Find, Expired, InUse, Lock
<1>6. LiveHandleIsCached' /\ MapNeverNamesClosed'
  BY DistinctConstants DEF Inductive, LiveHandleIsCached, MapNeverNamesClosed,
     Find, Expired, InUse, Lock
<1> QED BY <1>1, <1>2, <1>3, <1>4, <1>5, <1>6 DEF Inductive

\* Publishing a new handle keeps the invariant: the entry it replaces has
\* expired, and nothing refers to the new handle yet.
LEMMA OpenInductive ==
  ASSUME NEW w \in Workers, Inductive, Open(w)
  PROVE  Inductive'
<1>1. TypeOK'
  BY DEF Inductive, TypeOK, Places, Open, Goto, Fresh
<1>2. MutexHeld' /\ Places'
  BY DEF Inductive, TypeOK, MutexHeld, Places, Open, Goto, Critical, Deleting
<1>3. StillExpired'
  BY DEF Inductive, TypeOK, MutexHeld, StillExpired, Open, Goto, Critical
<1>4. DoomedAlone' /\ Unnamed'
  BY DEF Inductive, DoomedAlone, Unnamed, Open, Goto, InUse, Fresh
<1>5. FileOfOpen' /\ HeldHandlesOpen' /\ OpenHasOwner'
  BY DistinctConstants DEF Inductive, TypeOK, Places, FileOfOpen,
     HeldHandlesOpen, OpenHasOwner, Open, InUse, Fresh
<1>6. LiveHandleIsCached' /\ MapNeverNamesClosed'
  BY DEF Inductive, TypeOK, Places, StillExpired, LiveHandleIsCached,
     MapNeverNamesClosed, Open, Expired, InUse, Fresh
<1> QED BY <1>1, <1>2, <1>3, <1>4, <1>5, <1>6 DEF Inductive

\* A failed open() leaves everything but the caller's place as it was.
LEMMA OpenFailsInductive ==
  ASSUME NEW w \in Workers, Inductive, OpenFails(w)
  PROVE  Inductive'
<1>1. TypeOK'
  BY DEF Inductive, TypeOK, OpenFails, Goto
<1>2. MutexHeld' /\ Places'
  BY DEF Inductive, MutexHeld, Places, OpenFails, Goto, Critical, Deleting
<1>3. StillExpired'
  BY DEF Inductive, StillExpired, OpenFails, Goto, Expired, InUse
<1>4. DoomedAlone' /\ Unnamed'
  BY DEF Inductive, DoomedAlone, Unnamed, OpenFails, Goto, InUse
<1>5. FileOfOpen' /\ HeldHandlesOpen' /\ OpenHasOwner'
  BY DEF Inductive, FileOfOpen, HeldHandlesOpen, OpenHasOwner, OpenFails,
     InUse
<1>6. LiveHandleIsCached' /\ MapNeverNamesClosed'
  BY DEF Inductive, LiveHandleIsCached, MapNeverNamesClosed, OpenFails, InUse
<1> QED BY <1>1, <1>2, <1>3, <1>4, <1>5, <1>6 DEF Inductive

\* Leaving GetFd() releases the mutex for nobody but its holder.
LEMMA ReturnGetFdInductive ==
  ASSUME NEW w \in Workers, Inductive, ReturnGetFd(w)
  PROVE  Inductive'
<1>1. TypeOK'
  BY DEF Inductive, TypeOK, ReturnGetFd, Goto
<1>2. MutexHeld' /\ Places'
  BY DistinctConstants DEF Inductive, TypeOK, MutexHeld, Places, ReturnGetFd,
     Goto, Critical, Deleting
<1>3. StillExpired'
  BY DEF Inductive, StillExpired, ReturnGetFd, Goto, Expired, InUse
<1>4. DoomedAlone' /\ Unnamed'
  BY DEF Inductive, DoomedAlone, Unnamed, ReturnGetFd, Goto, InUse
<1>5. FileOfOpen' /\ HeldHandlesOpen' /\ OpenHasOwner'
  BY DEF Inductive, FileOfOpen, HeldHandlesOpen, OpenHasOwner, ReturnGetFd,
     InUse
<1>6. LiveHandleIsCached' /\ MapNeverNamesClosed'
  BY DEF Inductive, LiveHandleIsCached, MapNeverNamesClosed, ReturnGetFd,
     InUse
<1> QED BY <1>1, <1>2, <1>3, <1>4, <1>5, <1>6 DEF Inductive

\* Installing the transfer callback keeps the invariant: the handle it drops, if
\* it was the last reference, becomes doomed while still open and in the map.
LEMMA InstallSendFileInductive ==
  ASSUME NEW w \in Workers, Inductive, InstallSendFile(w)
  PROVE  Inductive'
<1>1. TypeOK'
  BY DEF Inductive, TypeOK, InstallSendFile, Goto, Drop
<1>2. MutexHeld' /\ Places'
  BY DEF Inductive, TypeOK, MutexHeld, Places, InstallSendFile, Goto,
     Critical, Deleting, InUse, Drop
<1>3. StillExpired'
  BY DEF Inductive, TypeOK, StillExpired, InstallSendFile, Goto, Expired,
     InUse, Drop
<1>4. DoomedAlone' /\ Unnamed'
  BY DEF Inductive, TypeOK, DoomedAlone, Unnamed, LiveHandleIsCached,
     MapNeverNamesClosed, InstallSendFile, Goto, InUse, Drop
<1>5. FileOfOpen' /\ HeldHandlesOpen' /\ OpenHasOwner'
  BY DEF Inductive, TypeOK, Places, FileOfOpen, HeldHandlesOpen, OpenHasOwner,
     InstallSendFile, Deleting, InUse, Drop
<1>6. LiveHandleIsCached' /\ MapNeverNamesClosed'
  BY DEF Inductive, LiveHandleIsCached, MapNeverNamesClosed, InstallSendFile,
     InUse
<1> QED BY <1>1, <1>2, <1>3, <1>4, <1>5, <1>6 DEF Inductive

\* Installing the last callback keeps the invariant, the same way.
LEMMA InstallLastInductive ==
  ASSUME NEW w \in Workers, Inductive, InstallLast(w)
  PROVE  Inductive'
<1>1. TypeOK'
  BY DEF Inductive, TypeOK, InstallLast, Goto, Drop
<1>2. MutexHeld' /\ Places'
  BY DEF Inductive, TypeOK, MutexHeld, Places, InstallLast, Goto, Critical,
     Deleting, InUse, Drop
<1>3. StillExpired'
  BY DistinctConstants DEF Inductive, TypeOK, StillExpired, InstallLast, Goto,
     Expired, InUse, Drop
<1>4. DoomedAlone' /\ Unnamed'
  BY DistinctConstants DEF Inductive, TypeOK, DoomedAlone, Unnamed,
     LiveHandleIsCached, MapNeverNamesClosed, InstallLast, Goto, InUse, Drop
<1>5. FileOfOpen' /\ HeldHandlesOpen' /\ OpenHasOwner'
  BY DEF Inductive, TypeOK, Places, FileOfOpen, HeldHandlesOpen, OpenHasOwner,
     InstallLast, Deleting, InUse, Drop
<1>6. LiveHandleIsCached' /\ MapNeverNamesClosed'
  BY DistinctConstants DEF Inductive, LiveHandleIsCached, MapNeverNamesClosed,
     InstallLast, InUse
<1> QED BY <1>1, <1>2, <1>3, <1>4, <1>5, <1>6 DEF Inductive

\* Returning from ServeFile() keeps the invariant, the same way.
LEMMA ReturnServeFileInductive ==
  ASSUME NEW w \in Workers, Inductive, ReturnServeFile(w)
  PROVE  Inductive'
<1>1. TypeOK'
  BY DEF Inductive, TypeOK, ReturnServeFile, Goto, Drop
<1>2. MutexHeld' /\ Places'
  BY DEF Inductive, TypeOK, MutexHeld, Places, ReturnServeFile, Goto,
     Critical, Deleting, InUse, Drop
<1>3. StillExpired'
  BY DistinctConstants DEF Inductive, TypeOK, StillExpired, ReturnServeFile,
     Goto, Expired, InUse, Drop
<1>4. DoomedAlone' /\ Unnamed'
  BY DistinctConstants DEF Inductive, TypeOK, DoomedAlone, Unnamed,
     LiveHandleIsCached, MapNeverNamesClosed, ReturnServeFile, Goto, InUse,
     Drop
<1>5. FileOfOpen' /\ HeldHandlesOpen' /\ OpenHasOwner'
  BY DEF Inductive, TypeOK, Places, FileOfOpen, HeldHandlesOpen, OpenHasOwner,
     ReturnServeFile, Deleting, InUse, Drop
<1>6. LiveHandleIsCached' /\ MapNeverNamesClosed'
  BY DistinctConstants DEF Inductive, LiveHandleIsCached, MapNeverNamesClosed,
     ReturnServeFile, InUse
<1> QED BY <1>1, <1>2, <1>3, <1>4, <1>5, <1>6 DEF Inductive

\* Replacing a callback between messages keeps the invariant, the same way.
LEMMA ReplaceCallbackInductive ==
  ASSUME NEW w \in Workers, Inductive, ReplaceCallback(w)
  PROVE  Inductive'
<1>1. TypeOK'
  BY DEF Inductive, TypeOK, ReplaceCallback, Goto, Drop
<1>2. MutexHeld' /\ Places'
  BY DEF Inductive, TypeOK, MutexHeld, Places, ReplaceCallback, Goto,
     Critical, Deleting, Drop
<1>3. StillExpired'
  BY DistinctConstants DEF Inductive, TypeOK, StillExpired, ReplaceCallback,
     Goto, Expired, InUse, Drop
<1>4. DoomedAlone' /\ Unnamed'
  BY DistinctConstants DEF Inductive, TypeOK, DoomedAlone, Unnamed,
     LiveHandleIsCached, MapNeverNamesClosed, ReplaceCallback, Goto, InUse,
     Drop
<1>5. FileOfOpen' /\ HeldHandlesOpen' /\ OpenHasOwner'
  BY DEF Inductive, TypeOK, Places, FileOfOpen, HeldHandlesOpen, OpenHasOwner,
     ReplaceCallback, Deleting, InUse, Drop
<1>6. LiveHandleIsCached' /\ MapNeverNamesClosed'
  BY DistinctConstants DEF Inductive, LiveHandleIsCached, MapNeverNamesClosed,
     ReplaceCallback, InUse
<1> QED BY <1>1, <1>2, <1>3, <1>4, <1>5, <1>6 DEF Inductive

\* A deleter that takes the mutex keeps the invariant.
LEMMA LockDeleterInductive ==
  ASSUME NEW w \in Workers, Inductive, LockDeleter(w)
  PROVE  Inductive'
<1>1. TypeOK'
  BY DEF Inductive, TypeOK, LockDeleter, Goto
<1>2. MutexHeld' /\ Places'
  BY DistinctConstants DEF Inductive, TypeOK, MutexHeld, Places, LockDeleter,
     Goto, Critical, Deleting
<1>3. StillExpired'
  BY DEF Inductive, StillExpired, LockDeleter, Goto, Expired, InUse
<1>4. DoomedAlone' /\ Unnamed'
  BY DEF Inductive, DoomedAlone, Unnamed, LockDeleter, Goto, InUse
<1>5. FileOfOpen' /\ HeldHandlesOpen' /\ OpenHasOwner'
  BY DEF Inductive, FileOfOpen, HeldHandlesOpen, OpenHasOwner, LockDeleter,
     InUse
<1>6. LiveHandleIsCached' /\ MapNeverNamesClosed'
  BY DEF Inductive, LiveHandleIsCached, MapNeverNamesClosed, LockDeleter,
     InUse
<1> QED BY <1>1, <1>2, <1>3, <1>4, <1>5, <1>6 DEF Inductive

\* Erasing an expired entry keeps the invariant: no handle in use is in it, and
\* afterwards the deleter's own handle is in none.
LEMMA EraseInductive ==
  ASSUME NEW w \in Workers, Inductive, Erase(w)
  PROVE  Inductive'
<1>1. TypeOK'
  BY DEF Inductive, TypeOK, Erase, Goto
<1>2. MutexHeld' /\ Places'
  BY DEF Inductive, MutexHeld, Places, Erase, Goto, Critical, Deleting
<1>3. StillExpired'
  BY DistinctConstants DEF Inductive, StillExpired, Erase, Goto, Expired,
     InUse
<1>4. DoomedAlone' /\ Unnamed'
  BY DistinctConstants DEF Inductive, TypeOK, Places, DoomedAlone, Unnamed,
     MapNeverNamesClosed, Erase, Goto, Deleting, Expired, InUse, Erases
<1>5. FileOfOpen' /\ HeldHandlesOpen' /\ OpenHasOwner'
  BY DEF Inductive, FileOfOpen, HeldHandlesOpen, OpenHasOwner, Erase, InUse
<1>6. LiveHandleIsCached' /\ MapNeverNamesClosed'
  BY DistinctConstants DEF Inductive, LiveHandleIsCached, MapNeverNamesClosed,
     Erase, Expired, InUse, Erases
<1> QED BY <1>1, <1>2, <1>3, <1>4, <1>5, <1>6 DEF Inductive

\* Closing a descriptor keeps the invariant: it is not in use, not in the map,
\* and no other deleter has it.
LEMMA CloseFdInductive ==
  ASSUME NEW w \in Workers, Inductive, CloseFd(w)
  PROVE  Inductive'
<1>1. TypeOK'
  BY DEF Inductive, TypeOK, CloseFd, Goto
<1>2. MutexHeld' /\ Places'
  BY DistinctConstants DEF Inductive, TypeOK, MutexHeld, Places, CloseFd,
     Goto, Critical, Deleting
<1>3. StillExpired'
  BY DEF Inductive, TypeOK, StillExpired, CloseFd, Goto, Expired, InUse
<1>4. DoomedAlone' /\ Unnamed'
  BY DistinctConstants DEF Inductive, TypeOK, DoomedAlone, Unnamed, CloseFd,
     Goto, InUse, Closes
<1>5. FileOfOpen' /\ HeldHandlesOpen' /\ OpenHasOwner'
  BY DistinctConstants DEF Inductive, TypeOK, Unnamed, FileOfOpen,
     HeldHandlesOpen, LiveHandleIsCached, OpenHasOwner, CloseFd, InUse, Closes
<1>6. LiveHandleIsCached' /\ MapNeverNamesClosed'
  BY DEF Inductive, Unnamed, LiveHandleIsCached, MapNeverNamesClosed, CloseFd,
     InUse, Closes
<1> QED BY <1>1, <1>2, <1>3, <1>4, <1>5, <1>6 DEF Inductive

-----------------------------------------------------------------------------
(* The theorems                                                            *)

\* The invariant holds in every reachable state.
THEOREM InductiveHolds == Spec => []Inductive
<1>1. Init => Inductive
  BY InitInductive
<1>2. Inductive /\ [Next]_vars => Inductive'
  <2> SUFFICES ASSUME Inductive, [Next]_vars PROVE Inductive'
    OBVIOUS
  <2>1. CASE UNCHANGED vars
    BY <2>1 DEF vars, Inductive, TypeOK, MutexHeld, Places, StillExpired, DoomedAlone,
       Unnamed, FileOfOpen, HeldHandlesOpen, LiveHandleIsCached, MapNeverNamesClosed,
       OpenHasOwner, InUse, Expired
  <2>2. ASSUME NEW w \in Workers, NEW p \in Paths, CallGetFd(w, p) PROVE Inductive'
    BY <2>2, CallGetFdInductive
  <2>3. ASSUME NEW w \in Workers, ReplaceCallback(w) PROVE Inductive'
    BY <2>3, ReplaceCallbackInductive
  <2>4. ASSUME NEW w \in Workers, Step(w) PROVE Inductive'
    BY <2>4, LockGetFdInductive, FindInductive, OpenInductive, OpenFailsInductive,
       ReturnGetFdInductive, InstallSendFileInductive, InstallLastInductive,
       ReturnServeFileInductive, LockDeleterInductive, EraseInductive, CloseFdInductive
       DEF Step
  <2> QED
    BY <2>1, <2>2, <2>3, <2>4 DEF Next
<1> QED
  BY <1>1, <1>2, PTL DEF Spec

\* Every variable keeps its type.
THEOREM TypeCorrect == Spec => []TypeOK
<1>1. Inductive => TypeOK
  BY DEF Inductive
<1> QED
  BY <1>1, InductiveHolds, PTL

\* No handle that a session refers to is ever closed.
THEOREM HeldHandlesStayOpen == Spec => []HeldHandlesOpen
<1>1. Inductive => HeldHandlesOpen
  BY DEF Inductive
<1> QED
  BY <1>1, InductiveHolds, PTL

\* A handle in use is always the one in the map, so there is one per path.
THEOREM LiveHandlesAreCached == Spec => []LiveHandleIsCached
<1>1. Inductive => LiveHandleIsCached
  BY DEF Inductive
<1> QED
  BY <1>1, InductiveHolds, PTL

\* The map never names a closed descriptor.
THEOREM NoStaleEntry == Spec => []MapNeverNamesClosed
<1>1. Inductive => MapNeverNamesClosed
  BY DEF Inductive
<1> QED
  BY <1>1, InductiveHolds, PTL

\* An open descriptor that nobody uses has exactly one deleter: it is neither
\* leaked nor closed twice.
THEOREM OneDeleter == Spec => []OpenIsOwned
<1>1. Inductive => OpenIsOwned
  <2> SUFFICES ASSUME Inductive, NEW h \in open \ InUse
               PROVE  \E w \in Workers : /\ doomed[w] = h
                                         /\ \A v \in Workers \ {w} : doomed[v] # h
    BY DEF OpenIsOwned
  <2>1. h \in Handles
    BY DEF Inductive, TypeOK
  <2>2. PICK w \in Workers : doomed[w] = h
    BY DEF Inductive, OpenHasOwner
  <2>3. \A v \in Workers \ {w} : doomed[v] # h
    BY <2>1, <2>2 DEF Inductive, DoomedAlone
  <2> QED
    BY <2>2, <2>3
<1> QED
  BY <1>1, InductiveHolds, PTL

-----------------------------------------------------------------------------
(* FdCache implements FileSharing.  Both name the same four variables, so   *)
(* the mapping is the identity: the map, the mutex and the deleters are     *)
(* what the abstract specification does not have.                           *)

\* A step of the cache is a step of FileSharing or leaves its variables alone.
LEMMA StepImplements ==
  ASSUME Inductive, Next
  PROVE  [Sharing!Next]_(Sharing!fsVars)
<1> USE DEF Sharing!fsVars, Sharing!InUse, InUse
<1>1. ASSUME NEW w \in Workers, NEW p \in Paths, CallGetFd(w, p)
      PROVE  UNCHANGED Sharing!fsVars
  BY <1>1 DEF CallGetFd
\* A reference from the map is one that is in use for the path.
<1>2. ASSUME NEW w \in Workers, Find(w)
      PROVE  UNCHANGED Sharing!fsVars \/ Sharing!Share(w, want[w])
  <2> DEFINE wptr == IF fd_map_[want[w]] = NoEntry THEN NoHandle ELSE fd_map_[want[w]]
  <2>1. /\ want[w] \in Paths /\ local[w] = NoHandle
        /\ local' = [local EXCEPT ![w] = Lock(wptr)]
        /\ UNCHANGED <<captured, file, open>>
    BY <1>2 DEF Find, Inductive, Places
  <2>2. CASE wptr \in InUse
    <3>1. wptr = fd_map_[want[w]] /\ wptr \in Handles
      BY <2>2, DistinctConstants
    <3>2. file[wptr] = want[w]
      BY <2>1, <3>1 DEF Inductive, MapNeverNamesClosed
    <3> QED
      BY <2>1, <2>2, <3>2 DEF Lock, Expired, Sharing!Share
  <2>3. CASE wptr \notin InUse
    <3>1. local' = local
      BY <2>1, <2>3 DEF Lock, Expired, Inductive, TypeOK
    <3> QED
      BY <2>1, <3>1
  <2> QED
    BY <2>2, <2>3
\* A file is opened when its entry has expired, so when nobody uses it.
<1>3. ASSUME NEW w \in Workers, Open(w)
      PROVE  Sharing!OpenFresh(w, want[w])
  <2>1. /\ local[w] = NoHandle /\ want[w] \in Paths
        /\ \A h \in InUse : file[h] # want[w]
    BY <1>3 DEF Open, Expired, Inductive, Places, StillExpired, LiveHandleIsCached
  <2>2. PICK h \in Handles \ open : /\ open' = open \cup {h}
                                    /\ file' = [file EXCEPT ![h] = want[w]]
                                    /\ local' = [local EXCEPT ![w] = h]
    BY <1>3 DEF Open, Fresh
  <2>3. UNCHANGED captured
    BY <1>3 DEF Open
  <2> QED
    BY <2>1, <2>2, <2>3 DEF Sharing!OpenFresh
<1>4. ASSUME NEW w \in Workers, InstallSendFile(w)
      PROVE  Sharing!Install(w)
  BY <1>4 DEF InstallSendFile, Sharing!Install
<1>5. ASSUME NEW w \in Workers, InstallLast(w) \/ ReplaceCallback(w)
      PROVE  Sharing!Forget(w)
  BY <1>5 DEF InstallLast, ReplaceCallback, Sharing!Forget
<1>6. ASSUME NEW w \in Workers, ReturnServeFile(w)
      PROVE  Sharing!Return(w)
  BY <1>6 DEF ReturnServeFile, Sharing!Return
\* A deleter closes its own handle, which nobody uses.
<1>7. ASSUME NEW w \in Workers, CloseFd(w)
      PROVE  doomed[w] \in Handles /\ Sharing!Close(doomed[w])
  BY <1>7 DEF CloseFd, Closes, Deleting, Sharing!Close, Inductive, TypeOK,
              Places, DoomedAlone
<1>8. ASSUME NEW w \in Workers,
             LockGetFd(w) \/ OpenFails(w) \/ ReturnGetFd(w) \/ LockDeleter(w) \/ Erase(w)
      PROVE  UNCHANGED Sharing!fsVars
  BY <1>8 DEF LockGetFd, OpenFails, ReturnGetFd, LockDeleter, Erase
<1>9. ASSUME NEW w \in Workers, Step(w)
      PROVE  [Sharing!Next]_(Sharing!fsVars)
  <2>1. CASE Find(w)
    <3>1. want[w] \in Paths
      BY <2>1 DEF Find, Inductive, Places
    <3> QED BY <2>1, <3>1, <1>2 DEF Sharing!Next
  <2>2. CASE Open(w)
    <3>1. want[w] \in Paths
      BY <2>2 DEF Open, Inductive, Places
    <3> QED BY <2>2, <3>1, <1>3 DEF Sharing!Next
  <2> QED
    BY <1>9, <2>1, <2>2, <1>4, <1>5, <1>6, <1>7, <1>8 DEF Step, Sharing!Next
<1> QED
  BY <1>1, <1>5, <1>9 DEF Next, Sharing!Next

\* The cache shares and closes files as FileSharing says: one handle per path
\* for all who use it at a time, closed only when nobody does.
THEOREM ImplementsSharing == Spec => SharesFiles
<1>1. Init => Sharing!Init
  BY DEF Init, Sharing!Init
<1>2. Inductive /\ [Next]_vars => [Sharing!Next]_(Sharing!fsVars)
  <2> SUFFICES ASSUME Inductive, [Next]_vars PROVE [Sharing!Next]_(Sharing!fsVars)
    OBVIOUS
  <2>1. CASE Next
    BY <2>1, StepImplements
  <2>2. CASE UNCHANGED vars
    BY <2>2 DEF vars, Sharing!fsVars
  <2> QED
    BY <2>1, <2>2
<1> QED
  BY <1>1, <1>2, InductiveHolds, PTL DEF Spec, SharesFiles, Sharing!Spec
=============================================================================
