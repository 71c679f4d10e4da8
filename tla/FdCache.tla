------------------------------ MODULE FdCache ------------------------------
(***************************************************************************)
(* The descriptor cache of HttpServer: GetFd() and the deleter of the      *)
(* shared_ptr<int> it hands out, run by the I/O threads of the server.     *)
(*                                                                         *)
(* fd_map_ maps a path to a weak_ptr; the sessions own the handles.  The   *)
(* mutex protects the map and nothing else: the reference count of a       *)
(* handle falls to zero outside the critical section, and only then does   *)
(* the thread that dropped the last reference wait for the mutex to erase  *)
(* the entry and close the descriptor.  In between any other thread may    *)
(* look up the same path.                                                  *)
(*                                                                         *)
(* A handle stands for an open file description with the control block of  *)
(* its shared_ptr.  A worker is one session of one I/O thread: it refers   *)
(* to a handle from the local variable fd of ServeFile() and from the      *)
(* write-complete callback that ServeFile() installed.                     *)
(***************************************************************************)
EXTENDS Integers

CONSTANTS Workers, Paths, Handles,
          NoHandle,  \* null shared_ptr, empty weak_ptr
          NoEntry,   \* fd_map_ has no entry for a path
          NoPath,    \* the path of a handle that is not open
          Nobody     \* the mutex is free

ASSUME DistinctConstants == /\ NoHandle \notin Handles
                            /\ NoEntry \notin Handles \cup {NoHandle}
                            /\ NoPath \notin Paths
                            /\ Nobody \notin Workers

VARIABLES pc,       \* where a worker is in GetFd(), ServeFile() or the deleter
          then,     \* where it goes on after the deleter
          want,     \* the argument of GetFd()
          local,    \* the shared_ptr of the handler: sp, then fd
          captured, \* the shared_ptr in the write-complete callback
          doomed,   \* the handle the deleter of a worker is deleting
          fd_map_,  \* the weak_ptr of every path
          mutex_,   \* who holds the mutex
          file,     \* the path a handle was opened for
          open      \* the handles whose descriptor is open

vars == <<pc, then, want, local, captured, doomed, fd_map_, mutex_, file, open>>

\* A weak_ptr expires when no shared_ptr refers to the handle any more.
InUse == {h \in Handles : \E w \in Workers : local[w] = h \/ captured[w] = h}
Expired(h) == h \notin InUse

\* A handle that nothing refers to, not even a weak_ptr or a deleter.
Fresh == {h \in Handles \ (open \cup InUse) :
            /\ \A p \in Paths : fd_map_[p] # h
            /\ \A w \in Workers : doomed[w] # h}

Init == /\ pc = [w \in Workers |-> "idle"]
        /\ then = [w \in Workers |-> "idle"]
        /\ want = [w \in Workers |-> NoPath]
        /\ local = [w \in Workers |-> NoHandle]
        /\ captured = [w \in Workers |-> NoHandle]
        /\ doomed = [w \in Workers |-> NoHandle]
        /\ fd_map_ = [p \in Paths |-> NoEntry]
        /\ mutex_ = Nobody
        /\ file = [h \in Handles |-> NoPath]
        /\ open = {}

Goto(w, l) == pc' = [pc EXCEPT ![w] = l]

-----------------------------------------------------------------------------
(* GetFd()                                                                 *)

\* ServeFile() calls GetFd(); an earlier callback may still hold a handle.
CallGetFd(w, p) ==
  /\ pc[w] = "idle"
  /\ Goto(w, "get")
  /\ want' = [want EXCEPT ![w] = p]
  /\ UNCHANGED <<then, local, captured, doomed, fd_map_, mutex_, file, open>>

LockGetFd(w) ==
  /\ pc[w] = "get" /\ mutex_ = Nobody
  /\ mutex_' = w
  /\ Goto(w, "find")
  /\ UNCHANGED <<then, want, local, captured, doomed, fd_map_, file, open>>

\* weak_ptr::lock(): a reference, unless the weak_ptr has expired; and as it
\* would be if the map held raw pointers, or nothing ever.
LockRaw(wptr) == wptr
LockMisses(wptr) == NoHandle
Lock(wptr) == IF Expired(wptr) THEN NoHandle ELSE wptr

\* fd_map_[path] creates a missing entry.
Find(w) ==
  LET wptr == IF fd_map_[want[w]] = NoEntry THEN NoHandle ELSE fd_map_[want[w]]
  IN /\ pc[w] = "find"
     /\ fd_map_' = [fd_map_ EXCEPT ![want[w]] = wptr]
     /\ local' = [local EXCEPT ![w] = Lock(wptr)]
     /\ Goto(w, IF Lock(wptr) = NoHandle THEN "open" ELSE "unlock")
     /\ UNCHANGED <<then, want, captured, doomed, mutex_, file, open>>

\* open() succeeds; the new handle is published in the map.
Open(w) ==
  /\ pc[w] = "open"
  /\ \E h \in Fresh :
       /\ open' = open \cup {h}
       /\ file' = [file EXCEPT ![h] = want[w]]
       /\ local' = [local EXCEPT ![w] = h]
       /\ fd_map_' = [fd_map_ EXCEPT ![want[w]] = h]
  /\ Goto(w, "unlock")
  /\ UNCHANGED <<then, want, captured, doomed, mutex_>>

\* open() fails; GetFd() returns nullptr and leaves the entry as it is.  (The
\* first form does not check the result and hands out -1.)
OpenFailsUnchecked(w) ==
  /\ pc[w] = "open"
  /\ local' = [local EXCEPT ![w] = -1]
  /\ fd_map_' = [fd_map_ EXCEPT ![want[w]] = -1]
  /\ Goto(w, "unlock")
  /\ UNCHANGED <<then, want, captured, doomed, mutex_, file, open>>

OpenFails(w) ==
  /\ pc[w] = "open"
  /\ Goto(w, "unlock")
  /\ UNCHANGED <<then, want, local, captured, doomed, fd_map_, mutex_, file, open>>

\* The guard is released.  Without a handle ServeFile() answers with an error.
\* (The first form forgets the mutex on the early return.)
ReturnGetFdLocked(w) ==
  /\ pc[w] = "unlock"
  /\ mutex_' = IF local[w] = NoHandle THEN mutex_ ELSE Nobody
  /\ Goto(w, IF local[w] = NoHandle THEN "idle" ELSE "serve")
  /\ want' = [want EXCEPT ![w] = NoPath]
  /\ UNCHANGED <<then, local, captured, doomed, fd_map_, file, open>>

ReturnGetFd(w) ==
  /\ pc[w] = "unlock"
  /\ mutex_' = Nobody
  /\ Goto(w, IF local[w] = NoHandle THEN "idle" ELSE "serve")
  /\ want' = [want EXCEPT ![w] = NoPath]
  /\ UNCHANGED <<then, local, captured, doomed, fd_map_, file, open>>

-----------------------------------------------------------------------------
(* Dropping references.  Whoever drops the last one runs the deleter at    *)
(* once and then goes on at label l.                                       *)

Drop(w, h, l) ==
  IF h \in InUse /\ h \notin InUse'
  THEN /\ Goto(w, "del")
       /\ then' = [then EXCEPT ![w] = l]
       /\ doomed' = [doomed EXCEPT ![w] = h]
  ELSE /\ Goto(w, l)
       /\ UNCHANGED <<then, doomed>>

\* A part of the file is left: the callback of SendFile() keeps the handle,
\* and the callback it replaces drops the one it had.
InstallSendFile(w) ==
  /\ pc[w] = "serve"
  /\ captured' = [captured EXCEPT ![w] = local[w]]
  /\ UNCHANGED <<want, local, fd_map_, mutex_, file, open>>
  /\ Drop(w, captured[w], "return")

\* The whole file fits into the response: SetLastWriteComplete().
InstallLast(w) ==
  /\ pc[w] = "serve"
  /\ captured' = [captured EXCEPT ![w] = NoHandle]
  /\ UNCHANGED <<want, local, fd_map_, mutex_, file, open>>
  /\ Drop(w, captured[w], "return")

\* ServeFile() returns and drops its local variable.
ReturnServeFile(w) ==
  /\ pc[w] = "return"
  /\ local' = [local EXCEPT ![w] = NoHandle]
  /\ UNCHANGED <<want, captured, fd_map_, mutex_, file, open>>
  /\ Drop(w, local[w], "idle")

\* SendFile() has sent the last part, or the connection is down: the callback
\* is replaced by one that refers to no handle.
ReplaceCallback(w) ==
  /\ pc[w] = "idle" /\ captured[w] # NoHandle
  /\ captured' = [captured EXCEPT ![w] = NoHandle]
  /\ UNCHANGED <<want, local, fd_map_, mutex_, file, open>>
  /\ Drop(w, captured[w], "idle")

-----------------------------------------------------------------------------
(* The deleter                                                             *)

LockDeleter(w) ==
  /\ pc[w] = "del" /\ mutex_ = Nobody
  /\ mutex_' = w
  /\ Goto(w, "erase")
  /\ UNCHANGED <<then, want, local, captured, doomed, fd_map_, file, open>>

\* The entry is erased only if its weak_ptr has expired: it may belong to a
\* handle that another thread opened for the path in the meantime.  (Two
\* deleters that do not look, one that always erases and one that never does.)
ErasesAlways(p) == TRUE
ErasesNever(p) == FALSE
Erases(p) == Expired(fd_map_[p])

Erase(w) ==
  LET path == file[doomed[w]]
  IN /\ pc[w] = "erase"
     /\ fd_map_' = IF Erases(path) THEN [fd_map_ EXCEPT ![path] = NoEntry] ELSE fd_map_
     /\ Goto(w, "close")
     /\ UNCHANGED <<then, want, local, captured, doomed, mutex_, file, open>>

\* The descriptors a deleter closes: its own, or, if it took an entry that is
\* not its own as a reason to return early, only an unnamed one.
ClosesUnnamed(h) == IF fd_map_[file[h]] = NoEntry THEN {h} ELSE {}
Closes(h) == {h}

\* The FDWrapper closes the descriptor before the guard releases the mutex.
CloseFd(w) ==
  /\ pc[w] = "close"
  /\ open' = open \ Closes(doomed[w])
  /\ file' = [file EXCEPT ![doomed[w]] = NoPath]
  /\ doomed' = [doomed EXCEPT ![w] = NoHandle]
  /\ mutex_' = Nobody
  /\ Goto(w, then[w])
  /\ then' = [then EXCEPT ![w] = "idle"]
  /\ UNCHANGED <<want, local, captured, fd_map_>>

-----------------------------------------------------------------------------
\* The steps a thread takes without waiting for a client.
Step(w) == \/ LockGetFd(w) \/ Find(w) \/ Open(w) \/ OpenFails(w) \/ ReturnGetFd(w)
           \/ InstallSendFile(w) \/ InstallLast(w) \/ ReturnServeFile(w)
           \/ LockDeleter(w) \/ Erase(w) \/ CloseFd(w)

Next == \E w \in Workers : \/ \E p \in Paths : CallGetFd(w, p)
                           \/ ReplaceCallback(w)
                           \/ Step(w)

Spec == Init /\ [][Next]_vars

\* A running thread goes on; the mutex is not fair, so a thread that waits for
\* it need not get it while others keep taking it.
FairSpec == Spec /\ \A w \in Workers : WF_vars(Step(w))

-----------------------------------------------------------------------------
(* Properties                                                              *)

\* Every variable has its type.
TypeOK ==
  /\ pc \in [Workers -> {"idle", "get", "find", "open", "unlock", "serve",
                         "return", "del", "erase", "close"}]
  /\ then \in [Workers -> {"idle", "return"}]
  /\ want \in [Workers -> Paths \cup {NoPath}]
  /\ local \in [Workers -> Handles \cup {NoHandle}]
  /\ captured \in [Workers -> Handles \cup {NoHandle}]
  /\ doomed \in [Workers -> Handles \cup {NoHandle}]
  /\ fd_map_ \in [Paths -> Handles \cup {NoHandle, NoEntry}]
  /\ mutex_ \in Workers \cup {Nobody}
  /\ file \in [Handles -> Paths \cup {NoPath}]
  /\ open \in SUBSET Handles

\* A handle that a handler or a callback refers to is open: no deleter closes a
\* descriptor that another session, or another generation of the entry, uses.
HeldHandlesOpen == InUse \subseteq open

\* A handle in use is the one fd_map_ names for its path, so a session that
\* asks for the path shares it: no deleter removes the entry of a later handle
\* (case 1 of the comment in GetFd()) and no GetFd() overwrites a live one.
LiveHandleIsCached == \A h \in InUse : /\ file[h] \in Paths
                                       /\ fd_map_[file[h]] = h

\* The map never names a descriptor that has been closed: an entry is erased,
\* or replaced, before its descriptor goes.
MapNeverNamesClosed == \A p \in Paths : fd_map_[p] \in Handles =>
                          /\ fd_map_[p] \in open
                          /\ file[fd_map_[p]] = p

\* An open descriptor has an owner: a shared_ptr, or else exactly one deleter,
\* whatever the order in which deleters and GetFd() get the mutex (case 2 of
\* the comment in GetFd(): a deleter need not find its own entry).
OpenIsOwned == \A h \in open \ InUse : \E w \in Workers :
                  /\ doomed[w] = h
                  /\ \A v \in Workers \ {w} : doomed[v] # h

\* The sessions see the files shared and closed as FileSharing says.
Sharing == INSTANCE FileSharing
SharesFiles == Sharing!Spec

\* The mutex is released again and again: neither an early return of GetFd()
\* nor a deleter keeps it.
MutexReleased == []<>(mutex_ = Nobody)

\* Once no thread asks for files, every descriptor nobody refers to is closed
\* in the end.
QuietDrains == <>[](\A w \in Workers : pc[w] # "get") => <>[](open \subseteq InUse)
=============================================================================
