----------------------------- MODULE AddrCache -----------------------------
(***************************************************************************)
(* The mapping cache of HttpServer: GetAddr(), the deleter of the          *)
(* shared_ptr<char*> it hands out, and the sessions that read from the     *)
(* mapping with a raw pointer.                                             *)
(*                                                                         *)
(* It is built like the descriptor cache (FdCache), with four things more. *)
(* A mapping has a length, which is the size of the file that the session  *)
(* which made it had seen, while every session reads as far as the size it *)
(* has seen itself.  It reads part by part, from an offset that is counted *)
(* in cache_filesize_ and that the next response takes over as it is.  A   *)
(* descriptor is open between open() and mmap().  And SendFileOfMmap()     *)
(* replaces the very callback that owns the mapping before it reads the    *)
(* last part.                                                              *)
(*                                                                         *)
(* A mapping stands for a region with the control block of its shared_ptr. *)
(* Of the content of a file there is its version: it starts with 1 and     *)
(* grows with every change.  Sizes and offsets are in units of which       *)
(* BufferSize make kFileBufferSize_, as in HttpSession.  A read past the   *)
(* end of a region is taken to return: if it faults, the process and every *)
(* thread of it are gone.                                                  *)
(***************************************************************************)
EXTENDS Integers, Sequences

CONSTANTS Workers, Paths, Mappings,
          NoMapping,  \* null shared_ptr, null pointer, empty weak_ptr
          NoEntry,    \* addr_map_ has no entry for a path
          NoPath,     \* the path of a mapping that is gone
          Nobody,     \* the mutex is free
          SizesOf,    \* the sizes of a file as it is changed, which bounds the changes
          BufferSize, \* kFileBufferSize_
          HeaderSize, \* the response header
          WordSize,   \* 2^64
          MaxOffset   \* bound: no session is asked for more from there on, nor sends past it

ASSUME DistinctConstants == /\ NoMapping \notin Mappings
                            /\ NoEntry \notin Mappings \cup {NoMapping}
                            /\ NoPath \notin Paths
                            /\ Nobody \notin Workers

ASSUME SizesAssumption == /\ SizesOf \in [Paths -> Seq(Nat) \ {<<>>}]
                          /\ \A p \in Paths : \A i \in 1..Len(SizesOf[p]) :
                                SizesOf[p][i] < WordSize
                          /\ HeaderSize \in Nat /\ BufferSize \in Nat
                          /\ HeaderSize < BufferSize
                          /\ WordSize \in Nat \ {0} /\ MaxOffset \in Nat

VARIABLES pc,          \* where a worker is
          then,        \* where it goes on after the deleter
          want,        \* the path given to GetAddr()
          size,        \* cur_filesize_: what stat() said of it
          cache_filesize_, \* how much of it has been sent, if it was zero before
          fresh,       \* history: it was zero when the callback was installed
          fd,          \* the descriptors GetAddr() has opened less those it has closed
          local,       \* the shared_ptr of a handler: sp, addr or guard
          buf,         \* the region a handler reads from with a raw pointer
          upto,        \* where in it what the handler reads ends
          captured,    \* the shared_ptr in the write-complete callback
          shut,        \* the workers whose connection an error has shut
          doomed,      \* the mapping the deleter of a worker is deleting
          addr_map_,   \* the weak_ptr of every path
          mutex_addr_, \* who holds the mutex
          file,        \* the path a mapping was made for
          len,         \* the length its deleter has captured
          extent,      \* how much of it is mapped
          version      \* the version of every file

mapVars == <<file, len, extent>>
offset == <<cache_filesize_, fresh>>
reading == <<buf, upto>>
vars == <<pc, then, want, size, offset, fd, local, reading, captured, shut, doomed,
          addr_map_, mutex_addr_, mapVars, version>>

\* The mappings the kernel has, and those a shared_ptr refers to.
mapped == {m \in Mappings : extent[m] > 0}
InUse == {m \in Mappings : \E w \in Workers : local[w] = m \/ captured[w] = m}
Expired(m) == m \notin InUse

Fresh == {m \in Mappings \ (mapped \cup InUse) :
            /\ \A p \in Paths : addr_map_[p] # m
            /\ \A w \in Workers : doomed[w] # m}

Init == /\ pc = [w \in Workers |-> "idle"]
        /\ then = [w \in Workers |-> "idle"]
        /\ want = [w \in Workers |-> NoPath]
        /\ size = [w \in Workers |-> 0]
        /\ cache_filesize_ = [w \in Workers |-> 0]
        /\ fresh = [w \in Workers |-> FALSE]
        /\ fd = [w \in Workers |-> 0]
        /\ local = [w \in Workers |-> NoMapping]
        /\ buf = [w \in Workers |-> NoMapping]
        /\ upto = [w \in Workers |-> 0]
        /\ captured = [w \in Workers |-> NoMapping]
        /\ shut = {}
        /\ doomed = [w \in Workers |-> NoMapping]
        /\ addr_map_ = [p \in Paths |-> NoEntry]
        /\ mutex_addr_ = Nobody
        /\ file = [m \in Mappings |-> NoPath]
        /\ len = [m \in Mappings |-> 0]
        /\ extent = [m \in Mappings |-> 0]
        /\ version = [p \in Paths |-> 1]

Goto(w, l) == pc' = [pc EXCEPT ![w] = l]

\* A handler is about to read from mapping m up to offset end; or reads no more.
Reads(w, m, end) == buf' = [buf EXCEPT ![w] = m] /\ upto' = [upto EXCEPT ![w] = end]
ReadsNothing(w) == Reads(w, NoMapping, 0)

-----------------------------------------------------------------------------
(* GetAddr()                                                               *)

\* ServeFile() asks stat() for the size and then calls GetAddr() with it.
CallGetAddr(w, p) ==
  /\ pc[w] = "idle" /\ cache_filesize_[w] < MaxOffset
  /\ Goto(w, "get")
  /\ want' = [want EXCEPT ![w] = p]
  /\ size' = [size EXCEPT ![w] = SizesOf[p][version[p]]]
  /\ UNCHANGED <<then, offset, fd, local, reading, captured, shut, doomed,
                 addr_map_, mutex_addr_, mapVars, version>>

LockGetAddr(w) ==
  /\ pc[w] = "get" /\ mutex_addr_ = Nobody
  /\ mutex_addr_' = w
  /\ Goto(w, "find")
  /\ UNCHANGED <<then, want, size, offset, fd, local, reading, captured, shut,
                 doomed, addr_map_, mapVars, version>>

\* weak_ptr::lock(), and as it would be if the map held raw pointers.
LockRaw(wptr) == wptr
Lock(wptr) == IF Expired(wptr) THEN NoMapping ELSE wptr

\* addr_map_[pathname] creates a missing entry.
Find(w) ==
  LET wptr == IF addr_map_[want[w]] = NoEntry THEN NoMapping ELSE addr_map_[want[w]]
  IN /\ pc[w] = "find"
     /\ addr_map_' = [addr_map_ EXCEPT ![want[w]] = wptr]
     /\ local' = [local EXCEPT ![w] = Lock(wptr)]
     /\ Goto(w, IF Lock(wptr) = NoMapping THEN "open" ELSE "unlock")
     /\ UNCHANGED <<then, want, size, offset, fd, reading, captured, shut, doomed,
                    mutex_addr_, mapVars, version>>

OpenFile(w) ==
  /\ pc[w] = "open"
  /\ \/ Goto(w, "mmap") /\ fd' = [fd EXCEPT ![w] = @ + 1]
     \/ Goto(w, "unlock") /\ UNCHANGED fd
  /\ UNCHANGED <<then, want, size, offset, local, reading, captured, shut, doomed,
                 addr_map_, mutex_addr_, mapVars, version>>

\* Mmap() succeeds and closes the descriptor; the mapping is published.  There
\* is no mapping of length zero.
Mmap(w) ==
  /\ pc[w] = "mmap" /\ size[w] > 0
  /\ \E m \in Fresh :
       /\ file' = [file EXCEPT ![m] = want[w]]
       /\ len' = [len EXCEPT ![m] = size[w]]
       /\ extent' = [extent EXCEPT ![m] = size[w]]
       /\ local' = [local EXCEPT ![w] = m]
       /\ addr_map_' = [addr_map_ EXCEPT ![want[w]] = m]
  /\ fd' = [fd EXCEPT ![w] = @ - 1]
  /\ Goto(w, "unlock")
  /\ UNCHANGED <<then, want, size, offset, reading, captured, shut, doomed,
                 mutex_addr_, version>>

\* Mmap() fails and leaves the descriptor to GetAddr(), which closes it.  (The
\* first form relies on Mmap() for that; the second one forgets that mmap() says
\* MAP_FAILED, which is -1, and not null.)
MmapFailsOpen(w) ==
  /\ pc[w] = "mmap"
  /\ Goto(w, "unlock")
  /\ UNCHANGED <<then, want, size, offset, fd, local, reading, captured, shut,
                 doomed, addr_map_, mutex_addr_, mapVars, version>>

MmapFailsUnconverted(w) ==
  /\ pc[w] = "mmap"
  /\ fd' = [fd EXCEPT ![w] = @ - 1]
  /\ local' = [local EXCEPT ![w] = -1]
  /\ addr_map_' = [addr_map_ EXCEPT ![want[w]] = -1]
  /\ Goto(w, "unlock")
  /\ UNCHANGED <<then, want, size, offset, reading, captured, shut, doomed,
                 mutex_addr_, mapVars, version>>

MmapFails(w) ==
  /\ pc[w] = "mmap"
  /\ fd' = [fd EXCEPT ![w] = @ - 1]
  /\ Goto(w, "unlock")
  /\ UNCHANGED <<then, want, size, offset, local, reading, captured, shut, doomed,
                 addr_map_, mutex_addr_, mapVars, version>>

\* Those who answer with an error: SendErrorResponse() shuts the connection for
\* writing and leaves the callback of an earlier transfer where it is.  (The first
\* form does without ShutdownWrite().)
ShutByErrorNot(w) == shut
ShutByError(w) == shut \cup {w}

\* The length of the first part: what the header leaves of a buffer, or the file.
FirstPart(w) == IF BufferSize - HeaderSize < size[w] THEN BufferSize - HeaderSize ELSE size[w]

\* The guard is released.  ServeFile() answers with an error, or it has a
\* pointer to read the first part from.
ReturnGetAddr(w) ==
  /\ pc[w] = "unlock"
  /\ mutex_addr_' = Nobody
  /\ IF local[w] = NoMapping THEN ReadsNothing(w) ELSE Reads(w, local[w], FirstPart(w))
  /\ Goto(w, IF local[w] = NoMapping THEN "idle" ELSE "serve")
  /\ want' = [want EXCEPT ![w] = NoPath]
  /\ shut' = IF local[w] = NoMapping THEN ShutByError(w) ELSE shut
  /\ UNCHANGED <<then, size, offset, fd, local, captured, doomed, addr_map_,
                 mapVars, version>>

-----------------------------------------------------------------------------
(* The sessions.  Whoever drops the last reference runs the deleter at     *)
(* once and then goes on at label l.  (DropPlain: a shared_ptr without a    *)
(* deleter.)                                                               *)

DropPlain(w, m, l) == Goto(w, l) /\ UNCHANGED <<then, doomed>>

Drop(w, m, l) ==
  IF m \in InUse /\ m \notin InUse'
  THEN /\ Goto(w, "del")
       /\ then' = [then EXCEPT ![w] = l]
       /\ doomed' = [doomed EXCEPT ![w] = m]
  ELSE /\ Goto(w, l)
       /\ UNCHANGED <<then, doomed>>

\* AddBody() has copied the first part.  If there is more, the part is counted and
\* the callback keeps the mapping; if not, SetLastWriteComplete() refers to none.
\* Either drops what the callback before it had.
InstallCallback(w) ==
  /\ pc[w] = "serve"
  /\ \/ /\ FirstPart(w) < size[w]
        /\ cache_filesize_' = [cache_filesize_ EXCEPT ![w] = @ + FirstPart(w)]
        /\ captured' = [captured EXCEPT ![w] = local[w]]
     \/ /\ FirstPart(w) = size[w]
        /\ captured' = [captured EXCEPT ![w] = NoMapping]
        /\ UNCHANGED cache_filesize_
  /\ fresh' = [fresh EXCEPT ![w] = (cache_filesize_[w] = 0 /\ FirstPart(w) < size[w])]
  /\ ReadsNothing(w)
  /\ UNCHANGED <<want, size, fd, local, shut, addr_map_, mutex_addr_, mapVars,
                 version>>
  /\ Drop(w, captured[w], "return")

\* What SendFileOfMmap() finds left to send.  The counters are unsigned, and both are
\* those of the session: an error may have changed cur_filesize_ since, and
\* cache_filesize_ has counted the files before this one too.
Left(w) == (size[w] - cache_filesize_[w]) % WordSize

\* Send() reads from the mapping, or nothing after ShutdownWrite().
Sends(w, n) == IF w \in shut THEN ReadsNothing(w)
                             ELSE Reads(w, captured[w], cache_filesize_[w] + n)

\* More is left than a buffer holds: a part is sent and the callback stays.  It alone
\* refers to the mapping meanwhile.
SendPart(w) ==
  /\ pc[w] = "idle" /\ captured[w] # NoMapping
  /\ Left(w) > BufferSize /\ cache_filesize_[w] <= MaxOffset
  /\ Sends(w, BufferSize)
  /\ cache_filesize_' = [cache_filesize_ EXCEPT ![w] = @ + BufferSize]
  /\ Goto(w, "send")
  /\ UNCHANGED <<then, want, size, fresh, fd, local, captured, shut, doomed,
                 addr_map_, mutex_addr_, mapVars, version>>

\* The last part: `auto guard = addr`.  (The first form does without the guard.)
GuardAddrNot(w) ==
  /\ pc[w] = "idle" /\ captured[w] # NoMapping /\ Left(w) <= BufferSize
  /\ Sends(w, Left(w))
  /\ Goto(w, "last")
  /\ UNCHANGED <<then, want, size, offset, fd, local, captured, shut, doomed,
                 addr_map_, mutex_addr_, mapVars, version>>

GuardAddr(w) ==
  /\ pc[w] = "idle" /\ captured[w] # NoMapping /\ Left(w) <= BufferSize
  /\ local' = [local EXCEPT ![w] = captured[w]]
  /\ Sends(w, Left(w))
  /\ Goto(w, "last")
  /\ UNCHANGED <<then, want, size, offset, fd, captured, shut, doomed, addr_map_,
                 mutex_addr_, mapVars, version>>

\* SetLastWriteComplete() destroys the callback that owns the mapping.
SetLastWriteComplete(w) ==
  /\ pc[w] = "last"
  /\ captured' = [captured EXCEPT ![w] = NoMapping]
  /\ UNCHANGED <<want, size, offset, fd, local, reading, shut, addr_map_,
                 mutex_addr_, mapVars, version>>
  /\ Drop(w, captured[w], "send")

\* Send() has copied the part.
Sent(w) ==
  /\ pc[w] = "send"
  /\ ReadsNothing(w)
  /\ Goto(w, "return")
  /\ UNCHANGED <<then, want, size, offset, fd, local, captured, shut, doomed,
                 addr_map_, mutex_addr_, mapVars, version>>

\* ServeFile() or SendFileOfMmap() returns and drops addr or guard, if it has one.
ReturnHandler(w) ==
  /\ pc[w] = "return"
  /\ local' = [local EXCEPT ![w] = NoMapping]
  /\ UNCHANGED <<want, size, offset, fd, reading, captured, shut, addr_map_,
                 mutex_addr_, mapVars, version>>
  /\ Drop(w, local[w], "idle")

\* The connection goes down, perhaps in the middle of a transfer, and its callback
\* with it; the worker has a new one, whose session starts from nothing.
Disconnect(w) ==
  /\ pc[w] = "idle" /\ (captured[w] # NoMapping \/ w \in shut \/ cache_filesize_[w] > 0)
  /\ size' = [size EXCEPT ![w] = 0]
  /\ cache_filesize_' = [cache_filesize_ EXCEPT ![w] = 0]
  /\ fresh' = [fresh EXCEPT ![w] = FALSE]
  /\ captured' = [captured EXCEPT ![w] = NoMapping]
  /\ shut' = shut \ {w}
  /\ UNCHANGED <<want, fd, local, reading, addr_map_, mutex_addr_, mapVars, version>>
  /\ Drop(w, captured[w], "idle")

-----------------------------------------------------------------------------
(* The deleter                                                             *)

LockDeleter(w) ==
  /\ pc[w] = "del" /\ mutex_addr_ = Nobody
  /\ mutex_addr_' = w
  /\ Goto(w, "erase")
  /\ UNCHANGED <<then, want, size, offset, fd, local, reading, captured, shut,
                 doomed, addr_map_, mapVars, version>>

\* (A deleter that does not look whose entry it is.)
ErasesAlways(p) == TRUE
Erases(p) == Expired(addr_map_[p])

Erase(w) ==
  LET path == file[doomed[w]]
  IN /\ pc[w] = "erase"
     /\ addr_map_' = IF Erases(path) THEN [addr_map_ EXCEPT ![path] = NoEntry]
                                     ELSE addr_map_
     /\ Goto(w, "munmap")
     /\ UNCHANGED <<then, want, size, offset, fd, local, reading, captured, shut,
                    doomed, mutex_addr_, mapVars, version>>

\* munmap() of the mapping with the captured length, before the guard releases
\* the mutex.  (The first form unmaps as much as the session believes the file
\* to have.)
UnmapsSize(w) == size[w]
Unmaps(w) == len[doomed[w]]

Munmap(w) ==
  /\ pc[w] = "munmap"
  /\ extent' = [extent EXCEPT ![doomed[w]] = IF @ > Unmaps(w) THEN @ - Unmaps(w) ELSE 0]
  /\ len' = [len EXCEPT ![doomed[w]] = 0]
  /\ file' = [file EXCEPT ![doomed[w]] = NoPath]
  /\ doomed' = [doomed EXCEPT ![w] = NoMapping]
  /\ mutex_addr_' = Nobody
  /\ Goto(w, then[w])
  /\ then' = [then EXCEPT ![w] = "idle"]
  /\ UNCHANGED <<want, size, offset, fd, local, reading, captured, shut, addr_map_,
                 version>>

-----------------------------------------------------------------------------
\* Somebody changes a file of the site while the server runs.
ChangeFile(p) ==
  /\ version[p] < Len(SizesOf[p])
  /\ version' = [version EXCEPT ![p] = @ + 1]
  /\ UNCHANGED <<pc, then, want, size, offset, fd, local, reading, captured, shut,
                 doomed, addr_map_, mutex_addr_, mapVars>>

Step(w) == \/ LockGetAddr(w) \/ Find(w) \/ OpenFile(w) \/ Mmap(w) \/ MmapFails(w)
           \/ ReturnGetAddr(w) \/ InstallCallback(w) \/ SetLastWriteComplete(w)
           \/ Sent(w) \/ ReturnHandler(w)
           \/ LockDeleter(w) \/ Erase(w) \/ Munmap(w)

Next == \/ \E w \in Workers : \/ \E p \in Paths : CallGetAddr(w, p)
                              \/ SendPart(w) \/ GuardAddr(w) \/ Disconnect(w)
                              \/ Step(w)
        \/ \E p \in Paths : ChangeFile(p)

Spec == Init /\ [][Next]_vars

\* As in FdCache: a running thread goes on, the mutex is not fair.
FairSpec == Spec /\ \A w \in Workers : WF_vars(Step(w))

-----------------------------------------------------------------------------
(* Properties                                                              *)

\* Every variable has its type.
TypeOK ==
  /\ pc \in [Workers -> {"idle", "get", "find", "open", "mmap", "unlock", "serve",
                         "last", "send", "return", "del", "erase", "munmap"}]
  /\ then \in [Workers -> {"idle", "return", "send"}]
  /\ want \in [Workers -> Paths \cup {NoPath}]
  /\ size \in [Workers -> Nat]
  /\ cache_filesize_ \in [Workers -> Nat] /\ fresh \in [Workers -> BOOLEAN]
  /\ fd \in [Workers -> Int]
  /\ local \in [Workers -> Mappings \cup {NoMapping}]
  /\ buf \in [Workers -> Mappings \cup {NoMapping}] /\ upto \in [Workers -> Nat]
  /\ captured \in [Workers -> Mappings \cup {NoMapping}]
  /\ shut \subseteq Workers
  /\ doomed \in [Workers -> Mappings \cup {NoMapping}]
  /\ addr_map_ \in [Paths -> Mappings \cup {NoMapping, NoEntry}]
  /\ mutex_addr_ \in Workers \cup {Nobody}
  /\ file \in [Mappings -> Paths \cup {NoPath}]
  /\ len \in [Mappings -> Nat]
  /\ extent \in [Mappings -> Nat]
  /\ version \in [Paths -> Nat \ {0}]

\* What a handler reads from is mapped, although the pointer is raw: in
\* ServeFile() addr keeps the mapping, between two parts the callback does, and for
\* the last part only guard ("Must guard here!"), since the callback that had it is
\* gone by then.
ReadsAreMapped == \A w \in Workers : buf[w] # NoMapping => buf[w] \in mapped

\* A session that shares a mapping somebody else made reads no further than it
\* reaches, part by part, provided that the file has never been changed, and for the
\* parts after the first that cache_filesize_ was zero when ServeFile() began to count
\* them.  (If the file has changed, the size one session saw may exceed the length
\* another one mapped.  If the counter was not zero, which no response resets it to,
\* the offset is wrong and the rest that is left may wrap: then the mapping is overrun,
\* here as in the code.)
ReadsFitUnlessChanged ==
  \A w \in Workers :
    /\ buf[w] # NoMapping /\ version[file[buf[w]]] = 1
    /\ fresh[w] \/ pc[w] = "serve"
    => upto[w] <= extent[buf[w]]

\* A mapping is unmapped whole, by one deleter: what is mapped belongs to a
\* shared_ptr or to exactly one deleter.
MappedIsOwned ==
  \A m \in mapped \ InUse : \E w \in Workers : /\ doomed[w] = m
                                             /\ \A v \in Workers \ {w} : doomed[v] # m

\* Whoever is not inside GetAddr() has closed every descriptor it has opened, and once,
\* whether open() and mmap() succeeded or not: one is open only under the mutex.
DescriptorsAreClosed == \A w \in Workers : fd[w] = 0 \/ (fd[w] = 1 /\ mutex_addr_ = w)

\* The sessions share the mappings as FileSharing says descriptors are shared:
\* a mapping stays while somebody refers to it, a path in use is not mapped a
\* second time, and only what nobody refers to is unmapped.
Sharing == INSTANCE FileSharing WITH Handles <- Mappings, NoHandle <- NoMapping,
                                     open <- mapped
SharesMappings == Sharing!Spec

\* Once no thread asks for files, every mapping nobody refers to goes in the end.
QuietUnmaps == <>[](\A w \in Workers : pc[w] # "get") => <>[](mapped \subseteq InUse)
=============================================================================
