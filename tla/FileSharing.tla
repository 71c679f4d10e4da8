---------------------------- MODULE FileSharing ----------------------------
(***************************************************************************)
(* What the descriptor cache of HttpServer promises to the sessions that   *)
(* use it, without locks, weak pointers or a map.                          *)
(*                                                                         *)
(* A session asks for the file at a path and obtains a handle.  All the    *)
(* sessions that use one path at one time share one handle; a handle stays *)
(* open for as long as anybody refers to it and is closed only after that. *)
(* A session has two places to keep a reference: the local variable of the *)
(* handler that serves a request, and the write-complete callback that     *)
(* goes on sending the file later.                                         *)
(***************************************************************************)
CONSTANTS Workers,  \* the sessions, each on its I/O thread
          Paths,    \* the files of the site
          Handles,  \* open file descriptions
          NoHandle, \* a null shared_ptr
          NoPath    \* the file of a handle nobody has opened

VARIABLES local,    \* the handle the handler of a worker refers to
          captured, \* the handle the callback of a worker refers to
          file,     \* the path a handle was opened for
          open      \* the handles the kernel has open

fsVars == <<local, captured, file, open>>

\* The handles somebody refers to.
InUse == {h \in Handles : \E w \in Workers : local[w] = h \/ captured[w] = h}

Init == /\ local = [w \in Workers |-> NoHandle]
        /\ captured = [w \in Workers |-> NoHandle]
        /\ file = [h \in Handles |-> NoPath]
        /\ open = {}

\* Somebody uses path p already: its handle is shared.
Share(w, p) == /\ local[w] = NoHandle
               /\ \E h \in InUse : /\ file[h] = p
                                   /\ local' = [local EXCEPT ![w] = h]
               /\ UNCHANGED <<captured, file, open>>

\* Nobody uses path p: it is opened, on a handle nobody has.
OpenFresh(w, p) == /\ local[w] = NoHandle
                   /\ \A h \in InUse : file[h] # p
                   /\ \E h \in Handles \ open :
                        /\ local' = [local EXCEPT ![w] = h]
                        /\ file' = [file EXCEPT ![h] = p]
                        /\ open' = open \cup {h}
                   /\ UNCHANGED captured

\* The handler installs a callback that refers to its handle, or to none.
Install(w) == /\ captured' = [captured EXCEPT ![w] = local[w]]
              /\ UNCHANGED <<local, file, open>>

Forget(w) == /\ captured' = [captured EXCEPT ![w] = NoHandle]
             /\ UNCHANGED <<local, file, open>>

\* The handler returns.
Return(w) == /\ local' = [local EXCEPT ![w] = NoHandle]
             /\ UNCHANGED <<captured, file, open>>

\* A handle nobody refers to is closed.
Close(h) == /\ h \in open \ InUse
            /\ open' = open \ {h}
            /\ file' = [file EXCEPT ![h] = NoPath]
            /\ UNCHANGED <<local, captured>>

Next == \/ \E w \in Workers, p \in Paths : Share(w, p) \/ OpenFresh(w, p)
        \/ \E w \in Workers : Install(w) \/ Forget(w) \/ Return(w)
        \/ \E h \in Handles : Close(h)

Spec == Init /\ [][Next]_fsVars
=============================================================================
