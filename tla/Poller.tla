--------------------------------- MODULE Poller ---------------------------------
(***************************************************************************)
(* The file poller of uclib/unix_file_poller.h and uclib/unix_file_poller.c *)
(* (the epoll half): descriptors are registered with the id and the type of *)
(* the file they belong to; one wait brings a batch of events, whose        *)
(* handlers are called one after the other and may change registrations.    *)
(*                                                                         *)
(* The handlers belong to whoever uses the poller: module Websocket.        *)
(***************************************************************************)
EXTENDS Naturals, Sequences, SequencesExt

CONSTANTS Fds,          \* file descriptors
          NoFile        \* no registration

VARIABLES
    interest,   \* the epoll set: for each descriptor [id, type, write] or NoFile
    batch       \* epoll_events not yet handled: [id, type, calls] and, as
                \* history, the number of the connection registered then

pollerVars == <<interest, batch>>

PollerInit == interest = [fd \in Fds |-> NoFile] /\ batch = <<>>

File(id, type, write) == [id |-> id, type |-> type, write |-> write]

\* linux_epoll_update: UNIX_FILE_POLLER_UPDATE_ADD and _MODIFY, and _DELETE.
Updated(set, fd, id, type, write) == [set EXCEPT ![fd] = File(id, type, write)]
Deleted(set, fd) == [set EXCEPT ![fd] = NoFile]

\* A wrong version of the next definition, for a mutation check only.
ReadBeforeWrite(event) ==
    IF "error" \in event.calls THEN "error"
    ELSE IF "read" \in event.calls THEN "read" ELSE "write"

\* The handler to call first for an event: an error hides the others, and
\* what can be written is written before anything is read.
NextCall(event) ==
    IF "error" \in event.calls THEN "error"
    ELSE IF "write" \in event.calls THEN "write" ELSE "read"

\* The batch once that handler has returned.
AfterCall(b) ==
    LET left == b[1].calls \ {NextCall(b[1])}
    IN  IF left = {} \/ NextCall(b[1]) = "error" THEN Tail(b)
        ELSE <<[b[1] EXCEPT !.calls = left]>> \o Tail(b)

\* linux_epoll_input: epoll_pwait returns every descriptor that is ready, in
\* any order.  ready[fd] is the set of handlers to call.
Poll(ready, number) ==
    LET waiting == {fd \in Fds : interest[fd] # NoFile /\ ready[fd] # {}}
    IN  /\ batch = <<>> /\ waiting # {}
        /\ \E order \in SetToSeqs(waiting) :
               batch' = [k \in DOMAIN order |->
                            [id |-> interest[order[k]].id, type |-> interest[order[k]].type,
                             calls |-> ready[order[k]],
                             number |-> number[interest[order[k]].id]]]
        /\ UNCHANGED interest

=============================================================================
