------------------------------- MODULE Websocket -------------------------------
(***************************************************************************)
(* Websockets over the buffered socket and the file poller                 *)
(* (uclib/websocket.h, uclib/websocket.c): a listener, connections a       *)
(* server accepted, connections a client made.  The program is one thread: *)
(* it polls, calls the handlers of the events, and between handlers (or in *)
(* their callbacks) uses the interface of websocket.h.  Peers and the      *)
(* kernel act at any time.                                                 *)
(*                                                                         *)
(* What a peer sends is a sequence of units, each of two pieces, and read  *)
(* may deliver any number of pieces.  Data to send is counted in pieces.   *)
(***************************************************************************)
EXTENDS Poller, Integers, FiniteSets, FiniteSetsExt

CONSTANTS Slots,            \* indices of user_socket_pool
          MaxOpen,          \* bound: connections opened or accepted
          MaxUnits,         \* bound: units a peer sends on a connection
          MaxTx,            \* bound: pieces waiting to be sent
          MaxBadUrls        \* bound: urls or addresses that are of no use

Types == {"server_listen", "server_client", "client"}

\* What a peer may send; of each unit there are two pieces.  A peer that waits
\* to be accepted is what a listening descriptor has to be read.
Units  == {"handshake", "refused", "data", "close"}
Pieces == (Units \cup {"peer"}) \X {1, 2}

\* websocket_socket_t, and what the poller keeps for it.
Connections ==
    [type : Types, fd : Fds, number : 0 .. MaxOpen, handshake : BOOLEAN,
     connecting : BOOLEAN, armed : BOOLEAN, old : BOOLEAN,
     rx : Seq(Pieces), tx : 0 .. MaxTx, got : Seq(Pieces)]
Registrations == [id : Slots, type : Types, write : BOOLEAN]

\* A slot for a listener and for every connection: the pool grows as needed.
ASSUME WebsocketAssumption ==
    /\ IsFiniteSet(Slots) /\ Cardinality(Slots) > MaxOpen
    /\ Slots \subseteq Nat
    /\ IsFiniteSet(Fds) /\ Fds \subseteq Nat /\ 0 \in Fds
    /\ MaxOpen \in Nat /\ MaxUnits \in Nat /\ MaxTx \in Nat \ {0, 1}
    /\ MaxBadUrls \in Nat
    /\ NoFile \notin Connections /\ NoFile \notin Registrations

VARIABLES
    conn,       \* user_socket_pool: a connection or NoFile for a free slot
    file,       \* external: the kernel's side of each descriptor
    opened,     \* history: connections opened so far
    badUrls,    \* history: urls or addresses that were of no use
    closed,     \* history: for each connection, how often connection_will_close
    closing,    \* history: websocket_close was called while a batch was handled
    asserted    \* an ASSERT failed (a debug build stops here)

vars == <<conn, file, opened, badUrls, closed, closing, asserted, pollerVars>>

\* A new websocket_socket_t.  armed is is_tx_data_available_to_write; old says that
\* rx_handshake_timeout_in_sec have passed since the connection was made; got
\* is history: the pieces taken out of rx.
Connection(type, fd, number, connecting, armed) ==
    [type |-> type, fd |-> fd, number |-> number, handshake |-> FALSE,
     connecting |-> connecting, armed |-> armed, old |-> FALSE,
     rx |-> <<>>, tx |-> 0, got |-> <<>>]

\* The kernel's side: who has it open; connected; pieces to be read; the peer
\* has closed; an error is pending; no room to write.  sent is history.
KernelFile(use, up) ==
    [use |-> use, up |-> up, in |-> <<>>, eof |-> FALSE, err |-> FALSE,
     full |-> FALSE, sent |-> <<>>]
Shut == KernelFile("closed", FALSE)

Init ==
    /\ PollerInit
    /\ conn = [i \in Slots |-> NoFile]
    /\ file = [fd \in Fds |-> IF fd = 0 THEN KernelFile("program", FALSE) ELSE Shut]
    /\ opened = 0 /\ badUrls = 0
    /\ closed = [n \in 1 .. MaxOpen |-> 0]
    /\ closing = FALSE /\ asserted = FALSE

Live      == {i \in Slots : conn[i] # NoFile}
FreeSlots == Slots \ Live
FreeFds   == {fd \in Fds : file[fd].use = "closed"}

\* A peer that waits to be accepted counts towards MaxOpen.
PeerWaits == \E fd \in Fds : file[fd].use = "listen" /\ file[fd].in # <<>>

\* The kernel forgets a descriptor and its registration when it is closed.
CloseFd(f, fd) == [f EXCEPT ![fd] = Shut]

-----------------------------------------------------------------------------
(* Wrong versions of definitions below, for mutation checks of the           *)
(* properties: none is used by the specification.                            *)

\* The connection is taken back without telling anybody.
ClosedSilently(i) ==
    /\ conn' = [conn EXCEPT ![i] = NoFile]
    /\ file' = CloseFd(file, conn[i].fd)
    /\ interest' = Deleted(interest, conn[i].fd)
    /\ UNCHANGED closed

\* The flag is toggled and the poller not told.
ToggledOnly(i, c, f) ==
    /\ conn' = [conn EXCEPT ![i] = [c EXCEPT !.armed = c.tx > 0]]
    /\ file' = [file EXCEPT ![c.fd] = f]
    /\ UNCHANGED interest

\* rx_buffer is emptied, the beginning of the next frame with it.
AllDeleted(c, n) == [c EXCEPT !.rx = <<>>, !.got = @ \o SubSeq(c.rx, 1, n)]

\* Only connections that sent something are reaped.
ExpiredOnly(c) == c.type = "server_client" /\ ~ c.handshake /\ c.old /\ c.rx # <<>>

\* What was not sent asks for no write readiness.
NeverWaits(c) == c.tx < 0

-----------------------------------------------------------------------------
(* Reading and writing a socket *)

\* websocket_main_close_socket: the callback, the poller, close, the pool.
Close(i) ==
    /\ conn' = [conn EXCEPT ![i] = NoFile]
    /\ file' = CloseFd(file, conn[i].fd)
    /\ interest' = Deleted(interest, conn[i].fd)
    /\ closed' = IF conn[i].number = 0 THEN closed
                 ELSE [closed EXCEPT ![conn[i].number] = @ + 1]

\* After an error was returned by read or writev, the connection is down.
Reset(f) == [f EXCEPT !.err = FALSE, !.eof = TRUE, !.in = <<>>]

Writable(f) == f.up /\ ~ f.full

\* clib_socket_tx of n pieces: what is left, and the kernel's side.
TxResults(n, f) ==
    IF f.err THEN {[left |-> n, f |-> Reset(f)]}
    ELSE IF n = 0 \/ ~ Writable(f) THEN {[left |-> n, f |-> f]}
    ELSE {[left |-> k, f |-> [f EXCEPT !.full = k > 0]] : k \in 0 .. n - 1}

\* The first n pieces of rx_buffer are deleted.
RxDeleted(c, n) ==
    [c EXCEPT !.rx = SubSeq(c.rx, n + 1, Len(c.rx)), !.got = @ \o SubSeq(c.rx, 1, n)]

StartsWith(rx, unit) == Len(rx) >= 2 /\ rx[1] = <<unit, 1>> /\ rx[2] = <<unit, 2>>

Begun(rx, unit) == rx = <<<<unit, 1>>>>

\* parse_rx_handshake: accepted, refused with an error, or to be tried again.
\* A carriage return alone ends a line (http.c), so what was cut off between
\* the last one and its line feed is taken early and leaves the line feed.
ServerParse(rx) ==
    {p \in {"ok", "early", "error", "wait"} :
        \/ p = "ok" /\ StartsWith(rx, "handshake")
        \/ p = "early" /\ Begun(rx, "handshake")
        \/ p = "error" /\ (StartsWith(rx, "refused") \/ Begun(rx, "refused"))
        \/ p = "wait" /\ ~ StartsWith(rx, "handshake") /\ ~ StartsWith(rx, "refused")}

\* parse_tx_handshake: a response cut off after its first line is also taken
\* for one without any header lines.
ClientParse(rx) ==
    IF rx = <<>> \/ rx[1][1] = "data" \/ StartsWith(rx, "handshake") THEN ServerParse(rx)
    ELSE ServerParse(rx) \cup {"error"}

\* parse_rx_frame: the frames of data at the head of rx that are complete, and
\* whether a frame follows that closes the connection, for which two bytes of
\* it have to be there: a line feed left over is one.
DataFrames(rx) ==
    LET whole(n) == \A k \in 1 .. n : StartsWith(SubSeq(rx, 2 * k - 1, 2 * k), "data")
    IN  Max({n \in 0 .. Len(rx) \div 2 : whole(n)})
BadFrame(rx) ==
    LET n == 2 * DataFrames(rx)
    IN  Len(rx) > n /\ rx[n + 1][1] # "data" /\ rx # <<<<"handshake", 2>>>>

\* The frames of connection c at slot i; callback says whether rx_frame_payload
\* returns an error for one.
FramesParsed(i, c, f, callback) ==
    LET n == DataFrames(c.rx)
    IN  IF BadFrame(c.rx) \/ (callback = "error" /\ n > 0) THEN Close(i)
        ELSE /\ conn' = [conn EXCEPT ![i] = RxDeleted(c, 2 * n)]
             /\ file' = [file EXCEPT ![c.fd] = f]
             /\ UNCHANGED <<interest, closed>>

\* Time since creation; creation is at 0 until a client is connected.
Expired(c) == c.old \/ c.connecting

\* What follows a successful read for connection c, which is not yet stored.
\* A server answers the handshake at once.
Received(i, c, f, callback) ==
    IF c.handshake THEN FramesParsed(i, c, f, callback)
    ELSE \E parsed \in IF batch[1].type = "client" THEN ClientParse(c.rx) ELSE ServerParse(c.rx) :
        IF parsed \in {"ok", "early"}
        THEN IF callback = "error" THEN Close(i)    \* did_receive_handshake
             ELSE \E r \in IF batch[1].type = "client" THEN {[left |-> c.tx, f |-> f]}
                           ELSE TxResults(c.tx + 2, f) :
                      FramesParsed(i, RxDeleted([c EXCEPT !.handshake = TRUE, !.tx = r.left],
                                                IF parsed = "ok" THEN 2 ELSE 1),
                                   r.f, callback)
        ELSE IF Expired(c) \/ parsed = "error" THEN Close(i)
        ELSE /\ conn' = [conn EXCEPT ![i] = c]
             /\ file' = [file EXCEPT ![c.fd] = f]
             /\ UNCHANGED <<interest, closed>>

-----------------------------------------------------------------------------
(* Handlers *)

\* The event now being handled, for a live slot and one of its handlers.
Handling(call, types) ==
    /\ batch # <<>> /\ conn[batch[1].id] # NoFile
    /\ NextCall(batch[1]) = call /\ batch[1].type \in types
    /\ batch' = AfterCall(batch)

\* websocket_server_file_read_ready, websocket_client_file_read_ready
ReadReady ==
    /\ Handling("read", {"server_client", "client"})
    /\ LET i == batch[1].id
           c == conn[i]
           f == file[c.fd]
       IN  IF f.err
           THEN /\ file' = [file EXCEPT ![c.fd] = Reset(f)]
                /\ UNCHANGED <<conn, interest, closed>>
           ELSE IF f.in = <<>> /\ f.eof THEN Close(i)
           ELSE \E n \in (IF f.in = <<>> THEN {0} ELSE 1 .. Len(f.in)), callback \in {"ok", "error"} :
                    Received(i, [c EXCEPT !.rx = @ \o SubSeq(f.in, 1, n)],
                             [f EXCEPT !.in = SubSeq(f.in, n + 1, Len(f.in))], callback)
    /\ UNCHANGED <<opened, badUrls, closing, asserted>>

\* websocket_socket_update_write_data_available
WriteInterest(c) == c.tx > 0
StoreUpdated(i, c, f) ==
    /\ conn' = [conn EXCEPT ![i] = [c EXCEPT !.armed = WriteInterest(c)]]
    /\ file' = [file EXCEPT ![c.fd] = f]
    /\ interest' = IF c.armed = WriteInterest(c) THEN interest
                   ELSE Updated(interest, c.fd, i, c.type, WriteInterest(c))

\* websocket_server_file_write_ready
ServerWriteReady ==
    /\ Handling("write", {"server_client"})
    /\ LET i == batch[1].id
           c == conn[i]
       IN  \E r \in TxResults(c.tx, file[c.fd]) :
               IF file[c.fd].err
               THEN file' = [file EXCEPT ![c.fd] = r.f] /\ UNCHANGED <<conn, interest>>
               ELSE StoreUpdated(i, [c EXCEPT !.tx = r.left], r.f)
    /\ UNCHANGED <<opened, closed, badUrls, closing, asserted>>

\* websocket_client_file_write_ready: the first time the connection has been
\* made, and the request is sent.
ClientWriteReady ==
    /\ Handling("write", {"client"})
    /\ LET i == batch[1].id
           c == conn[i]
           n == IF c.connecting THEN c.tx + 2 ELSE c.tx
       IN  IF c.connecting /\ file[c.fd].err     \* clib_socket_non_blocking_connect_status
           THEN /\ conn' = [conn EXCEPT ![i].connecting = FALSE]
                /\ file' = [file EXCEPT ![c.fd] = Reset(@)]
                /\ UNCHANGED interest
           ELSE \E r \in TxResults(n, file[c.fd]) :
                    StoreUpdated(i, [c EXCEPT !.connecting = FALSE, !.tx = r.left], r.f)
    /\ UNCHANGED <<opened, closed, badUrls, closing, asserted>>

\* websocket_file_error_ready
ErrorReady ==
    /\ Handling("error", Types)
    /\ Close(batch[1].id)
    /\ UNCHANGED <<opened, badUrls, closing, asserted>>

\* websocket_server_file_accept_on_read_ready, and when accept fails for want
\* of a descriptor.
Accept ==
    /\ Handling("read", {"server_listen"})
    /\ IF FreeFds = {} THEN UNCHANGED <<conn, file, interest, opened>>
       ELSE LET fd == Min(FreeFds)
            IN  \E i \in FreeSlots :
                    /\ conn' = [conn EXCEPT ![i] = Connection("server_client", fd, opened + 1, FALSE, FALSE)]
                    /\ file' = [file EXCEPT ![fd] = KernelFile("socket", TRUE),
                                             ![conn[batch[1].id].fd].in = <<>>]
                    /\ interest' = Updated(interest, fd, i, "server_client", FALSE)
                    /\ opened' = opened + 1
    /\ UNCHANGED <<closed, badUrls, closing, asserted>>

\* websocket_at_index asserts that the slot is in use.
StaleIndex ==
    /\ batch # <<>> /\ conn[batch[1].id] = NoFile
    /\ asserted' = TRUE
    /\ UNCHANGED <<conn, file, interest, batch, opened, closed, badUrls, closing>>

\* What epoll reports of a descriptor.
ReadyCalls(fd) ==
    LET f == file[fd]
    IN  IF f.err THEN {"error"}
        ELSE {c \in {"read", "write"} :
                \/ c = "write" /\ interest[fd].write /\ Writable(f)
                \/ c = "read" /\ (f.in # <<>> \/ f.eof)}

Number(i) == conn[i].number

PollForInput ==
    /\ Poll([fd \in Fds |-> ReadyCalls(fd)], [i \in Live |-> Number(i)])
    /\ closing' = FALSE
    /\ UNCHANGED <<conn, file, opened, closed, badUrls, asserted>>

-----------------------------------------------------------------------------
(* The interface *)

\* websocket_server_add_listener
AddListener ==
    /\ batch = <<>> /\ FreeSlots # {} /\ FreeFds # {}
    /\ \A i \in Live : conn[i].type # "server_listen"        \* bound: one listener
    /\ LET fd == Min(FreeFds)
       IN  \E i \in FreeSlots :
               /\ conn' = [conn EXCEPT ![i] = Connection("server_listen", fd, 0, FALSE, FALSE)]
               /\ file' = [file EXCEPT ![fd] = KernelFile("listen", FALSE)]
               /\ interest' = Updated(interest, fd, i, "server_listen", FALSE)
    /\ UNCHANGED <<batch, opened, closed, badUrls, closing, asserted>>

\* websocket_client_add_connection
AddConnection ==
    /\ batch = <<>> /\ opened < MaxOpen /\ ~ PeerWaits /\ FreeFds # {}
    /\ LET fd == Min(FreeFds)
       IN  \E i \in FreeSlots :
               /\ conn' = [conn EXCEPT ![i] = Connection("client", fd, opened + 1, TRUE, TRUE)]
               /\ file' = [file EXCEPT ![fd] = KernelFile("socket", FALSE)]
               /\ interest' = Updated(interest, fd, i, "client", TRUE)
    /\ opened' = opened + 1
    /\ UNCHANGED <<batch, closed, badUrls, closing, asserted>>

\* Either of them when the url or the address is of no use: the slot is given
\* back, and the descriptor it holds, which is still 0, closed.
AddFails ==
    /\ batch = <<>> /\ FreeSlots # {} /\ badUrls < MaxBadUrls
    /\ badUrls' = badUrls + 1
    /\ file' = CloseFd(file, 0)
    /\ interest' = Deleted(interest, 0)
    /\ UNCHANGED <<conn, batch, opened, closed, closing, asserted>>

\* A frame is added and sent as far as the kernel takes it
\* (websocket_socket_tx_frame_helper).
TxFrame(i) ==
    /\ conn[i].handshake /\ conn[i].tx + 2 <= MaxTx
    /\ \E r \in TxResults(conn[i].tx + 2, file[conn[i].fd]) :
           /\ conn' = [conn EXCEPT ![i].tx = r.left]
           /\ file' = [file EXCEPT ![conn[i].fd] = r.f]
    /\ UNCHANGED <<interest, batch, opened, closed, badUrls, closing, asserted>>

\* websocket_close, which a callback may call for any connection.
WebsocketClose(i) ==
    /\ Close(i)
    /\ closing' = (closing \/ batch # <<>>)
    /\ UNCHANGED <<batch, opened, badUrls, asserted>>

\* websocket_close_all_sockets_with_no_handshake
Reaped(c) == c.type = "server_client" /\ ~ c.handshake /\ c.old
Reap ==
    LET reaped == {i \in Live : Reaped(conn[i])}
        fds    == {conn[i].fd : i \in reaped}
    IN  /\ batch = <<>> /\ reaped # {}
        /\ conn' = [i \in Slots |-> IF i \in reaped THEN NoFile ELSE conn[i]]
        /\ file' = [fd \in Fds |-> IF fd \in fds THEN Shut ELSE file[fd]]
        /\ interest' = [fd \in Fds |-> IF fd \in fds THEN NoFile ELSE interest[fd]]
        /\ closed' = [n \in DOMAIN closed |->
                         IF \E i \in reaped : conn[i].number = n THEN closed[n] + 1 ELSE closed[n]]
        /\ UNCHANGED <<batch, opened, badUrls, closing, asserted>>

-----------------------------------------------------------------------------
(* Peers, kernel, time *)

Sockets == {fd \in Fds : file[fd].use = "socket"}

Env(fd, f) ==
    /\ file' = [file EXCEPT ![fd] = f]
    /\ UNCHANGED <<conn, interest, batch, opened, closed, badUrls, closing, asserted>>

PeerSend(fd, unit) ==
    /\ file[fd].up /\ ~ file[fd].eof /\ Len(file[fd].sent) < 2 * MaxUnits
    /\ LET pieces == <<<<unit, 1>>, <<unit, 2>>>>
       IN  Env(fd, [file[fd] EXCEPT !.in = @ \o pieces, !.sent = @ \o pieces])

PeerClose(fd) == file[fd].up /\ ~ file[fd].eof /\ Env(fd, [file[fd] EXCEPT !.eof = TRUE])

\* The connection is reset, or the attempt to make it fails.
PeerReset(fd) == ~ file[fd].err /\ ~ file[fd].eof
                 /\ Env(fd, [file[fd] EXCEPT !.err = TRUE, !.eof = TRUE, !.in = <<>>])

Connected(fd) == ~ file[fd].up /\ ~ file[fd].eof /\ Env(fd, [file[fd] EXCEPT !.up = TRUE])

Drained(fd) == file[fd].full /\ Env(fd, [file[fd] EXCEPT !.full = FALSE])

\* A peer waits to be accepted.
PeerConnect(fd) ==
    /\ file[fd].use = "listen" /\ file[fd].in = <<>> /\ opened < MaxOpen
    /\ Env(fd, [file[fd] EXCEPT !.in = <<<<"peer", 1>>>>])

Expire(i) ==
    /\ ~ conn[i].handshake /\ ~ conn[i].connecting /\ ~ conn[i].old
    /\ conn[i].type # "server_listen"
    /\ conn' = [conn EXCEPT ![i].old = TRUE]
    /\ UNCHANGED <<file, interest, batch, opened, closed, badUrls, closing, asserted>>

Handlers == ReadReady \/ ServerWriteReady \/ ClientWriteReady \/ ErrorReady \/ Accept

Program == Handlers \/ StaleIndex \/ PollForInput

Next ==
    /\ ~ asserted
    /\ \/ Program
       \/ AddListener \/ AddConnection \/ AddFails \/ Reap
       \/ \E i \in Live : TxFrame(i) \/ WebsocketClose(i) \/ Expire(i)
       \/ \E fd \in Sockets :
              \/ \E unit \in Units : PeerSend(fd, unit)
              \/ PeerClose(fd) \/ PeerReset(fd) \/ Connected(fd) \/ Drained(fd)
       \/ \E fd \in Fds : PeerConnect(fd)

Spec == Init /\ [][Next]_vars

\* The program keeps polling and reaping, time passes, and peers that do not
\* close take what is sent to them.
FairSpec ==
    /\ Spec
    /\ WF_vars(~ asserted /\ Program)
    /\ WF_vars(~ asserted /\ Reap)
    /\ \A i \in Slots : WF_vars(~ asserted /\ i \in Live /\ Expire(i))
    /\ \A fd \in Fds : WF_vars(~ asserted /\ fd \in Sockets /\ Drained(fd))

-----------------------------------------------------------------------------
(* Properties *)

Files ==
    [use : {"closed", "program", "listen", "socket"}, up : BOOLEAN, in : Seq(Pieces),
     eof : BOOLEAN, err : BOOLEAN, full : BOOLEAN, sent : Seq(Pieces)]
Calls  == {{"error"}, {"read"}, {"write"}, {"read", "write"}}
Events == [id : Slots, type : Types, calls : Calls, number : 0 .. MaxOpen]

TypeOK ==
    /\ conn \in [Slots -> Connections \cup {NoFile}]
    /\ file \in [Fds -> Files]
    /\ interest \in [Fds -> Registrations \cup {NoFile}]
    /\ batch \in Seq(Events)
    /\ opened \in 0 .. MaxOpen /\ badUrls \in 0 .. MaxBadUrls
    /\ closed \in [1 .. MaxOpen -> 0 .. 1]
    /\ closing \in BOOLEAN /\ asserted \in BOOLEAN

\* Through accepting, closing, reaping, failures and reuse of slots and
\* descriptors: the poller knows exactly the live connections, each under its
\* own descriptor, with its id and type, and asks for write readiness exactly
\* when the connection believes it does; and every value has its type.
RegistrationsMatch ==
    /\ TypeOK
    /\ \A i \in Live : interest[conn[i].fd] = File(i, conn[i].type, conn[i].armed)
    /\ \A fd \in Fds : interest[fd] # NoFile =>
           /\ interest[fd].id \in Live /\ conn[interest[fd].id].fd = fd

\* Every event that still waits in a batch is for the connection that it was
\* reported for, however many the handlers before it closed or accepted, as
\* long as no callback closes a connection other than its own.
EventsFindConnection ==
    closing \/ \A k \in DOMAIN batch :
        /\ batch[k].id \in Live
        /\ conn[batch[k].id].number = batch[k].number
        /\ conn[batch[k].id].type = batch[k].type

\* What a connection has taken out of rx_buffer, what waits in it and what the
\* kernel has for it is what the peer sent, in order: parsing a handshake or
\* a frame that comes in pieces never loses or repeats any.
ReceivedInOrder ==
    \A i \in {k \in Live : conn[k].type # "server_listen"} :
        conn[i].got \o conn[i].rx \o file[conn[i].fd].in
            = SubSeq(file[conn[i].fd].sent, 1,
                     Len(conn[i].got \o conn[i].rx \o file[conn[i].fd].in))

\* Whoever was told of a connection is told exactly once that it closes, by
\* connection_will_close, and then its slot is free: on errors, time-outs,
\* refusals and end of file alike.  Of its descriptor this says nothing.
ClosedOnce ==
    \A n \in 1 .. MaxOpen :
        /\ closed[n] \in 0 .. 1
        /\ closed[n] = 0 /\ n <= opened => \E i \in Live : conn[i].number = n
        /\ closed[n] = 1 => \A i \in Live : conn[i].number # n

\* A connection accepted that does not complete its handshake is closed, by
\* a handler or by the reaper.
HandshakeOrClosed ==
    \A n \in 1 .. MaxOpen :
        (\E i \in Live : conn[i].number = n /\ conn[i].type = "server_client")
            ~> (asserted \/ closed[n] = 1 \/ \E i \in Live : conn[i].number = n /\ conn[i].handshake)

\* A client whose connection is made sends its request, through any number
\* of times the kernel has no room for it.
RequestSent ==
    \A n \in 1 .. MaxOpen :
        (\E i \in Live : conn[i].number = n /\ file[conn[i].fd].up /\ conn[i].type = "client")
            ~> (asserted \/ closed[n] = 1 \/ \E i \in Live : conn[i].number = n /\ ~ conn[i].connecting
                                                 /\ (conn[i].tx = 0 \/ conn[i].handshake))

\* Whatever is added for transmission is sent unless the connection closes:
\* the fifo "of tx buffers to be sent out".
EverythingSent ==
    \A n \in 1 .. MaxOpen :
        (\E i \in Live : conn[i].number = n /\ conn[i].tx > 0)
            ~> (asserted \/ closed[n] = 1 \/ \E i \in Live : conn[i].number = n /\ (conn[i].tx = 0 \/ file[conn[i].fd].eof))

=============================================================================
