----------------------------- MODULE WebsocketProofs -----------------------------
(***************************************************************************)
(* Websockets, for any number of slots, descriptors, connections, units    *)
(* and pieces: connections, descriptors, registrations and the events of a *)
(* batch fit together as long as at most one url was of no use, and what a *)
(* connection has read is what its peer sent.                              *)
(***************************************************************************)
EXTENDS Websocket, FiniteSetTheorems, SequenceTheorems, WellFoundedInduction, TLAPS

-----------------------------------------------------------------------------
(* The inductive invariant *)

\* A sequence is the beginning of another.
Begins(s, t) == Len(s) <= Len(t) /\ s = SubSeq(t, 1, Len(s))

\* Until the peer closes, what it sent is what was taken out of rx_buffer,
\* what waits there and what the kernel has; after that the last may be lost.
Stream(c, f) ==
    /\ Begins(c.got \o c.rx \o f.in, f.sent)
    /\ ~ f.eof => c.got \o c.rx \o f.in = f.sent

\* A client that is not connected yet has not sent its request, and is
\* reported as writable before there is anything to be read.
Unconnected(c, f) ==
    /\ c.type = "client" /\ c.tx = 0 /\ ~ c.handshake
    /\ ~ f.full /\ (f.eof => f.err \/ f.up) /\ (f.in # <<>> => f.up)

\* A connection and the kernel's side of its descriptor.
Fits(c, f) ==
    /\ c.type = "server_listen" <=> c.number = 0
    /\ c.type = "server_listen" => f.use = "listen" /\ ~ c.handshake /\ ~ f.eof /\ ~ f.err /\ ~ f.up
    /\ c.type # "server_listen" => f.use = "socket" /\ Stream(c, f)
    /\ c.type = "server_client" /\ ~ c.handshake => c.tx = 0
    /\ c.connecting => Unconnected(c, f) /\ c.armed

\* Every live connection has a descriptor and a registration that are its own;
\* no other descriptor is in use or registered.
Held ==
    /\ \A i \in Live : /\ Fits(conn[i], file[conn[i].fd])
                       /\ interest[conn[i].fd] = File(i, conn[i].type, conn[i].armed)
    /\ \A fd \in Fds : interest[fd] # NoFile \/ file[fd].use \in {"listen", "socket"} =>
           \E i \in Live : conn[i].fd = fd
    /\ badUrls = 0 => file[0].use = "program"

\* Connections are numbered as they are opened, and their ends are counted.
Numbered ==
    /\ \A i \in Live : conn[i].number <= opened
    /\ \A i, j \in Live : conn[i].number = conn[j].number => i = j
    /\ \A n \in 1 .. MaxOpen :
           closed[n] = 0 <=> (n > opened \/ \E i \in Live : conn[i].number = n)
    /\ PeerWaits => opened < MaxOpen

\* An event is for the connection that it was reported for, unless that was
\* closed by a callback; then its slot is free or was taken by Accept.
Expected(e) ==
    conn[e.id] # NoFile =>
        /\ conn[e.id].type = e.type
               \/ (conn[e.id].type = "server_client" /\ e.type # "server_listen")
        /\ e.type = "server_listen" => file[conn[e.id].fd].in # <<>>
        /\ conn[e.id].connecting => e.calls # {"read"}

Batched ==
    /\ \A k \in DOMAIN batch : Expected(batch[k])
    /\ \A j, k \in DOMAIN batch :
           \/ batch[j].id = batch[k].id
           \/ batch[j].type = "server_listen" /\ batch[k].type = "server_listen"
           => j = k
    /\ EventsFindConnection

IInv == TypeOK /\ Held /\ Numbered /\ Batched

\* The second url of no use would close descriptor 0 under a connection.
Sound == badUrls \in 0 .. MaxBadUrls /\ (badUrls <= 1 => IInv)

-----------------------------------------------------------------------------
(* Least and greatest numbers, beginnings *)

\* A set of numbers has a least one.
LEMMA MinIsLeast ==
    ASSUME NEW S, S \subseteq Nat, S # {}
    PROVE  Min(S) \in S /\ \A y \in S : Min(S) <= y
<1>1. PICK x \in S : \A y \in S : ~ (<<y, x>> \in OpToRel(<, Nat))
    BY NatLessThanWellFounded, WFMin
<1>2. \A y \in S : x <= y
    <2> SUFFICES ASSUME NEW y \in S, ~ (x <= y) PROVE FALSE OBVIOUS
    <2>1. <<y, x>> \in OpToRel(<, Nat) BY DEF OpToRel
    <2> QED BY <2>1, <1>1
<1> QED BY <1>2 DEF Min

\* A bounded one has a greatest.
LEMMA MaxIsGreatest ==
    ASSUME NEW n \in Nat, NEW S, S \subseteq 0 .. n, S # {}
    PROVE  Max(S) \in S /\ \A y \in S : y <= Max(S)
<1> DEFINE T == {n - x : x \in S}
<1>1. T \subseteq Nat /\ T # {}
    <2>1. \A x \in S : x \in 0 .. n /\ n - x \in Nat OBVIOUS
    <2>2. \A y \in T : y \in Nat BY <2>1
    <2> QED BY <2>2
<1>2. Min(T) \in T /\ \A y \in T : Min(T) <= y
    <2> HIDE DEF T
    <2> QED BY <1>1, MinIsLeast
<1>3. PICK x \in S : Min(T) = n - x BY <1>2
<1>4. \A y \in S : x >= y
    <2> TAKE y \in S
    <2>1. n - x <= n - y BY <1>2, <1>3
    <2> QED BY <2>1
<1> QED BY <1>4 DEF Max

\* What two sequences begin together, the first of them begins.
LEMMA ShorterBegins ==
    ASSUME NEW S, NEW s \in Seq(S), NEW u \in Seq(S), NEW t \in Seq(S), Begins(s \o u, t)
    PROVE  Begins(s, t)
<1>1. /\ s \o u \in Seq(S) /\ Len(s \o u) = Len(s) + Len(u)
      /\ \A k \in 1 .. Len(s) : (s \o u)[k] = s[k]
    BY ConcatProperties
<1>2. Len(s) <= Len(t) /\ Len(s) \in Nat
    BY <1>1 DEF Begins
<1>3. SubSeq(t, 1, Len(s)) \in Seq(S) /\ Len(SubSeq(t, 1, Len(s))) = Len(s)
    BY <1>2, SubSeqProperties
<1>4. ASSUME NEW k \in 1 .. Len(s) PROVE s[k] = SubSeq(t, 1, Len(s))[k]
    <2>1. s[k] = SubSeq(t, 1, Len(s \o u))[k] BY <1>1 DEF Begins
    <2>2. SubSeq(t, 1, Len(s \o u))[k] = t[k] BY <1>1 DEF Begins
    <2> QED BY <2>1, <2>2, <1>2
<1>5. s = SubSeq(t, 1, Len(s)) BY <1>3, <1>4, SeqEqual
<1> QED BY <1>2, <1>5 DEF Begins

\* A sequence begins itself.
LEMMA BeginsItself ==
    ASSUME NEW S, NEW s \in Seq(S)
    PROVE  Begins(s, s)
<1>1. SubSeq(s, 1, Len(s)) = s
    <2>1. Len(SubSeq(s, 1, Len(s))) = Len(s) /\ SubSeq(s, 1, Len(s)) \in Seq(S)
        BY SubSeqProperties
    <2>2. \A k \in 1 .. Len(s) : SubSeq(s, 1, Len(s))[k] = s[k] OBVIOUS
    <2> QED BY <2>1, <2>2, SeqEqual
<1> QED BY <1>1 DEF Begins

-----------------------------------------------------------------------------
(* Connections *)

\* Two live connections never share a descriptor.
LEMMA OwnDescriptor ==
    ASSUME TypeOK, Held
    PROVE  /\ \A i \in Live : /\ conn[i] \in Connections /\ i \in Slots
                              /\ conn[i].fd \in Fds /\ file[conn[i].fd] \in Files
           /\ \A i, j \in Live : conn[i].fd = conn[j].fd => i = j
<1>1. \A i \in Live : conn[i] \in Connections /\ i \in Slots
    BY DEF TypeOK, Live
<1>2. \A i \in Live : conn[i].fd \in Fds /\ file[conn[i].fd] \in Files
    <2>1. \A i \in Live : conn[i].fd \in Fds BY <1>1 DEF Connections
    <2> QED BY <2>1 DEF TypeOK
<1>3. ASSUME NEW i \in Live, NEW j \in Live, conn[i].fd = conn[j].fd PROVE i = j
    <2>1. File(i, conn[i].type, conn[i].armed) = File(j, conn[j].type, conn[j].armed)
        BY <1>3 DEF Held
    <2> QED BY <2>1 DEF File
<1> QED BY <1>1, <1>2, <1>3

\* NoFile is neither a connection nor a registration.
LEMMA NoFileIsNone ==
    /\ \A c \in Connections : c # NoFile
    /\ \A i \in Slots, t \in Types, w \in BOOLEAN :
           File(i, t, w) \in Registrations /\ File(i, t, w) # NoFile
BY WebsocketAssumption DEF File, Registrations

-----------------------------------------------------------------------------
(* The rest of a batch *)

\* The batch after a step is what is left of it: as it was, without its first
\* event, or without the first call of that.  A call that is left alone of two
\* is not for a connection that is still to be made.
Follows ==
    /\ batch' \in Seq(Events)
    /\ \E d \in {0, 1} : \A k \in DOMAIN batch' :
           /\ k + d \in DOMAIN batch
           /\ batch'[k].id = batch[k + d].id /\ batch'[k].type = batch[k + d].type
           /\ batch'[k].number = batch[k + d].number
           /\ conn'[batch'[k].id] # NoFile /\ conn'[batch'[k].id].connecting =>
                  batch'[k].calls = batch[k + d].calls

\* A step that does not touch the batch.
LEMMA FollowsUnchanged ==
    ASSUME TypeOK, batch' = batch
    PROVE  Follows
<1>1. \A k \in DOMAIN batch : k + 0 = k BY DEF TypeOK
<1> QED BY <1>1 DEF TypeOK, Follows

\* A handler returns: what is left of the batch, and when the event is done.
LEMMA FollowsCall ==
    ASSUME TypeOK, batch # <<>>, batch' = AfterCall(batch),
           batch[1].calls = {"read", "write"} =>
               (conn'[batch[1].id] # NoFile => ~ conn'[batch[1].id].connecting)
    PROVE  /\ Follows
           /\ NextCall(batch[1]) # "write" => batch' = Tail(batch)
           /\ \A k \in DOMAIN Tail(batch) :
                  k + 1 \in DOMAIN batch /\ Tail(batch)[k] = batch[k + 1]
<1>1. /\ batch[1] \in Events /\ 1 \in DOMAIN batch /\ batch \in Seq(Events)
      /\ Tail(batch) \in Seq(Events) /\ Len(batch) \in Nat /\ Len(batch) > 0
      /\ Len(Tail(batch)) = Len(batch) - 1
      /\ \A k \in 1 .. Len(batch) - 1 : Tail(batch)[k] = batch[k + 1]
    BY DEF TypeOK
<1>2. \A k \in DOMAIN Tail(batch) : k + 1 \in DOMAIN batch /\ Tail(batch)[k] = batch[k + 1]
    BY <1>1
<1>3. batch[1].calls \in Calls
    BY <1>1 DEF Events
<1>4. CASE batch' = Tail(batch)
    BY <1>1, <1>2, <1>4 DEF Follows
<1>5. CASE batch' # Tail(batch)
    <2>1. batch[1].calls = {"read", "write"} /\ NextCall(batch[1]) = "write"
        BY <1>3, <1>5 DEF AfterCall, NextCall, Calls
    <2> DEFINE e == [batch[1] EXCEPT !.calls = {"read", "write"} \ {"write"}]
    <2>2. batch' = <<e>> \o Tail(batch)
        BY <2>1, <1>5 DEF AfterCall
    <2>3. {"read", "write"} \ {"write"} = {"read"} OBVIOUS
    <2>4. /\ e \in Events /\ e.id = batch[1].id /\ e.type = batch[1].type
          /\ e.number = batch[1].number
        BY <1>1, <2>3 DEF Events, Calls
    <2> HIDE DEF e
    <2>5. <<e>> \in Seq(Events) /\ Len(<<e>>) = 1 /\ <<e>>[1] = e
        BY <2>4
    <2>6. /\ batch' \in Seq(Events) /\ Len(batch') = Len(batch)
          /\ batch'[1] = e
          /\ \A k \in 2 .. Len(batch) : batch'[k] = Tail(batch)[k - 1]
        BY <2>2, <2>5, <1>1, ConcatProperties
    <2>7. \A k \in 2 .. Len(batch) : batch'[k] = batch[k]
        <3> TAKE k \in 2 .. Len(batch)
        <3>1. k - 1 \in 1 .. Len(batch) - 1 /\ (k - 1) + 1 = k BY <1>1
        <3> QED BY <3>1, <2>6, <1>1
    <2>8. ASSUME NEW k \in DOMAIN batch'
          PROVE  /\ k + 0 \in DOMAIN batch
                 /\ batch'[k].id = batch[k + 0].id /\ batch'[k].type = batch[k + 0].type
                 /\ batch'[k].number = batch[k + 0].number
                 /\ conn'[batch'[k].id] # NoFile /\ conn'[batch'[k].id].connecting =>
                        batch'[k].calls = batch[k + 0].calls
        <3>1. k \in 1 .. Len(batch) /\ k + 0 = k BY <2>6
        <3>2. CASE k = 1 BY <3>1, <3>2, <2>6, <2>4, <2>1
        <3>3. CASE k # 1
            <4>1. k \in 2 .. Len(batch) BY <3>1, <3>3
            <4> QED BY <4>1, <3>1, <2>7
        <3> QED BY <3>2, <3>3
    <2>9. Follows BY <2>6, <2>8 DEF Follows
    <2> QED BY <2>9, <2>1, <1>2
<1> QED BY <1>4, <1>5, <1>2

\* What is left of a batch still fits: a slot changes only as a connection
\* goes on, ends, or is accepted, and the listener is read by its only event.
LEMMA BatchKept ==
    ASSUME TypeOK, Batched, Follows,
           \A j \in Slots : conn'[j] # NoFile =>
               \/ /\ conn[j] # NoFile
                  /\ conn'[j].type = conn[j].type /\ conn'[j].number = conn[j].number
                  /\ conn'[j].connecting => conn[j].connecting
                  /\ \/ file[conn[j].fd].in # <<>> => file'[conn'[j].fd].in # <<>>
                     \/ conn[j].type # "server_listen"
                     \/ \A k \in DOMAIN batch' : batch'[k].type # "server_listen"
               \/ /\ conn[j] = NoFile /\ conn'[j].type = "server_client"
                  /\ ~ conn'[j].connecting
                  /\ \A k \in DOMAIN batch' : batch'[k].type # "server_listen",
           \/ closing'
           \/ ~ closing /\ \A k \in DOMAIN batch' :
                  conn[batch'[k].id] # NoFile => conn'[batch'[k].id] # NoFile
    PROVE  Batched'
<1>1. PICK d \in {0, 1} : \A k \in DOMAIN batch' :
           /\ k + d \in DOMAIN batch
           /\ batch'[k].id = batch[k + d].id /\ batch'[k].type = batch[k + d].type
           /\ batch'[k].number = batch[k + d].number
           /\ conn'[batch'[k].id] # NoFile /\ conn'[batch'[k].id].connecting =>
                  batch'[k].calls = batch[k + d].calls
    BY DEF Follows
<1>2. \A k \in DOMAIN batch' : batch'[k].id \in Slots /\ k \in Nat
    <2> TAKE k \in DOMAIN batch'
    <2>1. batch'[k] \in Events /\ k \in Nat BY DEF Follows
    <2> QED BY <2>1 DEF Events
<1>3. ASSUME NEW k \in DOMAIN batch', conn'[batch'[k].id] # NoFile
      PROVE  /\ conn'[batch'[k].id].type = batch'[k].type
                    \/ (conn'[batch'[k].id].type = "server_client" /\ batch'[k].type # "server_listen")
             /\ batch'[k].type = "server_listen" => file'[conn'[batch'[k].id].fd].in # <<>>
             /\ conn'[batch'[k].id].connecting => batch'[k].calls # {"read"}
    <2> DEFINE j == batch'[k].id
    <2>1. Expected(batch[k + d]) /\ batch[k + d].id = j /\ j \in Slots
        BY <1>1, <1>2 DEF Batched
    <2>2. CASE conn[j] = NoFile BY <2>1, <2>2, <1>1, <1>3
    <2>3. CASE conn[j] # NoFile BY <2>1, <2>3, <1>1, <1>3 DEF Expected
    <2> QED BY <2>2, <2>3
<1>4. ASSUME NEW j \in DOMAIN batch', NEW k \in DOMAIN batch',
             \/ batch'[j].id = batch'[k].id
             \/ batch'[j].type = "server_listen" /\ batch'[k].type = "server_listen"
      PROVE  j = k
    <2>1. j + d = k + d BY <1>1, <1>4 DEF Batched
    <2> QED BY <2>1, <1>2
<1>5. EventsFindConnection'
    <2>1. CASE closing' BY <2>1 DEF EventsFindConnection
    <2>2. CASE ~ closing'
        <3>1. EventsFindConnection /\ ~ closing BY <2>2 DEF Batched
        <3>2. ASSUME NEW k \in DOMAIN batch'
              PROVE  /\ batch'[k].id \in Slots /\ conn'[batch'[k].id] # NoFile
                     /\ conn'[batch'[k].id].number = batch'[k].number
                     /\ conn'[batch'[k].id].type = batch'[k].type
            <4>1. /\ batch'[k].id \in Slots /\ conn[batch'[k].id] # NoFile
                  /\ conn[batch'[k].id].number = batch'[k].number
                  /\ conn[batch'[k].id].type = batch'[k].type
                BY <3>1, <1>1 DEF EventsFindConnection, Live
            <4>2. conn'[batch'[k].id] # NoFile BY <4>1, <2>2
            <4> QED BY <4>1, <4>2
        <3> QED BY <3>2 DEF EventsFindConnection, Live
    <2> QED BY <2>1, <2>2
<1> QED BY <1>3, <1>4, <1>5 DEF Batched, Expected

-----------------------------------------------------------------------------
(* The kinds of steps *)

\* A connection goes on: it is stored with its descriptor, and the poller
\* knows what it believes.
LEMMA StoreKeeps ==
    ASSUME IInv, NEW i \in Live, NEW c \in Connections, NEW f \in Files,
           c.type = conn[i].type, c.fd = conn[i].fd, c.number = conn[i].number,
           c.type # "server_listen", Fits(c, f), c.connecting => conn[i].connecting,
           conn' = [conn EXCEPT ![i] = c],
           file' = [file EXCEPT ![c.fd] = f],
           interest' = [interest EXCEPT ![c.fd] = File(i, c.type, c.armed)],
           Follows, UNCHANGED <<opened, badUrls, closed, closing, asserted>>
    PROVE  IInv'
<1>1. TypeOK /\ Held /\ Numbered /\ Batched
    BY DEF IInv
<1>2. /\ i \in Slots /\ c # NoFile /\ c.fd \in Fds /\ f.use = "socket"
      /\ c.type \in Types /\ c.armed \in BOOLEAN
    BY NoFileIsNone, <1>1, OwnDescriptor DEF Fits, Connections
<1>3. TypeOK'
    <2>1. File(i, c.type, c.armed) \in Registrations BY <1>2, NoFileIsNone
    <2> QED BY <1>1, <1>2, <2>1 DEF TypeOK, Follows
<1>4. /\ Live' = Live
      /\ conn'[i] = c /\ file'[c.fd] = f /\ interest'[c.fd] = File(i, c.type, c.armed)
      /\ \A j \in Slots : j # i => conn'[j] = conn[j]
      /\ \A fd \in Fds : fd # c.fd => file'[fd] = file[fd] /\ interest'[fd] = interest[fd]
    BY <1>1, <1>2 DEF TypeOK, Live
<1>5. \A j \in Live : /\ j \in Slots /\ conn[j].fd \in Fds
                      /\ j # i => conn[j].fd # c.fd
    BY <1>1, OwnDescriptor
<1>6. Held'
    <2>1. ASSUME NEW j \in Live
          PROVE  /\ Fits(conn'[j], file'[conn'[j].fd])
                 /\ interest'[conn'[j].fd] = File(j, conn'[j].type, conn'[j].armed)
        <3>1. CASE j = i BY <3>1, <1>4
        <3>2. CASE j # i BY <3>2, <1>1, <1>4, <1>5 DEF Held
        <3> QED BY <3>1, <3>2
    <2>2. ASSUME NEW fd \in Fds, interest'[fd] # NoFile \/ file'[fd].use \in {"listen", "socket"}
          PROVE  \E j \in Live : conn'[j].fd = fd
        <3>1. CASE fd = c.fd BY <3>1, <1>4
        <3>2. CASE fd # c.fd
            <4>1. PICK j \in Live : conn[j].fd = fd
                BY <3>2, <2>2, <1>1, <1>4 DEF Held
            <4> QED BY <4>1, <3>2, <1>4, <1>5
        <3> QED BY <3>1, <3>2
    <2>3. badUrls' = 0 => file'[0].use = "program"
        <3>1. file[c.fd].use # "program" BY <1>1 DEF Held, Fits
        <3> QED BY <3>1, <1>1, <1>4, WebsocketAssumption DEF Held
    <2> QED BY <2>1, <2>2, <2>3, <1>4 DEF Held
<1>7. Numbered'
    <2>1. \A j \in Live : conn'[j].number = conn[j].number BY <1>4, <1>5
    <2>2. PeerWaits' => PeerWaits BY <1>2, <1>4 DEF PeerWaits
    <2> QED BY <2>1, <2>2, <1>1, <1>4 DEF Numbered
<1>8. Batched'
    <2>1. ASSUME NEW j \in Slots, conn'[j] # NoFile
          PROVE  /\ conn[j] # NoFile
                 /\ conn'[j].type = conn[j].type /\ conn'[j].number = conn[j].number
                 /\ conn'[j].connecting => conn[j].connecting
                 /\ \/ file[conn[j].fd].in # <<>> => file'[conn'[j].fd].in # <<>>
                    \/ conn[j].type # "server_listen"
        <3>1. CASE j = i BY <3>1, <1>4 DEF Live
        <3>2. CASE j # i
            <4>1. j \in Live BY <3>2, <2>1, <1>4 DEF Live
            <4> QED BY <4>1, <3>2, <1>4, <1>5 DEF Live
        <3> QED BY <3>1, <3>2
    <2>2. \A j \in Slots : conn[j] # NoFile => conn'[j] # NoFile
        BY <1>2, <1>4
    <2>3. \A k \in DOMAIN batch' : batch'[k].id \in Slots
        <3> TAKE k \in DOMAIN batch'
        <3>1. batch'[k] \in Events BY DEF Follows
        <3> QED BY <3>1 DEF Events
    <2> QED BY <2>1, <2>2, <2>3, <1>1, BatchKept DEF TypeOK
<1> QED BY <1>3, <1>6, <1>7, <1>8 DEF IInv

\* A connection ends, in the handler of its last event or by a callback.
LEMMA CloseKeeps ==
    ASSUME IInv, NEW i \in Live, Close(i), Follows,
           closing' \in BOOLEAN, closing => closing',
           closing' \/ \A k \in DOMAIN batch' : batch'[k].id # i,
           UNCHANGED <<opened, badUrls, asserted>>
    PROVE  IInv'
<1> DEFINE d == conn[i].fd
<1>1. TypeOK /\ Held /\ Numbered /\ Batched
    BY DEF IInv
<1>2. /\ i \in Slots /\ conn[i] # NoFile /\ conn[i] \in Connections /\ d \in Fds
      /\ conn[i].number \in 0 .. MaxOpen
    BY <1>1, OwnDescriptor DEF Live, Connections
<1>3. /\ conn' = [conn EXCEPT ![i] = NoFile]
      /\ file' = [file EXCEPT ![d] = Shut]
      /\ interest' = [interest EXCEPT ![d] = NoFile]
      /\ closed' = IF conn[i].number = 0 THEN closed
                   ELSE [closed EXCEPT ![conn[i].number] = @ + 1]
    BY DEF Close, CloseFd, Deleted
<1> HIDE DEF d
<1>4. /\ Live' = Live \ {i}
      /\ conn'[i] = NoFile /\ file'[d] = Shut /\ interest'[d] = NoFile
      /\ \A j \in Slots : j # i => conn'[j] = conn[j]
      /\ \A fd \in Fds : fd # d => file'[fd] = file[fd] /\ interest'[fd] = interest[fd]
    BY <1>1, <1>2, <1>3 DEF TypeOK, Live
<1>5. \A j \in Live : /\ j \in Slots /\ conn[j].fd \in Fds
                      /\ j # i => conn[j].fd # d
    BY <1>1, OwnDescriptor DEF d
<1>6. conn[i].number # 0 => closed[conn[i].number] = 0 /\ conn[i].number \in 1 .. MaxOpen
    BY <1>1, <1>2 DEF Numbered
<1>7. TypeOK'
    <2>1. Shut \in Files
        BY EmptySeq DEF Shut, KernelFile, Files
    <2>2. closed' \in [1 .. MaxOpen -> 0 .. 1]
        BY <1>1, <1>3, <1>6 DEF TypeOK
    <2>3. /\ conn' \in [Slots -> Connections \cup {NoFile}]
          /\ file' \in [Fds -> Files]
          /\ interest' \in [Fds -> Registrations \cup {NoFile}]
        BY <2>1, <1>1, <1>2, <1>3 DEF TypeOK
    <2> QED BY <2>2, <2>3, <1>1 DEF TypeOK, Follows
<1>8. Held'
    <2>1. \A j \in Live' : /\ Fits(conn'[j], file'[conn'[j].fd])
                           /\ interest'[conn'[j].fd] = File(j, conn'[j].type, conn'[j].armed)
        BY <1>1, <1>4, <1>5 DEF Held
    <2>2. ASSUME NEW fd \in Fds, interest'[fd] # NoFile \/ file'[fd].use \in {"listen", "socket"}
          PROVE  \E j \in Live' : conn'[j].fd = fd
        <3>1. fd # d BY <2>2, <1>4 DEF Shut, KernelFile
        <3>2. PICK j \in Live : conn[j].fd = fd
            BY <3>1, <2>2, <1>1, <1>4 DEF Held
        <3>3. j # i BY <3>1, <3>2 DEF d
        <3> QED BY <3>2, <3>3, <1>4, <1>5
    <2>3. badUrls' = 0 => file'[0].use = "program"
        <3>1. file[d].use # "program" BY <1>1 DEF Held, Fits, d
        <3> QED BY <3>1, <1>1, <1>4, WebsocketAssumption DEF Held
    <2> QED BY <2>1, <2>2, <2>3 DEF Held
<1>9. Numbered'
    <2>1. \A j \in Live' : j \in Live /\ j # i /\ conn'[j].number = conn[j].number
        BY <1>4, <1>5
    <2>2. PeerWaits' => PeerWaits BY <1>2, <1>4 DEF PeerWaits, Shut, KernelFile
    <2>3. ASSUME NEW n \in 1 .. MaxOpen
          PROVE  closed'[n] = 0 <=> (n > opened' \/ \E j \in Live' : conn'[j].number = n)
        <3>1. CASE n = conn[i].number
            <4>1. closed'[n] = 1 BY <3>1, <1>1, <1>3, <1>6 DEF TypeOK
            <4>2. ~ (n > opened') BY <3>1, <1>1 DEF Numbered, TypeOK
            <4>3. \A j \in Live' : conn'[j].number # n BY <3>1, <2>1, <1>1 DEF Numbered
            <4> QED BY <4>1, <4>2, <4>3
        <3>2. CASE n # conn[i].number
            <4>1. closed'[n] = closed[n] BY <3>2, <1>1, <1>3 DEF TypeOK
            <4>2. (\E j \in Live' : conn'[j].number = n) <=> \E j \in Live : conn[j].number = n
                BY <3>2, <2>1, <1>4
            <4> QED BY <4>1, <4>2, <1>1 DEF Numbered
        <3> QED BY <3>1, <3>2
    <2> QED BY <2>1, <2>2, <2>3, <1>1 DEF Numbered
<1>10. Batched'
    <2>1. ASSUME NEW j \in Slots, conn'[j] # NoFile
          PROVE  /\ conn[j] # NoFile
                 /\ conn'[j].type = conn[j].type /\ conn'[j].number = conn[j].number
                 /\ conn'[j].connecting => conn[j].connecting
                 /\ file[conn[j].fd].in # <<>> => file'[conn'[j].fd].in # <<>>
        <3>1. j # i BY <2>1, <1>4
        <3>2. j \in Live /\ conn'[j] = conn[j] BY <3>1, <2>1, <1>4 DEF Live
        <3> QED BY <3>1, <3>2, <1>4, <1>5 DEF Live
    <2>2. ASSUME ~ closing', NEW k \in DOMAIN batch', conn[batch'[k].id] # NoFile
          PROVE  conn'[batch'[k].id] # NoFile
        <3>1. batch'[k] \in Events BY DEF Follows
        <3>2. batch'[k].id \in Slots BY <3>1 DEF Events
        <3> QED BY <3>2, <2>2, <1>4
    <2>3. closing \in BOOLEAN BY <1>1 DEF TypeOK
    <2> QED BY <2>1, <2>2, <2>3, <1>1, BatchKept
<1> QED BY <1>7, <1>8, <1>9, <1>10 DEF IInv

\* A connection is opened in a free slot, with the lowest descriptor that is
\* closed; the listener may have been read.
LEMMA OpenKeeps ==
    ASSUME IInv, NEW i \in FreeSlots, NEW fd \in FreeFds,
           NEW c \in Connections, NEW f \in Files, NEW g \in [Fds -> Files],
           c.fd = fd, Fits(c, f), f.in = <<>>,
           \A e \in Fds : g[e].use = file[e].use,
           \A j \in Live : Fits(conn[j], g[conn[j].fd]),
           conn' = [conn EXCEPT ![i] = c],
           file' = [g EXCEPT ![fd] = f],
           interest' = [interest EXCEPT ![fd] = File(i, c.type, c.armed)],
           \/ c.number = 0 /\ opened' = opened /\ \A j \in Live : conn[j].type # "server_listen"
           \/ c.number = opened + 1 /\ opened' = opened + 1 /\ opened < MaxOpen,
           (\E e \in Fds : g[e].use = "listen" /\ g[e].in # <<>>) => opened' < MaxOpen,
           Follows,
           \/ batch' = <<>>
           \/ /\ c.type = "server_client" /\ ~ c.connecting
              /\ \A k \in DOMAIN batch' : batch'[k].type # "server_listen",
           UNCHANGED <<badUrls, closed, closing, asserted>>
    PROVE  IInv'
<1>1. TypeOK /\ Held /\ Numbered /\ Batched
    BY DEF IInv
<1>2. /\ i \in Slots /\ i \notin Live /\ conn[i] = NoFile /\ c # NoFile
      /\ fd \in Fds /\ file[fd].use = "closed" /\ opened \in 0 .. MaxOpen
      /\ f.use \in {"listen", "socket"} /\ c.type \in Types /\ c.armed \in BOOLEAN
    BY NoFileIsNone, <1>1 DEF FreeSlots, FreeFds, Live, Fits, Connections, TypeOK
<1>3. /\ Live' = Live \cup {i}
      /\ conn'[i] = c /\ file'[fd] = f /\ interest'[fd] = File(i, c.type, c.armed)
      /\ \A j \in Slots : j # i => conn'[j] = conn[j]
      /\ \A e \in Fds : e # fd => file'[e] = g[e] /\ interest'[e] = interest[e]
    BY <1>1, <1>2 DEF TypeOK, Live
<1>4. \A j \in Live : j \in Slots /\ j # i /\ conn[j].fd \in Fds /\ conn[j].fd # fd
    BY <1>1, <1>2, OwnDescriptor DEF Held, Fits
<1>5. TypeOK'
    <2>1. File(i, c.type, c.armed) \in Registrations BY <1>2, NoFileIsNone
    <2>2. opened' \in 0 .. MaxOpen BY <1>2, WebsocketAssumption
    <2> QED BY <1>1, <1>2, <2>1, <2>2 DEF TypeOK, Follows
<1>6. Held'
    <2>1. ASSUME NEW j \in Live'
          PROVE  /\ Fits(conn'[j], file'[conn'[j].fd])
                 /\ interest'[conn'[j].fd] = File(j, conn'[j].type, conn'[j].armed)
        <3>1. CASE j = i BY <3>1, <1>3
        <3>2. CASE j # i BY <3>2, <1>1, <1>3, <1>4 DEF Held
        <3> QED BY <3>1, <3>2
    <2>2. ASSUME NEW e \in Fds, interest'[e] # NoFile \/ file'[e].use \in {"listen", "socket"}
          PROVE  \E j \in Live' : conn'[j].fd = e
        <3>1. CASE e = fd BY <3>1, <1>3
        <3>2. CASE e # fd
            <4>1. PICK j \in Live : conn[j].fd = e
                BY <3>2, <2>2, <1>1, <1>3 DEF Held
            <4> QED BY <4>1, <1>3, <1>4
        <3> QED BY <3>1, <3>2
    <2>3. badUrls' = 0 => file'[0].use = "program"
        BY <1>1, <1>2, <1>3, WebsocketAssumption DEF Held
    <2> QED BY <2>1, <2>2, <2>3 DEF Held
<1>7. Numbered'
    <2>1. \A j \in Live' : j = i \/ (j \in Live /\ conn'[j] = conn[j])
        BY <1>3, <1>4
    <2>2. \A j \in Live : conn[j].number # c.number /\ conn[j].number <= opened /\ conn[j].number \in Nat
        <3>1. ASSUME NEW j \in Live PROVE conn[j].number \in 0 .. MaxOpen /\ Fits(conn[j], g[conn[j].fd])
            BY <1>1, OwnDescriptor DEF Connections
        <3>2. c.number = 0 => \A j \in Live : conn[j].type # "server_listen" BY <1>2
        <3> QED BY <3>1, <3>2, <1>1, <1>2 DEF Numbered, Fits
    <2>3. \A j \in Live' : conn'[j].number <= opened'
        <3>1. c.number <= opened' BY <1>2
        <3> QED BY <3>1, <2>1, <2>2, <1>2, <1>3
    <2>4. \A j, k \in Live' : conn'[j].number = conn'[k].number => j = k
        BY <2>1, <2>2, <1>1, <1>3 DEF Numbered
    <2>5. PeerWaits' => opened' < MaxOpen
        BY <1>2, <1>3 DEF PeerWaits
    <2>6. ASSUME NEW n \in 1 .. MaxOpen
          PROVE  closed[n] = 0 <=> (n > opened' \/ \E j \in Live' : conn'[j].number = n)
        <3>1. (\E j \in Live' : conn'[j].number = n)
                  <=> (n = c.number \/ \E j \in Live : conn[j].number = n)
            BY <2>1, <1>3, <1>4
        <3>2. CASE c.number = 0 /\ opened' = opened BY <3>1, <3>2, <1>1 DEF Numbered
        <3>3. CASE c.number = opened + 1 /\ opened' = opened + 1
            <4>1. n > opened <=> (n = c.number \/ n > opened') BY <3>3, <1>2
            <4> QED BY <4>1, <3>1, <1>1 DEF Numbered
        <3> QED BY <3>2, <3>3
    <2> QED BY <2>3, <2>4, <2>5, <2>6 DEF Numbered
<1>8. Batched'
    <2>1. CASE batch' = <<>> BY <2>1 DEF Batched, EventsFindConnection
    <2>2. CASE batch' # <<>>
        <3>1. /\ c.type = "server_client" /\ ~ c.connecting
              /\ \A k \in DOMAIN batch' : batch'[k].type # "server_listen"
            BY <2>2
        <3>2. ASSUME NEW j \in Slots, conn'[j] # NoFile
              PROVE  \/ /\ conn[j] # NoFile
                        /\ conn'[j].type = conn[j].type /\ conn'[j].number = conn[j].number
                        /\ conn'[j].connecting => conn[j].connecting
                     \/ /\ conn[j] = NoFile /\ conn'[j].type = "server_client"
                        /\ ~ conn'[j].connecting
            BY <3>1, <3>2, <1>2, <1>3
        <3>3. ASSUME NEW k \in DOMAIN batch', conn[batch'[k].id] # NoFile
              PROVE  conn'[batch'[k].id] # NoFile
            <4>1. batch'[k] \in Events BY DEF Follows
            <4>2. batch'[k].id \in Slots BY <4>1 DEF Events
            <4> QED BY <4>2, <3>3, <1>2, <1>3
        <3>4. closing \in BOOLEAN BY <1>1 DEF TypeOK
        <3> QED BY <3>1, <3>2, <3>3, <3>4, <1>1, BatchKept
    <2> QED BY <2>1, <2>2
<1> QED BY <1>5, <1>6, <1>7, <1>8 DEF IInv

\* epoll_pwait reports descriptors under the ids and types of their live
\* connections, each once, and the listener only when a peer waits.
LEMMA PollKeeps ==
    ASSUME IInv, PollForInput
    PROVE  IInv'
<1> DEFINE waiting == {fd \in Fds : interest[fd] # NoFile /\ ReadyCalls(fd) # {}}
           Event(fd) == [id |-> interest[fd].id, type |-> interest[fd].type,
                         calls |-> ReadyCalls(fd), number |-> conn[interest[fd].id].number]
<1>1. TypeOK /\ Held /\ Numbered /\ UNCHANGED <<conn, file, interest, opened, badUrls, closed, asserted>>
      /\ closing' = FALSE
    BY DEF IInv, PollForInput, Poll
<1>2. ASSUME NEW fd \in waiting
      PROVE  /\ interest[fd].id \in Live /\ conn[interest[fd].id].fd = fd
             /\ interest[fd].type = conn[interest[fd].id].type
             /\ interest[fd].write = conn[interest[fd].id].armed
    <2>1. PICK i \in Live : conn[i].fd = fd BY <1>1 DEF Held
    <2>2. interest[fd] = File(i, conn[i].type, conn[i].armed) BY <2>1, <1>1 DEF Held
    <2> QED BY <2>1, <2>2 DEF File
<1>3. PICK order \in SetToSeqs(waiting) : batch' = [k \in DOMAIN order |-> Event(order[k])]
    <2>1. PICK order \in SetToSeqs(waiting) :
              batch' = [k \in DOMAIN order |->
                           [id |-> interest[order[k]].id, type |-> interest[order[k]].type,
                            calls |-> [fd \in Fds |-> ReadyCalls(fd)][order[k]],
                            number |-> [i \in Live |-> Number(i)][interest[order[k]].id]]]
        <3>1. waiting = {fd \in Fds : interest[fd] # NoFile /\ [e \in Fds |-> ReadyCalls(e)][fd] # {}}
            OBVIOUS
        <3> HIDE DEF waiting
        <3> QED BY <3>1 DEF PollForInput, Poll
    <2>2. order \in [1 .. Cardinality(waiting) -> waiting] BY DEF SetToSeqs
    <2>3. ASSUME NEW k \in DOMAIN order
          PROVE  /\ [fd \in Fds |-> ReadyCalls(fd)][order[k]] = ReadyCalls(order[k])
                 /\ [i \in Live |-> Number(i)][interest[order[k]].id] = conn[interest[order[k]].id].number
        <3>1. order[k] \in waiting BY <2>2
        <3>2. interest[order[k]].id \in Live BY <3>1, <1>2
        <3> QED BY <3>1, <3>2 DEF Number
    <2> QED BY <2>1, <2>3
<1>4. /\ Cardinality(waiting) \in Nat /\ order \in [1 .. Cardinality(waiting) -> waiting]
      /\ \A j, k \in 1 .. Cardinality(waiting) : j # k => order[j] # order[k]
    <2>1. IsFiniteSet(waiting) BY FS_Subset, WebsocketAssumption
    <2>2. Cardinality(waiting) \in Nat BY <2>1, FS_CardinalityType
    <2> QED BY <2>2 DEF SetToSeqs
<1>5. ASSUME NEW fd \in waiting
      PROVE  /\ Event(fd) \in Events
             /\ Event(fd).type = "server_listen" => file[fd].in # <<>>
             /\ conn[interest[fd].id].connecting => Event(fd).calls # {"read"}
    <2> DEFINE i == interest[fd].id
    <2>1. /\ i \in Slots /\ conn[i] \in Connections /\ conn[i].fd = fd /\ file[fd] \in Files
          /\ interest[fd].type = conn[i].type /\ interest[fd].write = conn[i].armed
          /\ Fits(conn[i], file[fd])
        BY <1>1, <1>2, OwnDescriptor DEF Held
    <2>2. ReadyCalls(fd) # {} /\ ReadyCalls(fd) \in Calls
        <3>1. ReadyCalls(fd) = {"error"} \/ ReadyCalls(fd) \subseteq {"read", "write"}
            BY DEF ReadyCalls
        <3>2. ASSUME NEW S, S \subseteq {"read", "write"}, S # {}
              PROVE  S \in {{"read"}, {"write"}, {"read", "write"}}
            BY <3>2
        <3> QED BY <3>1, <3>2 DEF Calls
    <2>3. Event(fd) \in Events
        BY <2>1, <2>2 DEF Events, Connections
    <2>4. ASSUME conn[i].type = "server_listen" PROVE file[fd].in # <<>>
        <3>1. ~ file[fd].eof /\ ~ file[fd].err /\ ~ file[fd].up BY <2>1, <2>4 DEF Fits
        <3> QED BY <3>1, <2>2 DEF ReadyCalls, Writable
    <2>5. ASSUME conn[i].connecting, ReadyCalls(fd) = {"read"} PROVE FALSE
        <3>1. /\ conn[i].armed /\ ~ file[fd].full /\ (file[fd].eof => file[fd].err \/ file[fd].up)
              /\ (file[fd].in # <<>> => file[fd].up)
            BY <2>1, <2>5 DEF Fits, Unconnected
        <3>2. ~ file[fd].err /\ "read" \in ReadyCalls(fd) /\ "write" \notin ReadyCalls(fd)
            BY <2>5 DEF ReadyCalls
        <3>3. file[fd].in # <<>> \/ file[fd].eof BY <3>2 DEF ReadyCalls
        <3>4. Writable(file[fd]) /\ interest[fd].write BY <3>1, <3>2, <3>3, <2>1 DEF Writable
        <3> QED BY <3>2, <3>4 DEF ReadyCalls
    <2> QED BY <2>1, <2>3, <2>4, <2>5
<1> HIDE DEF waiting, Event
<1>6. /\ DOMAIN batch' = 1 .. Cardinality(waiting)
      /\ \A k \in DOMAIN batch' : order[k] \in waiting /\ batch'[k] = Event(order[k])
    BY <1>3, <1>4
<1>7. batch' \in Seq(Events)
    <2>1. \A k \in 1 .. Cardinality(waiting) : batch'[k] \in Events BY <1>5, <1>6
    <2>2. batch' = [k \in 1 .. Cardinality(waiting) |-> batch'[k]] BY <1>3, <1>4, <1>6
    <2> QED BY <2>1, <2>2, <1>4, IsASeq
<1>8. TypeOK' BY <1>1, <1>7 DEF TypeOK
<1>9. Held' BY <1>1 DEF Held, Live
<1>10. Numbered' BY <1>1 DEF Numbered, Live, PeerWaits
<1>11. ASSUME NEW k \in DOMAIN batch'
       PROVE  /\ batch'[k].id \in Live /\ conn[batch'[k].id].fd = order[k]
              /\ batch'[k].type = conn[batch'[k].id].type
              /\ batch'[k].number = conn[batch'[k].id].number
              /\ batch'[k].type = "server_listen" => file[order[k]].in # <<>>
              /\ conn[batch'[k].id].connecting => batch'[k].calls # {"read"}
    <2>1. order[k] \in waiting /\ batch'[k] = Event(order[k]) BY <1>6
    <2>2. /\ batch'[k].id = interest[order[k]].id /\ batch'[k].type = interest[order[k]].type
          /\ batch'[k].number = conn[interest[order[k]].id].number
        BY <2>1 DEF Event
    <2> QED BY <2>1, <2>2, <1>2, <1>5
<1>12. Batched'
    <2>1. EventsFindConnection' BY <1>1, <1>11 DEF EventsFindConnection, Live
    <2>2. (\A k \in DOMAIN batch : Expected(batch[k]))' BY <1>1, <1>11 DEF Expected
    <2>3. ASSUME NEW j \in DOMAIN batch', NEW k \in DOMAIN batch', batch'[j].id = batch'[k].id
          PROVE  j = k
        <3>1. order[j] = order[k] BY <2>3, <1>11
        <3> QED BY <3>1, <1>4, <1>6
    <2>4. ASSUME NEW j \in DOMAIN batch', NEW k \in DOMAIN batch',
                 batch'[j].type = "server_listen", batch'[k].type = "server_listen"
          PROVE  batch'[j].id = batch'[k].id
        <3>1. conn[batch'[j].id].number = 0 /\ conn[batch'[k].id].number = 0
            BY <2>4, <1>1, <1>11 DEF Held, Fits
        <3> QED BY <3>1, <1>1, <1>11 DEF Numbered
    <2> QED BY <2>1, <2>2, <2>3, <2>4 DEF Batched
<1> QED BY <1>8, <1>9, <1>10, <1>12 DEF IInv

\* Closing fd 0, which no connection has while the program has it.
LEMMA AddFailsKeeps ==
    ASSUME IInv, AddFails, badUrls' <= 1
    PROVE  IInv'
<1>1. TypeOK /\ Held /\ Numbered /\ Batched
    BY DEF IInv
<1>2. /\ badUrls = 0 /\ badUrls' = 1 /\ badUrls' \in 0 .. MaxBadUrls /\ 0 \in Fds
      /\ file' = [file EXCEPT ![0] = Shut] /\ interest' = [interest EXCEPT ![0] = NoFile]
      /\ UNCHANGED <<conn, batch, opened, closed, closing, asserted>>
    BY <1>1, WebsocketAssumption DEF AddFails, TypeOK, CloseFd, Deleted
<1>3. file[0].use = "program" /\ \A i \in Live : conn[i].fd # 0 /\ conn[i].fd \in Fds
    BY <1>1, <1>2, OwnDescriptor DEF Held, Fits
<1>4. /\ file'[0] = Shut /\ interest'[0] = NoFile
      /\ \A fd \in Fds : fd # 0 => file'[fd] = file[fd] /\ interest'[fd] = interest[fd]
    BY <1>1, <1>2 DEF TypeOK
<1>5. TypeOK'
    <2>1. Shut \in Files BY EmptySeq DEF Shut, KernelFile, Files
    <2> QED BY <2>1, <1>1, <1>2 DEF TypeOK
<1>6. Held' BY <1>1, <1>2, <1>3, <1>4 DEF Held, Live, Shut, KernelFile
<1>7. Numbered'
    <2>1. PeerWaits' => PeerWaits BY <1>2, <1>4 DEF PeerWaits, Shut, KernelFile
    <2> QED BY <2>1, <1>1, <1>2 DEF Numbered, Live
<1>8. Batched'
    <2>1. \A k \in DOMAIN batch : batch[k].id \in Slots
        <3> TAKE k \in DOMAIN batch
        <3>1. batch[k] \in Events BY <1>1 DEF TypeOK
        <3> QED BY <3>1 DEF Events
    <2>2. ASSUME NEW k \in DOMAIN batch PROVE Expected(batch[k]) => Expected(batch[k])'
        BY <2>1, <1>2, <1>3, <1>4 DEF Expected, Live
    <2> QED BY <2>2, <1>1, <1>2 DEF Batched, EventsFindConnection, Live
<1> QED BY <1>5, <1>6, <1>7, <1>8 DEF IInv

\* The reaper closes connections between batches, each with its descriptor.
LEMMA ReapKeeps ==
    ASSUME IInv, Reap
    PROVE  IInv'
<1> DEFINE reaped == {i \in Live : Reaped(conn[i])}
           fds    == {conn[i].fd : i \in reaped}
<1>1. TypeOK /\ Held /\ Numbered
    BY DEF IInv
<1>2. /\ batch = <<>>
      /\ conn' = [i \in Slots |-> IF i \in reaped THEN NoFile ELSE conn[i]]
      /\ file' = [fd \in Fds |-> IF fd \in fds THEN Shut ELSE file[fd]]
      /\ interest' = [fd \in Fds |-> IF fd \in fds THEN NoFile ELSE interest[fd]]
      /\ closed' = [n \in DOMAIN closed |->
                       IF \E i \in reaped : conn[i].number = n THEN closed[n] + 1 ELSE closed[n]]
      /\ UNCHANGED <<batch, opened, badUrls, closing, asserted>>
    BY DEF Reap
<1>3. \A i \in reaped : i \in Live BY DEF reaped
<1>4. \A fd \in Fds : fd \in fds <=> \E i \in reaped : conn[i].fd = fd BY DEF fds
<1> HIDE DEF reaped, fds
<1>5. /\ Live' = Live \ reaped
      /\ \A i \in Live' : /\ i \in Live /\ conn'[i] = conn[i] /\ conn[i].fd \in Fds /\ conn[i].fd \notin fds
                          /\ file'[conn[i].fd] = file[conn[i].fd]
                          /\ interest'[conn[i].fd] = interest[conn[i].fd]
    <2>1. Live' = Live \ reaped BY <1>2, <1>3 DEF Live
    <2>2. ASSUME NEW i \in Live'
          PROVE  i \in Live /\ conn'[i] = conn[i] /\ conn[i].fd \in Fds /\ conn[i].fd \notin fds
        <3>1. i \in Live /\ i \notin reaped BY <2>1
        <3>2. conn[i].fd \in Fds /\ i \in Slots BY <3>1, <1>1, OwnDescriptor
        <3> QED BY <3>1, <3>2, <1>1, <1>2, <1>3, <1>4, OwnDescriptor
    <2> QED BY <2>1, <2>2, <1>2
<1>6. \A n \in 1 .. MaxOpen : (\E i \in reaped : conn[i].number = n) => closed[n] = 0
    BY <1>1, <1>3 DEF Numbered
<1>7. TypeOK'
    <2>1. Shut \in Files BY EmptySeq DEF Shut, KernelFile, Files
    <2>2. file' \in [Fds -> Files] BY <2>1, <1>1, <1>2 DEF TypeOK
    <2>3. interest' \in [Fds -> Registrations \cup {NoFile}] BY <1>1, <1>2 DEF TypeOK
    <2>4. conn' \in [Slots -> Connections \cup {NoFile}] BY <1>1, <1>2 DEF TypeOK
    <2>5. closed' \in [1 .. MaxOpen -> 0 .. 1] BY <1>1, <1>2, <1>6 DEF TypeOK
    <2> QED BY <2>2, <2>3, <2>4, <2>5, <1>1, <1>2 DEF TypeOK
<1>8. Held'
    <2>1. \A i \in Live' : /\ Fits(conn'[i], file'[conn'[i].fd])
                           /\ interest'[conn'[i].fd] = File(i, conn'[i].type, conn'[i].armed)
        BY <1>1, <1>5 DEF Held
    <2>2. ASSUME NEW fd \in Fds, interest'[fd] # NoFile \/ file'[fd].use \in {"listen", "socket"}
          PROVE  \E i \in Live' : conn'[i].fd = fd
        <3>1. fd \notin fds /\ interest'[fd] = interest[fd] /\ file'[fd] = file[fd]
            BY <2>2, <1>2 DEF Shut, KernelFile
        <3>2. PICK i \in Live : conn[i].fd = fd BY <3>1, <2>2, <1>1 DEF Held
        <3>3. i \notin reaped BY <3>1, <3>2, <1>4
        <3> QED BY <3>2, <3>3, <1>5
    <2>3. badUrls' = 0 => file'[0].use = "program"
        <3>1. \A i \in reaped : file[conn[i].fd].use # "program" BY <1>1, <1>3 DEF Held, Fits
        <3>2. badUrls = 0 => 0 \notin fds BY <3>1, <1>1, <1>4, WebsocketAssumption DEF Held
        <3> QED BY <3>2, <1>1, <1>2, WebsocketAssumption DEF Held
    <2> QED BY <2>1, <2>2, <2>3 DEF Held
<1>9. Numbered'
    <2>1. ASSUME NEW fd \in Fds, file'[fd].use = "listen", file'[fd].in # <<>>
          PROVE  file[fd].use = "listen" /\ file[fd].in # <<>>
        BY <2>1, <1>2 DEF Shut, KernelFile
    <2>2. PeerWaits' => PeerWaits BY <2>1 DEF PeerWaits
    <2>3. ASSUME NEW n \in 1 .. MaxOpen
          PROVE  closed'[n] = 0 <=> (n > opened' \/ \E i \in Live' : conn'[i].number = n)
        <3>1. CASE \E i \in reaped : conn[i].number = n
            <4>1. PICK i \in reaped : conn[i].number = n BY <3>1
            <4>2. closed'[n] = 1 BY <3>1, <1>1, <1>2, <1>6 DEF TypeOK
            <4>3. ~ (n > opened') BY <4>1, <1>1, <1>2, <1>3 DEF Numbered, TypeOK
            <4>4. \A j \in Live' : conn'[j].number # n BY <4>1, <1>1, <1>3, <1>5 DEF Numbered
            <4> QED BY <4>2, <4>3, <4>4
        <3>2. CASE ~ \E i \in reaped : conn[i].number = n
            <4>1. closed'[n] = closed[n] BY <3>2, <1>1, <1>2 DEF TypeOK
            <4>2. (\E j \in Live' : conn'[j].number = n) <=> \E j \in Live : conn[j].number = n
                BY <3>2, <1>5
            <4> QED BY <4>1, <4>2, <1>1, <1>2 DEF Numbered
        <3> QED BY <3>1, <3>2
    <2>4. /\ \A i \in Live' : conn'[i].number <= opened'
          /\ \A i, j \in Live' : conn'[i].number = conn'[j].number => i = j
        BY <1>1, <1>2, <1>5 DEF Numbered
    <2>5. PeerWaits' => opened' < MaxOpen BY <2>2, <1>1, <1>2 DEF Numbered
    <2> QED BY <2>3, <2>4, <2>5 DEF Numbered
<1>10. Batched' BY <1>2 DEF Batched, EventsFindConnection
<1> QED BY <1>7, <1>8, <1>9, <1>10 DEF IInv

-----------------------------------------------------------------------------
(* Reading and sending *)

\* The fields of a connection and of the kernel's side have their types.
LEMMA FieldTypes ==
    /\ \A c \in Connections :
           /\ c.rx \in Seq(Pieces) /\ c.got \in Seq(Pieces) /\ c.tx \in 0 .. MaxTx
           /\ c.number \in 0 .. MaxOpen /\ c.fd \in Fds /\ c.type \in Types
           /\ c.handshake \in BOOLEAN /\ c.armed \in BOOLEAN /\ c.connecting \in BOOLEAN
    /\ \A f \in Files :
           /\ f.in \in Seq(Pieces) /\ f.sent \in Seq(Pieces)
           /\ f.eof \in BOOLEAN /\ f.err \in BOOLEAN /\ f.up \in BOOLEAN /\ f.full \in BOOLEAN
BY DEF Connections, Files

\* A sequence is its first elements and the rest.
LEMMA SplitInTwo ==
    ASSUME NEW S, NEW s \in Seq(S), NEW n \in 0 .. Len(s)
    PROVE  /\ SubSeq(s, 1, n) \in Seq(S) /\ SubSeq(s, n + 1, Len(s)) \in Seq(S)
           /\ SubSeq(s, 1, n) \o SubSeq(s, n + 1, Len(s)) = s
<1>1. /\ 1 \in 1 .. Len(s) + 1 /\ n \in 1 - 1 .. Len(s) /\ Len(s) \in n .. Len(s)
    OBVIOUS
<1>2. SubSeq(s, 1, n) \o SubSeq(s, n + 1, Len(s)) = SubSeq(s, 1, Len(s))
    BY <1>1, ConcatAdjacentSubSeq
<1>3. SubSeq(s, 1, Len(s)) = s
    BY BeginsItself DEF Begins
<1>4. SubSeq(s, 1, n) \in Seq(S) /\ SubSeq(s, n + 1, Len(s)) \in Seq(S)
    <2>1. \A k \in 1 .. Len(s) : s[k] \in S OBVIOUS
    <2> QED BY <2>1, SubSeqProperties
<1> QED BY <1>2, <1>3, <1>4

\* Concatenations of pieces may be grouped in either way.
LEMMA Regroup ==
    \A s, t, u \in Seq(Pieces) : (s \o t) \o u = s \o (t \o u)
<1> TAKE s, t, u \in Seq(Pieces)
<1> QED BY ConcatAssociative

\* What the kernel had for a connection goes to its rx_buffer.
LEMMA StreamRead ==
    ASSUME NEW c \in Connections, NEW f \in Files, Stream(c, f), NEW n \in 0 .. Len(f.in),
           NEW d \in Connections, NEW g \in Files,
           d.got = c.got, d.rx = c.rx \o SubSeq(f.in, 1, n),
           g.in = SubSeq(f.in, n + 1, Len(f.in)), g.sent = f.sent, g.eof = f.eof
    PROVE  Stream(d, g)
<1> DEFINE a == SubSeq(f.in, 1, n)
           b == SubSeq(f.in, n + 1, Len(f.in))
<1>1. c.got \in Seq(Pieces) /\ c.rx \in Seq(Pieces) /\ f.in \in Seq(Pieces)
    BY FieldTypes
<1>2. a \in Seq(Pieces) /\ b \in Seq(Pieces) /\ a \o b = f.in
    BY <1>1, SplitInTwo
<1>3. d.got \o d.rx \o g.in = (c.got \o (c.rx \o a)) \o b
    OBVIOUS
<1> HIDE DEF a, b
<1>4. (c.got \o (c.rx \o a)) \o b = ((c.got \o c.rx) \o a) \o b
    BY <1>1, <1>2, Regroup
<1>5. ((c.got \o c.rx) \o a) \o b = (c.got \o c.rx) \o (a \o b)
    <2>1. c.got \o c.rx \in Seq(Pieces) BY <1>1, ConcatProperties
    <2> QED BY <2>1, <1>2, Regroup
<1> QED BY <1>2, <1>3, <1>4, <1>5 DEF Stream

\* Taking pieces out of rx_buffer loses none.
LEMMA StreamTaken ==
    ASSUME NEW c \in Connections, NEW f \in Files, Stream(c, f), NEW n \in 0 .. Len(c.rx)
    PROVE  Stream(RxDeleted(c, n), f) /\ RxDeleted(c, n) \in Connections
<1> DEFINE a == SubSeq(c.rx, 1, n)
           b == SubSeq(c.rx, n + 1, Len(c.rx))
           d == RxDeleted(c, n)
<1>1. c.got \in Seq(Pieces) /\ c.rx \in Seq(Pieces) /\ f.in \in Seq(Pieces)
    BY FieldTypes
<1>2. a \in Seq(Pieces) /\ b \in Seq(Pieces) /\ a \o b = c.rx
    BY <1>1, SplitInTwo
<1>3. d.got = c.got \o a /\ d.rx = b
    BY DEF RxDeleted, Connections
<1>4. d \in Connections
    <2> HIDE DEF a, b
    <2>1. c.got \o a \in Seq(Pieces) BY <1>1, <1>2, ConcatProperties
    <2>2. d = [c EXCEPT !.rx = b, !.got = c.got \o a] BY DEF RxDeleted, a, b
    <2> QED BY <2>1, <2>2, <1>2 DEF Connections
<1> HIDE DEF a, b, d
<1>5. d.got \o d.rx = c.got \o c.rx
    <2>1. (c.got \o a) \o b = c.got \o (a \o b) BY <1>1, <1>2, Regroup
    <2> QED BY <2>1, <1>2, <1>3
<1>6. Stream(d, f) BY <1>5 DEF Stream
<1> QED BY <1>4, <1>6 DEF d

\* When the connection is down, what the kernel had for it may be lost.
LEMMA StreamLost ==
    ASSUME NEW c \in Connections, NEW f \in Files, Stream(c, f),
           NEW g \in Files, g.in = <<>>, g.sent = f.sent, g.eof = TRUE
    PROVE  Stream(c, g)
<1>1. /\ c.got \in Seq(Pieces) /\ c.rx \in Seq(Pieces) /\ f.in \in Seq(Pieces)
      /\ f.sent \in Seq(Pieces)
    BY FieldTypes
<1>2. c.got \o c.rx \in Seq(Pieces)
    BY <1>1, ConcatProperties
<1>3. Begins(c.got \o c.rx, f.sent)
    BY <1>1, <1>2, ShorterBegins DEF Stream
<1>4. c.got \o c.rx \o g.in = c.got \o c.rx
    BY <1>2, ConcatEmptySeq
<1> QED BY <1>3, <1>4 DEF Stream

\* What a peer sends goes to the end.
LEMMA StreamSent ==
    ASSUME NEW c \in Connections, NEW f \in Files, Stream(c, f), ~ f.eof,
           NEW g \in Files, NEW p \in Seq(Pieces),
           g.in = f.in \o p, g.sent = f.sent \o p, g.eof = FALSE
    PROVE  Stream(c, g)
<1>1. /\ c.got \in Seq(Pieces) /\ c.rx \in Seq(Pieces) /\ f.in \in Seq(Pieces)
      /\ g.sent \in Seq(Pieces)
    BY FieldTypes
<1>2. c.got \o c.rx \in Seq(Pieces)
    BY <1>1, ConcatProperties
<1>3. c.got \o c.rx \o g.in = (c.got \o c.rx \o f.in) \o p
    <2>1. ((c.got \o c.rx) \o f.in) \o p = (c.got \o c.rx) \o (f.in \o p)
        BY <1>1, <1>2, Regroup
    <2>2. g.in = f.in \o p OBVIOUS
    <2> QED BY <2>1, <2>2
<1>4. c.got \o c.rx \o g.in = g.sent
    BY <1>3 DEF Stream
<1>5. Begins(g.sent, g.sent)
    BY <1>1, BeginsItself
<1> QED BY <1>4, <1>5 DEF Stream

\* clib_socket_tx leaves at most what there was, and of the kernel's side
\* changes no more than that the connection is down.
LEMMA TxLeaves ==
    ASSUME NEW n \in Nat, NEW f \in Files, NEW r \in TxResults(n, f)
    PROVE  /\ r.left \in 0 .. n /\ r.f \in Files
           /\ r.f.use = f.use /\ r.f.sent = f.sent
           /\ \/ r.f.in = f.in /\ r.f.eof = f.eof
              \/ r.f.in = <<>> /\ r.f.eof = TRUE
<1>1. CASE f.err
    <2>1. r = [left |-> n, f |-> Reset(f)] BY <1>1 DEF TxResults
    <2>2. /\ Reset(f) \in Files /\ Reset(f).use = f.use /\ Reset(f).sent = f.sent
          /\ Reset(f).in = <<>> /\ Reset(f).eof = TRUE
        BY EmptySeq DEF Reset, Files
    <2> QED BY <2>1, <2>2
<1>2. CASE ~ f.err /\ (n = 0 \/ ~ Writable(f))
    <2>1. r = [left |-> n, f |-> f] BY <1>2 DEF TxResults
    <2> QED BY <2>1
<1>3. CASE ~ f.err /\ n # 0 /\ Writable(f)
    <2>1. PICK k \in 0 .. n - 1 : r = [left |-> k, f |-> [f EXCEPT !.full = k > 0]]
        BY <1>3 DEF TxResults
    <2> DEFINE full == k > 0
    <2>2. full \in BOOLEAN OBVIOUS
    <2>3. r = [left |-> k, f |-> [f EXCEPT !.full = full]] BY <2>1
    <2> HIDE DEF full
    <2> QED BY <2>2, <2>3 DEF Files
<1> QED BY <1>1, <1>2, <1>3

\* So the stream from the peer goes on.
LEMMA StreamGoesOn ==
    ASSUME NEW c \in Connections, NEW f \in Files, Stream(c, f),
           NEW n \in Nat, NEW r \in TxResults(n, f)
    PROVE  Stream(c, r.f)
<1>1. /\ r.f \in Files /\ r.f.sent = f.sent
      /\ \/ r.f.in = f.in /\ r.f.eof = f.eof
         \/ r.f.in = <<>> /\ r.f.eof = TRUE
    BY TxLeaves, ZenonT(30)
<1>2. CASE r.f.in = f.in /\ r.f.eof = f.eof BY <1>1, <1>2 DEF Stream
<1>3. CASE r.f.in = <<>> /\ r.f.eof = TRUE
    <2>1. \A g \in Files : g.in = <<>> /\ g.sent = f.sent /\ g.eof = TRUE => Stream(c, g)
        BY StreamLost
    <2> QED BY <1>1, <1>3, <2>1
<1> QED BY <1>1, <1>2, <1>3

\* The frames of data at the head of rx_buffer lie in it.
LEMMA FramesFit ==
    ASSUME NEW rx \in Seq(Pieces)
    PROVE  2 * DataFrames(rx) \in 0 .. Len(rx)
<1> DEFINE whole(n) == \A k \in 1 .. n : StartsWith(SubSeq(rx, 2 * k - 1, 2 * k), "data")
           S == {n \in 0 .. Len(rx) \div 2 : whole(n)}
<1>1. Len(rx) \div 2 \in Nat OBVIOUS
<1>2. whole(0) OBVIOUS
<1>3. 0 \in S BY <1>1, <1>2
<1>4. DataFrames(rx) = Max(S) BY DEF DataFrames
<1>5. S \subseteq 0 .. Len(rx) \div 2 OBVIOUS
<1> HIDE DEF S
<1>6. DataFrames(rx) \in 0 .. Len(rx) \div 2 BY <1>1, <1>3, <1>4, <1>5, MaxIsGreatest
<1> QED BY <1>6

-----------------------------------------------------------------------------
(* Handlers *)

\* A connection that a handler works on, with its descriptor, before they are
\* stored.
Ready(i, c, f) ==
    /\ i \in Live /\ c \in Connections /\ f \in Files
    /\ c.type = conn[i].type /\ c.fd = conn[i].fd /\ c.number = conn[i].number
    /\ c.armed = conn[i].armed /\ ~ c.connecting /\ c.type # "server_listen"
    /\ Fits(c, f)

\* Whatever leaves the rest of the state alone.
RestUnchanged == UNCHANGED <<opened, badUrls, closing, asserted>>

\* It is stored, its write readiness unchanged.
LEMMA ReadyStored ==
    ASSUME IInv, NEW i, NEW c, NEW f, Ready(i, c, f), Follows, RestUnchanged,
           conn' = [conn EXCEPT ![i] = c], file' = [file EXCEPT ![c.fd] = f],
           UNCHANGED <<interest, closed>>
    PROVE  IInv'
<1>1. interest = [interest EXCEPT ![c.fd] = File(i, c.type, c.armed)]
    BY DEF IInv, Ready, Held, TypeOK
<1> QED BY <1>1, StoreKeeps DEF Ready, RestUnchanged

\* The first call of an event is for a connection that fits the event; when
\* the handler returns the rest follows, and no other event is for it.
LEMMA HandlingFirst ==
    ASSUME IInv, NEW call, NEW types, Handling(call, types)
    PROVE  /\ batch # <<>> /\ batch[1].id \in Live /\ batch[1].type \in types
           /\ batch' = AfterCall(batch) /\ NextCall(batch[1]) = call
           /\ batch[1] \in Events /\ Expected(batch[1])
           /\ call = "read" => batch[1].calls = {"read"}
           /\ call # "write" => Follows /\ \A k \in DOMAIN batch' : batch'[k].id # batch[1].id
           /\ call # "write" /\ batch[1].type = "server_listen" =>
                  \A k \in DOMAIN batch' : batch'[k].type # "server_listen"
<1>1. TypeOK /\ Batched
    BY DEF IInv
<1>2. /\ batch # <<>> /\ batch[1].type \in types /\ batch' = AfterCall(batch)
      /\ NextCall(batch[1]) = call
    BY DEF Handling
<1>3. 1 \in DOMAIN batch /\ batch[1] \in Events /\ Expected(batch[1])
    BY <1>1, <1>2 DEF TypeOK, Batched
<1>4. batch[1].id \in Live
    BY <1>3 DEF Handling, Events, Live
<1>5. batch[1].calls \in Calls BY <1>3 DEF Events
<1>6. call = "read" => batch[1].calls = {"read"}
    BY <1>2, <1>5 DEF NextCall, Calls
<1>7. call # "write" => batch[1].calls # {"read", "write"}
    BY <1>2 DEF NextCall
<1>8. ASSUME call # "write"
      PROVE  /\ Follows
             /\ \A k \in DOMAIN batch' : k + 1 \in DOMAIN batch /\ batch'[k] = batch[k + 1] /\ k + 1 # 1
    <2>1. /\ Follows /\ batch' = Tail(batch)
          /\ \A k \in DOMAIN Tail(batch) : k + 1 \in DOMAIN batch /\ Tail(batch)[k] = batch[k + 1]
        BY <1>1, <1>2, <1>7, <1>8, FollowsCall
    <2>2. Tail(batch) \in Seq(Events) BY <1>1, <1>2 DEF TypeOK
    <2>3. \A k \in DOMAIN Tail(batch) : k + 1 # 1 BY <2>2
    <2> QED BY <2>1, <2>3
<1> QED BY <1>1, <1>2, <1>3, <1>4, <1>6, <1>8 DEF Batched

\* Frames are taken from rx_buffer, or the connection is closed.
LEMMA FramesParsedKeeps ==
    ASSUME IInv, NEW i, NEW c, NEW f, Ready(i, c, f), Follows, RestUnchanged,
           \A k \in DOMAIN batch' : batch'[k].id # i,
           NEW callback, FramesParsed(i, c, f, callback)
    PROVE  IInv'
<1>1. CASE Close(i)
    <2>1. closing' \in BOOLEAN /\ (closing => closing')
        BY DEF IInv, TypeOK, RestUnchanged
    <2>2. i \in Live BY DEF Ready
    <2> QED BY <2>1, <2>2, <1>1, CloseKeeps DEF RestUnchanged
<1>2. CASE /\ conn' = [conn EXCEPT ![i] = RxDeleted(c, 2 * DataFrames(c.rx))]
           /\ file' = [file EXCEPT ![c.fd] = f]
           /\ UNCHANGED <<interest, closed>>
    <2> DEFINE d == RxDeleted(c, 2 * DataFrames(c.rx))
    <2>1. c \in Connections /\ c.rx \in Seq(Pieces) /\ f \in Files /\ Fits(c, f)
        BY FieldTypes DEF Ready
    <2>2. c.type # "server_listen" /\ Stream(c, f)
        BY <2>1 DEF Ready, Fits
    <2>3. d \in Connections /\ Stream(d, f)
        BY <2>1, <2>2, FramesFit, StreamTaken
    <2>4. /\ d.type = c.type /\ d.fd = c.fd /\ d.number = c.number /\ d.armed = c.armed
          /\ d.connecting = c.connecting /\ d.handshake = c.handshake /\ d.tx = c.tx
        BY <2>1 DEF RxDeleted, Connections
    <2> HIDE DEF d
    <2>5. Fits(d, f) BY <2>1, <2>2, <2>3, <2>4 DEF Fits, Ready
    <2>6. Ready(i, d, f) BY <2>3, <2>4, <2>5 DEF Ready
    <2>7. conn' = [conn EXCEPT ![i] = d] /\ file' = [file EXCEPT ![d.fd] = f]
        BY <1>2, <2>4 DEF d
    <2> QED BY <1>2, <2>6, <2>7, ReadyStored
<1> QED BY <1>1, <1>2 DEF FramesParsed

\* A handshake that is accepted is there whole, or all of it but the last line
\* feed.
LEMMA ParsedLength ==
    ASSUME NEW rx \in Seq(Pieces), NEW p \in ServerParse(rx) \cup ClientParse(rx)
    PROVE  /\ p = "ok" => Len(rx) >= 2
           /\ p = "early" => Len(rx) = 1
<1>1. /\ p = "ok" => StartsWith(rx, "handshake")
      /\ p = "early" => Begun(rx, "handshake")
    BY DEF ServerParse, ClientParse
<1> QED BY <1>1 DEF StartsWith, Begun

\* What was read is parsed: a handshake first, then frames.
LEMMA ReceivedKeeps ==
    ASSUME IInv, NEW i, NEW c, NEW f, Ready(i, c, f), Follows, RestUnchanged,
           \A k \in DOMAIN batch' : batch'[k].id # i,
           batch[1].type \in {"server_client", "client"},
           batch[1].type = "server_client" => c.type = "server_client",
           NEW callback, Received(i, c, f, callback)
    PROVE  IInv'
<1>1. CASE c.handshake BY <1>1, FramesParsedKeeps DEF Received
<1>2. CASE Close(i)
    <2>1. closing' \in BOOLEAN /\ (closing => closing')
        BY DEF IInv, TypeOK, RestUnchanged
    <2>2. i \in Live BY DEF Ready
    <2> QED BY <2>1, <2>2, <1>2, CloseKeeps DEF RestUnchanged
<1>3. CASE /\ conn' = [conn EXCEPT ![i] = c]
           /\ file' = [file EXCEPT ![c.fd] = f]
           /\ UNCHANGED <<interest, closed>>
    BY <1>3, ReadyStored
<1>4. ASSUME ~ c.handshake,
             NEW r \in IF batch[1].type = "client" THEN {[left |-> c.tx, f |-> f]}
                       ELSE TxResults(c.tx + 2, f),
             NEW m \in 1 .. 2, Len(c.rx) >= m,
             FramesParsed(i, RxDeleted([c EXCEPT !.handshake = TRUE, !.tx = r.left], m), r.f, callback)
      PROVE  IInv'
    <2> DEFINE d == [c EXCEPT !.handshake = TRUE, !.tx = r.left]
               e == RxDeleted(d, m)
    <2>1. c \in Connections /\ f \in Files /\ Fits(c, f) /\ c.type # "server_listen" /\ Stream(c, f)
        BY DEF Ready, Fits
    <2>2. c.rx \in Seq(Pieces) /\ c.tx \in 0 .. MaxTx /\ MaxTx \in Nat \ {0, 1}
        BY <2>1, FieldTypes, WebsocketAssumption
    <2>3. r.left \in 0 .. MaxTx /\ r.f \in Files /\ r.f.use = f.use /\ Stream(c, r.f)
        <3>1. CASE batch[1].type = "client" BY <3>1, <2>1, <2>2
        <3>2. CASE batch[1].type # "client"
            <4>1. c.tx = 0 /\ r \in TxResults(2, f)
                BY <3>2, <2>1, <1>4 DEF Fits
            <4>2. r.left \in 0 .. 2 /\ r.f \in Files /\ r.f.use = f.use
                BY <4>1, <2>1, TxLeaves
            <4>3. Stream(c, r.f) BY <4>1, <2>1, StreamGoesOn
            <4> QED BY <4>2, <4>3, <2>2
        <3> QED BY <3>1, <3>2
    <2>4. /\ d \in Connections /\ d.got = c.got /\ d.rx = c.rx /\ d.handshake
          /\ d.type = c.type /\ d.fd = c.fd /\ d.number = c.number /\ d.armed = c.armed
          /\ d.connecting = c.connecting
        BY <2>1, <2>3 DEF Connections
    <2> HIDE DEF d
    <2>5. Stream(d, r.f) /\ m \in 0 .. Len(d.rx)
        <3>1. Stream(d, r.f) BY <2>3, <2>4 DEF Stream
        <3>2. Len(c.rx) >= m BY <1>4
        <3> QED BY <3>1, <3>2, <2>2, <2>4
    <2>6. e \in Connections /\ Stream(e, r.f)
        BY <2>3, <2>4, <2>5, StreamTaken
    <2>7. /\ e.type = c.type /\ e.fd = c.fd /\ e.number = c.number /\ e.armed = c.armed
          /\ e.connecting = c.connecting /\ e.handshake
        BY <2>4 DEF RxDeleted, Connections
    <2> HIDE DEF e
    <2>8. Fits(e, r.f) BY <2>1, <2>3, <2>6, <2>7 DEF Fits, Ready
    <2>9. Ready(i, e, r.f) BY <2>3, <2>6, <2>7, <2>8 DEF Ready
    <2>10. FramesParsed(i, e, r.f, callback) BY <1>4 DEF e, d
    <2> QED BY <2>9, <2>10, FramesParsedKeeps
<1>5. ASSUME ~ c.handshake PROVE IInv'
    <2>1. PICK parsed \in IF batch[1].type = "client" THEN ClientParse(c.rx) ELSE ServerParse(c.rx) :
              IF parsed \in {"ok", "early"}
              THEN IF callback = "error" THEN Close(i)
                   ELSE \E r \in IF batch[1].type = "client" THEN {[left |-> c.tx, f |-> f]}
                                 ELSE TxResults(c.tx + 2, f) :
                            FramesParsed(i, RxDeleted([c EXCEPT !.handshake = TRUE, !.tx = r.left],
                                                      IF parsed = "ok" THEN 2 ELSE 1),
                                         r.f, callback)
              ELSE IF Expired(c) \/ parsed = "error" THEN Close(i)
              ELSE /\ conn' = [conn EXCEPT ![i] = c]
                   /\ file' = [file EXCEPT ![c.fd] = f]
                   /\ UNCHANGED <<interest, closed>>
        BY <1>5 DEF Received
    <2> DEFINE m == IF parsed = "ok" THEN 2 ELSE 1
    <2>2. /\ parsed = "ok" => Len(c.rx) >= 2
          /\ parsed = "early" => Len(c.rx) = 1
        <3>1. c.rx \in Seq(Pieces) BY FieldTypes DEF Ready
        <3> QED BY <2>1, <3>1, ParsedLength
    <2>3. CASE parsed \in {"ok", "early"}
        <3>1. m \in 1 .. 2 /\ Len(c.rx) >= m BY <2>2, <2>3
        <3>2. CASE callback = "error" BY <2>1, <2>3, <3>2, <1>2
        <3>3. CASE callback # "error"
            <4>1. PICK r \in IF batch[1].type = "client" THEN {[left |-> c.tx, f |-> f]}
                             ELSE TxResults(c.tx + 2, f) :
                      FramesParsed(i, RxDeleted([c EXCEPT !.handshake = TRUE, !.tx = r.left], m),
                                   r.f, callback)
                BY <2>1, <2>3, <3>3
            <4> HIDE DEF m
            <4> QED BY <4>1, <3>1, <1>4, <1>5
        <3> QED BY <3>2, <3>3
    <2>4. CASE parsed \notin {"ok", "early"} BY <2>1, <2>4, <1>2, <1>3
    <2> QED BY <2>3, <2>4
<1> QED BY <1>1, <1>5

\* websocket_server_file_read_ready and its twin for clients.
LEMMA ReadReadyKeeps ==
    ASSUME IInv, ReadReady
    PROVE  IInv'
<1> DEFINE i == batch[1].id
           c == conn[i]
           f == file[c.fd]
<1>1. Handling("read", {"server_client", "client"}) /\ UNCHANGED <<opened, badUrls, closing, asserted>>
    BY DEF ReadReady
<1>2. /\ batch # <<>> /\ i \in Live /\ batch[1].type \in {"server_client", "client"}
      /\ Expected(batch[1]) /\ batch[1].calls = {"read"} /\ Follows
      /\ \A k \in DOMAIN batch' : batch'[k].id # i
    BY <1>1, HandlingFirst
<1>3. /\ c \in Connections /\ f \in Files /\ c # NoFile /\ Fits(c, f)
    BY <1>2, OwnDescriptor DEF IInv, Held, Live
<1>4. /\ c.type # "server_listen" /\ ~ c.connecting
      /\ batch[1].type = "server_client" => c.type = "server_client"
    BY <1>2, <1>3 DEF Expected
<1>5. Ready(i, c, f) /\ Stream(c, f) /\ f.in \in Seq(Pieces) /\ c.rx \in Seq(Pieces)
    BY <1>2, <1>3, <1>4, FieldTypes DEF Ready, Fits
<1>6. \/ f.err /\ file' = [file EXCEPT ![c.fd] = Reset(f)] /\ UNCHANGED <<conn, interest, closed>>
      \/ Close(i)
      \/ \E n \in (IF f.in = <<>> THEN {0} ELSE 1 .. Len(f.in)), callback \in {"ok", "error"} :
             Received(i, [c EXCEPT !.rx = @ \o SubSeq(f.in, 1, n)],
                      [f EXCEPT !.in = SubSeq(f.in, n + 1, Len(f.in))], callback)
    BY DEF ReadReady
<1>7. IInv /\ RestUnchanged BY <1>1 DEF RestUnchanged
<1>8. conn = [conn EXCEPT ![i] = c] BY <1>2 DEF IInv, TypeOK
<1> HIDE DEF i, c, f
<1>9. CASE file' = [file EXCEPT ![c.fd] = Reset(f)] /\ UNCHANGED <<conn, interest, closed>>
    <2>1. /\ Reset(f) \in Files /\ Reset(f).use = f.use /\ Reset(f).sent = f.sent
          /\ Reset(f).in = <<>> /\ Reset(f).eof = TRUE
        BY <1>3, EmptySeq DEF Reset, Files
    <2>2. Stream(c, Reset(f)) BY <2>1, <1>3, <1>5, StreamLost
    <2>3. Fits(c, Reset(f)) BY <2>1, <2>2, <1>3, <1>4 DEF Fits
    <2>4. Ready(i, c, Reset(f)) BY <2>1, <2>3, <1>5 DEF Ready
    <2>5. conn' = [conn EXCEPT ![i] = c] BY <1>8, <1>9
    <2> QED BY <2>4, <2>5, <1>2, <1>7, <1>9, ReadyStored
<1>10. CASE Close(i)
    <2>1. closing' \in BOOLEAN /\ (closing => closing') BY <1>1 DEF IInv, TypeOK
    <2> QED BY <2>1, <1>1, <1>2, <1>10, CloseKeeps
<1>11. ASSUME NEW n \in (IF f.in = <<>> THEN {0} ELSE 1 .. Len(f.in)), NEW callback \in {"ok", "error"},
              Received(i, [c EXCEPT !.rx = @ \o SubSeq(f.in, 1, n)],
                       [f EXCEPT !.in = SubSeq(f.in, n + 1, Len(f.in))], callback)
       PROVE  IInv'
    <2> DEFINE d == [c EXCEPT !.rx = @ \o SubSeq(f.in, 1, n)]
               g == [f EXCEPT !.in = SubSeq(f.in, n + 1, Len(f.in))]
    <2>1. n \in 0 .. Len(f.in) BY <1>5
    <2>2. SubSeq(f.in, 1, n) \in Seq(Pieces) /\ SubSeq(f.in, n + 1, Len(f.in)) \in Seq(Pieces)
        BY <2>1, <1>5, SplitInTwo
    <2>3. c.rx \o SubSeq(f.in, 1, n) \in Seq(Pieces)
        BY <2>2, <1>5, ConcatProperties
    <2>4. /\ d \in Connections /\ d.rx = c.rx \o SubSeq(f.in, 1, n) /\ d.got = c.got
          /\ d.type = c.type /\ d.fd = c.fd /\ d.number = c.number /\ d.armed = c.armed
          /\ d.connecting = c.connecting /\ d.handshake = c.handshake /\ d.tx = c.tx
        BY <2>3, <1>3 DEF Connections
    <2>5. /\ g \in Files /\ g.in = SubSeq(f.in, n + 1, Len(f.in))
          /\ g.use = f.use /\ g.sent = f.sent /\ g.eof = f.eof
        BY <2>2, <1>3 DEF Files
    <2>6. Received(i, d, g, callback) BY <1>11
    <2> HIDE DEF d, g
    <2>7. Stream(d, g) BY <2>1, <2>4, <2>5, <1>3, <1>5, StreamRead
    <2>8. Fits(d, g) BY <2>4, <2>5, <2>7, <1>3, <1>4 DEF Fits
    <2>9. Ready(i, d, g) BY <2>4, <2>5, <2>8, <1>5 DEF Ready
    <2>10. batch[1].type = "server_client" => d.type = "server_client" BY <2>4, <1>4
    <2> QED BY <2>6, <2>9, <2>10, <1>2, <1>7, ReceivedKeeps
<1> QED BY <1>6, <1>9, <1>10, <1>11

\* What a write handler stores: what is left to send, and the poller is told
\* when there is something for the first time or no more.
LEMMA StoreUpdatedKeeps ==
    ASSUME IInv, NEW i \in Live, NEW c \in Connections, NEW f \in Files,
           c.type = conn[i].type, c.fd = conn[i].fd, c.number = conn[i].number,
           c.armed = conn[i].armed, c.type # "server_listen", ~ c.connecting, Fits(c, f),
           StoreUpdated(i, c, f), Follows,
           UNCHANGED <<opened, badUrls, closed, closing, asserted>>
    PROVE  IInv'
<1> DEFINE armed == WriteInterest(c)
           d == [c EXCEPT !.armed = armed]
<1>1. armed \in BOOLEAN BY DEF WriteInterest
<1> HIDE DEF armed
<1>2. /\ d \in Connections /\ d.type = c.type /\ d.fd = c.fd /\ d.number = c.number
      /\ d.armed = armed /\ d.connecting = c.connecting /\ d.handshake = c.handshake
      /\ d.tx = c.tx /\ d.got = c.got /\ d.rx = c.rx
    BY <1>1 DEF Connections
<1>3. /\ conn' = [conn EXCEPT ![i] = d] /\ file' = [file EXCEPT ![d.fd] = f]
      /\ interest' = IF c.armed = armed THEN interest
                     ELSE [interest EXCEPT ![d.fd] = File(i, d.type, d.armed)]
    BY <1>2 DEF StoreUpdated, Updated, armed
<1> HIDE DEF d
<1>4. interest = [interest EXCEPT ![c.fd] = File(i, c.type, c.armed)]
    BY DEF IInv, Held, TypeOK
<1>5. interest' = [interest EXCEPT ![d.fd] = File(i, d.type, d.armed)]
    BY <1>2, <1>3, <1>4
<1>6. Fits(d, f) BY <1>2 DEF Fits, Stream
<1> QED BY <1>2, <1>3, <1>5, <1>6, StoreKeeps

\* A connection that has sent what the kernel takes of n pieces.
LEMMA TxFits ==
    ASSUME NEW c \in Connections, NEW f \in Files, Fits(c, f),
           c.type # "server_listen", ~ c.connecting,
           NEW n \in Nat, n <= MaxTx, c.type = "server_client" /\ ~ c.handshake => n = 0,
           NEW r \in TxResults(n, f)
    PROVE  LET d == [c EXCEPT !.tx = r.left] IN
           /\ d \in Connections /\ d.type = c.type /\ d.fd = c.fd /\ d.number = c.number
           /\ d.armed = c.armed /\ ~ d.connecting /\ d.handshake = c.handshake
           /\ r.f \in Files /\ Fits(d, r.f)
<1> DEFINE d == [c EXCEPT !.tx = r.left]
<1>1. MaxTx \in Nat BY WebsocketAssumption
<1>2. Stream(c, f) BY DEF Fits
<1>3. r.left \in 0 .. n /\ r.f \in Files /\ r.f.use = f.use /\ Stream(c, r.f)
    <2>1. r.left \in 0 .. n /\ r.f \in Files /\ r.f.use = f.use BY TxLeaves
    <2>2. Stream(c, r.f) BY <1>2, StreamGoesOn
    <2> QED BY <2>1, <2>2
<1>4. r.left \in 0 .. MaxTx BY <1>1, <1>3
<1>5. /\ d \in Connections /\ d.type = c.type /\ d.fd = c.fd /\ d.number = c.number
      /\ d.armed = c.armed /\ d.connecting = c.connecting /\ d.handshake = c.handshake
      /\ d.tx = r.left /\ d.got = c.got /\ d.rx = c.rx
    BY <1>4 DEF Connections
<1>6. Stream(d, r.f) BY <1>3, <1>5 DEF Stream
<1>7. d.type = "server_client" /\ ~ d.handshake => d.tx = 0 BY <1>1, <1>3, <1>5
<1> QED BY <1>3, <1>5, <1>6, <1>7 DEF Fits

\* websocket_server_file_write_ready
LEMMA ServerWriteReadyKeeps ==
    ASSUME IInv, ServerWriteReady
    PROVE  IInv'
<1> DEFINE i == batch[1].id
           c == conn[i]
           f == file[c.fd]
<1>1. /\ Handling("write", {"server_client"})
      /\ UNCHANGED <<opened, closed, badUrls, closing, asserted>>
    BY DEF ServerWriteReady
<1>2. /\ batch # <<>> /\ i \in Live /\ batch[1].type \in {"server_client"}
      /\ Expected(batch[1]) /\ batch' = AfterCall(batch) /\ i \in Slots
    BY <1>1, HandlingFirst DEF Live
<1>3. /\ c \in Connections /\ f \in Files /\ c # NoFile /\ Fits(c, f) /\ c.fd \in Fds
    BY <1>2, OwnDescriptor DEF IInv, Held, Live
<1>4. c.type = "server_client" /\ ~ c.connecting /\ c.tx \in Nat /\ c.tx \in 0 .. MaxTx
    BY <1>2, <1>3, FieldTypes DEF Expected, Fits, Unconnected
<1>5. PICK r \in TxResults(c.tx, f) :
          IF f.err THEN file' = [file EXCEPT ![c.fd] = r.f] /\ UNCHANGED <<conn, interest>>
          ELSE StoreUpdated(i, [c EXCEPT !.tx = r.left], r.f)
    BY DEF ServerWriteReady
<1>6. TypeOK BY DEF IInv
<1>7. c.type = "server_client" /\ ~ c.handshake => c.tx = 0 BY <1>3 DEF Fits
<1> HIDE DEF i, c, f
<1> DEFINE d == [c EXCEPT !.tx = r.left]
<1>8. /\ d \in Connections /\ d.type = c.type /\ d.fd = c.fd /\ d.number = c.number
      /\ d.armed = c.armed /\ ~ d.connecting /\ d.handshake = c.handshake
      /\ r.f \in Files /\ Fits(d, r.f)
    BY <1>3, <1>4, <1>5, <1>7, TxFits
<1>9. CASE f.err
    <2>1. conn' = conn /\ UNCHANGED interest /\ file' = [file EXCEPT ![c.fd] = r.f] BY <1>5, <1>9
    <2>2. Follows BY <2>1, <1>2, <1>4, <1>6, FollowsCall DEF i, c
    <2>3. conn' = [conn EXCEPT ![i] = c] BY <2>1, <1>2, <1>6 DEF TypeOK, c
    <2>4. Fits(c, r.f)
        <3>1. r.left = c.tx BY <1>5, <1>9 DEF TxResults
        <3>2. d = c BY <3>1, <1>3 DEF Connections
        <3> QED BY <3>2, <1>8
    <2>5. Ready(i, c, r.f) BY <1>2, <1>3, <1>4, <1>8, <2>4 DEF Ready, c
    <2> QED BY <2>1, <2>2, <2>3, <2>5, <1>1, ReadyStored DEF RestUnchanged
<1>10. CASE ~ f.err
    <2>1. StoreUpdated(i, d, r.f) BY <1>5, <1>10
    <2>2. ~ conn'[i].connecting
        <3>1. conn' = [conn EXCEPT ![i] = [d EXCEPT !.armed = WriteInterest(d)]]
            BY <2>1 DEF StoreUpdated
        <3> HIDE DEF d
        <3>2. conn'[i] = [d EXCEPT !.armed = WriteInterest(d)] BY <3>1, <1>2, <1>6 DEF TypeOK
        <3> QED BY <3>2, <1>8 DEF Connections
    <2>3. Follows BY <2>2, <1>2, <1>6, FollowsCall DEF i
    <2> HIDE DEF d
    <2> QED BY <2>1, <2>3, <1>1, <1>2, <1>4, <1>8, StoreUpdatedKeeps DEF c
<1> QED BY <1>9, <1>10

\* websocket_client_file_write_ready
LEMMA ClientWriteReadyKeeps ==
    ASSUME IInv, ClientWriteReady
    PROVE  IInv'
<1> DEFINE i == batch[1].id
           c == conn[i]
           f == file[c.fd]
           n == IF c.connecting THEN c.tx + 2 ELSE c.tx
           d == [c EXCEPT !.connecting = FALSE]
<1>1. /\ Handling("write", {"client"}) /\ UNCHANGED <<opened, closed, badUrls, closing, asserted>>
    BY DEF ClientWriteReady
<1>2. /\ batch # <<>> /\ i \in Live /\ batch[1].type = "client"
      /\ Expected(batch[1]) /\ batch' = AfterCall(batch) /\ i \in Slots
    BY <1>1, HandlingFirst DEF Live
<1>3. /\ c \in Connections /\ f \in Files /\ c # NoFile /\ Fits(c, f) /\ c.fd \in Fds
    BY <1>2, OwnDescriptor DEF IInv, Held, Live
<1>4. c.type # "server_listen" /\ c.tx \in 0 .. MaxTx /\ MaxTx \in Nat \ {0, 1}
    BY <1>2, <1>3, FieldTypes, WebsocketAssumption DEF Expected
<1>5. \/ /\ f.err /\ conn' = [conn EXCEPT ![i].connecting = FALSE]
         /\ file' = [file EXCEPT ![c.fd] = Reset(@)]
         /\ UNCHANGED interest
      \/ \E r \in TxResults(n, f) :
             StoreUpdated(i, [c EXCEPT !.connecting = FALSE, !.tx = r.left], r.f)
    BY DEF ClientWriteReady
<1>6. TypeOK BY DEF IInv
<1> HIDE DEF i, c, f
<1>7. /\ d \in Connections /\ d.type = c.type /\ d.fd = c.fd /\ d.number = c.number
      /\ d.armed = c.armed /\ ~ d.connecting /\ d.handshake = c.handshake
      /\ d.tx = c.tx /\ d.got = c.got /\ d.rx = c.rx
    BY <1>3 DEF Connections
<1>8. n \in 0 .. MaxTx /\ (d.type = "server_client" /\ ~ d.handshake => n = 0)
    BY <1>3, <1>4, <1>7 DEF Fits, Unconnected
<1> HIDE DEF n, d
<1>9. Stream(d, f) /\ Fits(d, f)
    <2>1. Stream(d, f) BY <1>3, <1>4, <1>7 DEF Fits, Stream
    <2> QED BY <2>1, <1>3, <1>7 DEF Fits
<1>10. CASE /\ conn' = [conn EXCEPT ![i].connecting = FALSE]
            /\ file' = [file EXCEPT ![c.fd] = Reset(@)]
            /\ UNCHANGED interest
    <2>1. /\ Reset(f) \in Files /\ Reset(f).use = f.use /\ Reset(f).sent = f.sent
          /\ Reset(f).in = <<>> /\ Reset(f).eof = TRUE
        BY <1>3, EmptySeq DEF Reset, Files
    <2>2. Stream(d, Reset(f)) BY <2>1, <1>3, <1>7, <1>9, StreamLost
    <2>3. Fits(d, Reset(f)) BY <2>1, <2>2, <1>4, <1>7, <1>9 DEF Fits
    <2>4. Ready(i, d, Reset(f)) BY <2>1, <2>3, <1>2, <1>4, <1>7 DEF Ready, c
    <2>5. conn' = [conn EXCEPT ![i] = d] BY <1>10 DEF d, c
    <2>6. file' = [file EXCEPT ![d.fd] = Reset(f)] BY <1>7, <1>10 DEF f
    <2>7. conn'[i] = d BY <2>5, <1>2, <1>6 DEF TypeOK
    <2>8. Follows BY <2>7, <1>2, <1>6, <1>7, FollowsCall DEF i
    <2> QED BY <2>4, <2>5, <2>6, <2>8, <1>1, <1>10, ReadyStored DEF RestUnchanged
<1>11. ASSUME NEW r \in TxResults(n, f),
              StoreUpdated(i, [c EXCEPT !.connecting = FALSE, !.tx = r.left], r.f)
       PROVE  IInv'
    <2> DEFINE e == [d EXCEPT !.tx = r.left]
    <2>1. /\ e \in Connections /\ e.type = d.type /\ e.fd = d.fd /\ e.number = d.number
          /\ e.armed = d.armed /\ ~ e.connecting /\ e.handshake = d.handshake
          /\ r.f \in Files /\ Fits(e, r.f)
        BY <1>3, <1>4, <1>7, <1>8, <1>9, TxFits
    <2>2. StoreUpdated(i, e, r.f) BY <1>11 DEF d
    <2> HIDE DEF e
    <2>3. ~ conn'[i].connecting
        <3>1. conn' = [conn EXCEPT ![i] = [e EXCEPT !.armed = WriteInterest(e)]]
            BY <2>2 DEF StoreUpdated
        <3>2. conn'[i] = [e EXCEPT !.armed = WriteInterest(e)] BY <3>1, <1>2, <1>6 DEF TypeOK
        <3> QED BY <3>2, <2>1 DEF Connections
    <2>4. Follows BY <2>3, <1>2, <1>6, FollowsCall DEF i
    <2>5. /\ e.type = conn[i].type /\ e.fd = conn[i].fd /\ e.number = conn[i].number
          /\ e.armed = conn[i].armed /\ e.type # "server_listen"
        BY <2>1, <1>4, <1>7 DEF c
    <2> QED BY <2>1, <2>2, <2>4, <2>5, <1>1, <1>2, StoreUpdatedKeeps
<1> QED BY <1>5, <1>10, <1>11

\* websocket_file_error_ready
LEMMA ErrorReadyKeeps ==
    ASSUME IInv, ErrorReady
    PROVE  IInv'
<1>1. Handling("error", Types) /\ Close(batch[1].id) /\ UNCHANGED <<opened, badUrls, closing, asserted>>
    BY DEF ErrorReady
<1>2. /\ batch[1].id \in Live /\ Follows
      /\ \A k \in DOMAIN batch' : batch'[k].id # batch[1].id
    BY <1>1, HandlingFirst
<1>3. closing' \in BOOLEAN /\ (closing => closing') BY <1>1 DEF IInv, TypeOK
<1> QED BY <1>1, <1>2, <1>3, CloseKeeps

\* A new connection and its descriptor fit; nothing was sent yet.
LEMMA NewFits ==
    ASSUME NEW type \in Types, NEW fd \in Fds, NEW number \in 0 .. MaxOpen,
           type = "server_listen" <=> number = 0, NEW up \in BOOLEAN,
           NEW connecting \in BOOLEAN, connecting => type = "client",
           NEW use, use = IF type = "server_listen" THEN "listen" ELSE "socket",
           type = "server_listen" => ~ up
    PROVE  /\ Connection(type, fd, number, connecting, connecting) \in Connections
           /\ KernelFile(use, up) \in Files
           /\ Fits(Connection(type, fd, number, connecting, connecting), KernelFile(use, up))
<1> DEFINE c == Connection(type, fd, number, connecting, connecting)
           f == KernelFile(use, up)
<1>1. <<>> \in Seq(Pieces) /\ 0 \in 0 .. MaxTx
    BY EmptySeq, WebsocketAssumption
<1>2. /\ c \in Connections /\ c.type = type /\ c.number = number /\ ~ c.handshake /\ c.tx = 0
      /\ c.connecting = connecting /\ c.armed = connecting /\ c.rx = <<>> /\ c.got = <<>>
    BY <1>1 DEF Connection, Connections
<1>3. /\ f \in Files /\ f.use = use /\ f.up = up /\ ~ f.eof /\ ~ f.err /\ ~ f.full
      /\ f.in = <<>> /\ f.sent = <<>>
    BY <1>1 DEF KernelFile, Files
<1> HIDE DEF c, f
<1>4. Stream(c, f)
    <2>1. c.got \o c.rx \o f.in = <<>> BY <1>1, <1>2, <1>3, ConcatEmptySeq
    <2>2. Begins(<<>>, <<>>) BY <1>1, BeginsItself
    <2> QED BY <2>1, <2>2, <1>3 DEF Stream
<1>5. Fits(c, f) BY <1>2, <1>3, <1>4 DEF Fits, Unconnected
<1> QED BY <1>2, <1>3, <1>5 DEF c, f

\* accept and socket take the lowest descriptor that is free.
LEMMA LowestIsFree ==
    ASSUME FreeFds # {}
    PROVE  Min(FreeFds) \in FreeFds /\ FreeFds \subseteq Fds
<1>1. FreeFds \subseteq Nat /\ FreeFds \subseteq Fds BY WebsocketAssumption DEF FreeFds
<1> QED BY <1>1, MinIsLeast

\* A handler that only returns.
LEMMA ReturnKeeps ==
    ASSUME IInv, Follows, UNCHANGED <<conn, file, interest, opened, closed, badUrls, closing, asserted>>
    PROVE  IInv'
<1>1. TypeOK /\ Held /\ Numbered /\ Batched BY DEF IInv
<1>2. TypeOK' BY <1>1 DEF TypeOK, Follows
<1>3. Held' BY <1>1 DEF Held, Live
<1>4. Numbered' BY <1>1 DEF Numbered, Live, PeerWaits
<1>5. closing \in BOOLEAN BY <1>1 DEF TypeOK
<1>6. Batched' BY <1>1, <1>5, BatchKept
<1> QED BY <1>2, <1>3, <1>4, <1>6 DEF IInv

\* websocket_server_file_accept_on_read_ready
LEMMA AcceptKeeps ==
    ASSUME IInv, Accept
    PROVE  IInv'
<1> DEFINE l == batch[1].id
           d == conn[l].fd
<1>1. TypeOK /\ Held /\ Numbered
    BY DEF IInv
<1>2. Handling("read", {"server_listen"}) /\ UNCHANGED <<closed, badUrls, closing, asserted>>
    BY DEF Accept
<1>3. /\ l \in Live /\ batch[1].type = "server_listen" /\ Expected(batch[1]) /\ Follows
      /\ \A k \in DOMAIN batch' : batch'[k].type # "server_listen"
    BY <1>2, HandlingFirst
<1>4. CASE FreeFds = {}
    <2>1. UNCHANGED <<conn, file, interest, opened>> BY <1>4 DEF Accept
    <2> QED BY <2>1, <1>2, <1>3, ReturnKeeps
<1>5. CASE FreeFds # {}
    <2> DEFINE fd == Min(FreeFds)
               c == Connection("server_client", fd, opened + 1, FALSE, FALSE)
               f == KernelFile("socket", TRUE)
               g == [file EXCEPT ![d].in = <<>>]
    <2>1. PICK i \in FreeSlots :
              /\ conn' = [conn EXCEPT ![i] = c]
              /\ file' = [file EXCEPT ![fd] = f, ![d].in = <<>>]
              /\ interest' = Updated(interest, fd, i, "server_client", FALSE)
              /\ opened' = opened + 1
        BY <1>5 DEF Accept
    <2>2. fd \in FreeFds /\ fd \in Fds BY <1>5, LowestIsFree
    <2>3. /\ conn[l] # NoFile /\ conn[l].type = "server_listen" /\ file[d].in # <<>>
          /\ file[d].use = "listen" /\ d \in Fds /\ file[d] \in Files /\ conn[l].number = 0
        BY <1>1, <1>3, OwnDescriptor DEF Live, Expected, Held, Fits
    <2>4. opened < MaxOpen /\ opened \in 0 .. MaxOpen
        BY <2>3, <1>1 DEF Numbered, PeerWaits, TypeOK
    <2>5. opened + 1 \in 0 .. MaxOpen /\ opened + 1 # 0 BY <2>4, WebsocketAssumption
    <2>6. c \in Connections /\ f \in Files /\ Fits(c, f)
        BY <2>2, <2>5, NewFits DEF Types
    <2>7. /\ c.type = "server_client" /\ c.fd = fd /\ c.number = opened + 1 /\ c.armed = FALSE
          /\ c.connecting = FALSE /\ f.in = <<>>
        BY DEF Connection, KernelFile
    <2> HIDE DEF c, f, fd, d, l
    <2>8. fd # d BY <2>2, <2>3 DEF FreeFds
    <2>9. /\ g \in [Fds -> Files] /\ \A e \in Fds : g[e].use = file[e].use
          /\ \A e \in Fds : e # d => g[e] = file[e]
          /\ g[d] = [file[d] EXCEPT !.in = <<>>]
        <3>1. [file[d] EXCEPT !.in = <<>>] \in Files /\ [file[d] EXCEPT !.in = <<>>].use = file[d].use
            BY <2>3, EmptySeq DEF Files
        <3>2. g = [file EXCEPT ![d] = [file[d] EXCEPT !.in = <<>>]] OBVIOUS
        <3> QED BY <3>1, <3>2, <2>3, <1>1 DEF TypeOK
    <2>10. file' = [g EXCEPT ![fd] = f]
        <3>1. file' = [[file EXCEPT ![fd] = f] EXCEPT ![d].in = <<>>] BY <2>1
        <3> QED BY <3>1, <2>2, <2>3, <2>8, <2>9, <1>1 DEF TypeOK
    <2>11. ASSUME NEW j \in Live PROVE Fits(conn[j], g[conn[j].fd])
        <3>1. CASE j = l
            <4>1. Fits(conn[l], file[d]) BY <1>1, <1>3 DEF Held, d
            <4>2. g[d].use = "listen" /\ ~ g[d].eof /\ ~ g[d].err /\ ~ g[d].up /\ g[d].full = file[d].full
                  /\ ~ conn[l].connecting
                BY <4>1, <2>3, <2>9 DEF Fits, Unconnected, Files
            <4> QED BY <4>1, <4>2, <3>1, <2>3 DEF Fits, d
        <3>2. CASE j # l
            <4>1. conn[j].fd # d /\ conn[j].fd \in Fds BY <3>2, <1>1, <1>3, OwnDescriptor DEF d
            <4> QED BY <4>1, <2>9, <1>1 DEF Held
        <3> QED BY <3>1, <3>2
    <2>12. ASSUME NEW e \in Fds, g[e].use = "listen" PROVE g[e].in = <<>>
        <3>1. file[e].use = "listen" BY <2>9, <2>12
        <3>2. PICK j \in Live : conn[j].fd = e BY <3>1, <1>1 DEF Held
        <3>3. conn[j].number = 0 BY <3>1, <3>2, <1>1 DEF Held, Fits
        <3>4. j = l BY <3>3, <2>3, <1>1, <1>3 DEF Numbered
        <3>5. e = d BY <3>2, <3>4 DEF d
        <3> QED BY <3>5, <2>3, <2>9 DEF Files
    <2> HIDE DEF g
    <2>13. interest' = [interest EXCEPT ![fd] = File(i, c.type, c.armed)]
        BY <2>1, <2>7 DEF Updated
    <2>14. c.number = opened + 1 /\ opened' = opened + 1 /\ opened < MaxOpen
        BY <2>1, <2>4, <2>7
    <2>15. (\E e \in Fds : g[e].use = "listen" /\ g[e].in # <<>>) => opened' < MaxOpen
        BY <2>12
    <2>16. /\ c.type = "server_client" /\ ~ c.connecting
           /\ \A k \in DOMAIN batch' : batch'[k].type # "server_listen"
        BY <2>7, <1>3
    <2>17. \A e \in Fds : g[e].use = file[e].use BY <2>9
    <2>18. g \in [Fds -> Files] /\ c.fd = fd /\ f.in = <<>> BY <2>7, <2>9
    <2>19. conn' = [conn EXCEPT ![i] = c] BY <2>1
    <2> QED BY <2>2, <2>6, <2>10, <2>11, <2>13, <2>14, <2>15, <2>16, <2>17, <2>18, <2>19,
               <1>2, <1>3, OpenKeeps
<1> QED BY <1>4, <1>5

-----------------------------------------------------------------------------
(* The interface *)

\* websocket_server_add_listener
LEMMA AddListenerKeeps ==
    ASSUME IInv, AddListener
    PROVE  IInv'
<1> DEFINE fd == Min(FreeFds)
           c == Connection("server_listen", fd, 0, FALSE, FALSE)
           f == KernelFile("listen", FALSE)
<1>1. /\ batch = <<>> /\ FreeFds # {} /\ \A i \in Live : conn[i].type # "server_listen"
      /\ UNCHANGED <<batch, opened, closed, badUrls, closing, asserted>>
    BY DEF AddListener
<1>2. PICK i \in FreeSlots :
          /\ conn' = [conn EXCEPT ![i] = c] /\ file' = [file EXCEPT ![fd] = f]
          /\ interest' = Updated(interest, fd, i, "server_listen", FALSE)
    BY DEF AddListener
<1>3. TypeOK /\ Held /\ Numbered BY DEF IInv
<1>4. fd \in FreeFds /\ fd \in Fds BY <1>1, LowestIsFree
<1>5. 0 \in 0 .. MaxOpen BY WebsocketAssumption
<1>6. c \in Connections /\ f \in Files /\ Fits(c, f)
    BY <1>4, <1>5, NewFits DEF Types
<1>7. /\ c.type = "server_listen" /\ c.fd = fd /\ c.number = 0 /\ c.armed = FALSE
      /\ f.in = <<>>
    BY DEF Connection, KernelFile
<1> HIDE DEF fd, c, f
<1>8. file \in [Fds -> Files] /\ \A j \in Live : Fits(conn[j], file[conn[j].fd])
    BY <1>3 DEF TypeOK, Held
<1>9. (\E e \in Fds : file[e].use = "listen" /\ file[e].in # <<>>) => opened' < MaxOpen
    BY <1>1, <1>3 DEF Numbered, PeerWaits
<1>10. interest' = [interest EXCEPT ![fd] = File(i, c.type, c.armed)]
    BY <1>2, <1>7 DEF Updated
<1>11. Follows BY <1>1, <1>3, FollowsUnchanged
<1>12. batch' = <<>> BY <1>1
<1> QED BY <1>1, <1>2, <1>4, <1>6, <1>7, <1>8, <1>9, <1>10, <1>11, <1>12, OpenKeeps

\* websocket_client_add_connection
LEMMA AddConnectionKeeps ==
    ASSUME IInv, AddConnection
    PROVE  IInv'
<1> DEFINE fd == Min(FreeFds)
           c == Connection("client", fd, opened + 1, TRUE, TRUE)
           f == KernelFile("socket", FALSE)
<1>1. /\ batch = <<>> /\ FreeFds # {} /\ opened < MaxOpen /\ ~ PeerWaits /\ opened' = opened + 1
      /\ UNCHANGED <<batch, closed, badUrls, closing, asserted>>
    BY DEF AddConnection
<1>2. PICK i \in FreeSlots :
          /\ conn' = [conn EXCEPT ![i] = c] /\ file' = [file EXCEPT ![fd] = f]
          /\ interest' = Updated(interest, fd, i, "client", TRUE)
    BY DEF AddConnection
<1>3. TypeOK /\ Held /\ Numbered BY DEF IInv
<1>4. fd \in FreeFds /\ fd \in Fds BY <1>1, LowestIsFree
<1>5. opened \in 0 .. MaxOpen BY <1>3 DEF TypeOK
<1>6. opened + 1 \in 0 .. MaxOpen /\ opened + 1 # 0 BY <1>1, <1>5, WebsocketAssumption
<1>7. c \in Connections /\ f \in Files /\ Fits(c, f)
    BY <1>4, <1>6, NewFits DEF Types
<1>8. /\ c.type = "client" /\ c.fd = fd /\ c.number = opened + 1 /\ c.armed = TRUE
      /\ f.in = <<>>
    BY DEF Connection, KernelFile
<1> HIDE DEF fd, c, f
<1>9. file \in [Fds -> Files] /\ \A j \in Live : Fits(conn[j], file[conn[j].fd])
    BY <1>3 DEF TypeOK, Held
<1>10. ~ \E e \in Fds : file[e].use = "listen" /\ file[e].in # <<>>
    BY <1>1 DEF PeerWaits
<1>11. interest' = [interest EXCEPT ![fd] = File(i, c.type, c.armed)]
    BY <1>2, <1>8 DEF Updated
<1>12. Follows BY <1>1, <1>3, FollowsUnchanged
<1>13. batch' = <<>> BY <1>1
<1> QED BY <1>1, <1>2, <1>4, <1>7, <1>8, <1>9, <1>10, <1>11, <1>12, <1>13, OpenKeeps

\* websocket_socket_tx_frame_helper
LEMMA TxFrameKeeps ==
    ASSUME IInv, NEW i \in Live, TxFrame(i)
    PROVE  IInv'
<1> DEFINE c == conn[i]
           f == file[c.fd]
<1>1. /\ c.handshake /\ c.tx + 2 <= MaxTx
      /\ UNCHANGED <<interest, batch, opened, closed, badUrls, closing, asserted>>
    BY DEF TxFrame
<1>2. PICK r \in TxResults(c.tx + 2, f) :
          conn' = [conn EXCEPT ![i].tx = r.left] /\ file' = [file EXCEPT ![c.fd] = r.f]
    BY DEF TxFrame
<1>3. /\ TypeOK /\ c \in Connections /\ f \in Files /\ Fits(c, f)
    BY OwnDescriptor DEF IInv, Held
<1>4. c.type # "server_listen" /\ ~ c.connecting /\ c.tx + 2 \in Nat
    BY <1>1, <1>3, FieldTypes DEF Fits, Unconnected
<1> HIDE DEF f
<1> DEFINE d == [c EXCEPT !.tx = r.left]
<1> HIDE DEF c
<1>5. /\ d \in Connections /\ d.type = c.type /\ d.fd = c.fd /\ d.number = c.number
      /\ d.armed = c.armed /\ ~ d.connecting /\ r.f \in Files /\ Fits(d, r.f)
    BY <1>1, <1>3, <1>4, TxFits
<1>6. Ready(i, d, r.f) BY <1>4, <1>5 DEF Ready, c
<1>7. conn' = [conn EXCEPT ![i] = d] BY <1>2 DEF c
<1>8. file' = [file EXCEPT ![d.fd] = r.f] BY <1>2, <1>5
<1>9. Follows BY <1>1, <1>3, FollowsUnchanged
<1> HIDE DEF d
<1> QED BY <1>1, <1>6, <1>7, <1>8, <1>9, ReadyStored DEF RestUnchanged

\* websocket_close, from a callback or between batches.
LEMMA WebsocketCloseKeeps ==
    ASSUME IInv, NEW i \in Live, WebsocketClose(i)
    PROVE  IInv'
<1>1. Close(i) /\ closing' = (closing \/ batch # <<>>) /\ UNCHANGED <<batch, opened, badUrls, asserted>>
    BY DEF WebsocketClose
<1>2. TypeOK BY DEF IInv
<1>3. Follows BY <1>1, <1>2, FollowsUnchanged
<1>4. closing' \in BOOLEAN /\ (closing => closing')
    <2>1. closing' = (closing \/ batch # <<>>) BY <1>1
    <2>2. closing' \in BOOLEAN BY <2>1, Zenon
    <2>3. closing => closing' BY <2>1, Zenon
    <2> QED BY <2>2, <2>3
<1>5. closing' \/ \A k \in DOMAIN batch' : batch'[k].id # i
    <2>1. CASE batch = <<>>
        <3>1. batch' = <<>> BY <1>1, <2>1
        <3> QED BY <3>1
    <2>2. CASE batch # <<>>
        <3>1. closing' = (closing \/ batch # <<>>) BY <1>1
        <3>2. closing' BY <3>1, <2>2, Zenon
        <3> QED BY <3>2
    <2> QED BY <2>1, <2>2
<1> QED BY <1>1, <1>3, <1>4, <1>5, CloseKeeps

-----------------------------------------------------------------------------
(* Peers, kernel, time *)

\* The peer or the kernel acts on the descriptor of a connection.
LEMMA EnvKeeps ==
    ASSUME IInv, NEW fd \in Sockets, NEW f \in Files, Env(fd, f),
           \A c \in Connections :
               c.type # "server_listen" /\ Fits(c, file[fd]) => Fits(c, f)
    PROVE  IInv'
<1>1. file' = [file EXCEPT ![fd] = f] /\ fd \in Fds /\ file[fd].use = "socket"
      /\ UNCHANGED <<conn, interest, batch, opened, closed, badUrls, closing, asserted>>
    BY DEF Env, Sockets
<1>2. TypeOK /\ Held BY DEF IInv
<1>3. PICK i \in Live : conn[i].fd = fd BY <1>1, <1>2 DEF Held
<1>4. conn[i] \in Connections /\ i \in Slots /\ Fits(conn[i], file[fd])
    BY <1>2, <1>3, OwnDescriptor DEF Held
<1>5. conn[i].type # "server_listen" BY <1>1, <1>4 DEF Fits
<1>6. Fits(conn[i], f) BY <1>4, <1>5
<1>7. /\ conn' = [conn EXCEPT ![i] = conn[i]]
      /\ interest' = [interest EXCEPT ![conn[i].fd] = File(i, conn[i].type, conn[i].armed)]
    <2>1. interest[fd] = File(i, conn[i].type, conn[i].armed) BY <1>2, <1>3 DEF Held
    <2> QED BY <2>1, <1>1, <1>2, <1>3, <1>4 DEF TypeOK
<1>8. file' = [file EXCEPT ![conn[i].fd] = f] BY <1>1, <1>3
<1>9. Follows BY <1>1, <1>2, FollowsUnchanged
<1> QED BY <1>1, <1>4, <1>5, <1>6, <1>7, <1>8, <1>9, StoreKeeps

\* A unit arrives, in two pieces.
LEMMA PeerSendKeeps ==
    ASSUME IInv, NEW fd \in Sockets, NEW unit \in Units, PeerSend(fd, unit)
    PROVE  IInv'
<1> DEFINE p == <<<<unit, 1>>, <<unit, 2>>>>
           f == file[fd]
           g == [f EXCEPT !.in = @ \o p, !.sent = @ \o p]
<1>1. f.up /\ ~ f.eof /\ Env(fd, g) BY DEF PeerSend
<1>2. f \in Files BY DEF IInv, TypeOK, Sockets
<1>3. p \in Seq(Pieces)
    <2>1. <<unit, 1>> \in Pieces /\ <<unit, 2>> \in Pieces BY DEF Pieces
    <2> QED BY <2>1
<1> HIDE DEF p
<1>4. f.in \o p \in Seq(Pieces) /\ f.sent \o p \in Seq(Pieces)
    BY <1>2, <1>3, FieldTypes, ConcatProperties
<1>5. /\ g \in Files /\ g.in = f.in \o p /\ g.sent = f.sent \o p /\ g.use = f.use
      /\ g.up = f.up /\ g.eof = f.eof /\ g.err = f.err /\ g.full = f.full
    BY <1>2, <1>4 DEF Files
<1>6. f.eof = FALSE BY <1>1, <1>2, FieldTypes
<1> HIDE DEF g, f
<1>7. ASSUME NEW c \in Connections, c.type # "server_listen", Fits(c, f) PROVE Fits(c, g)
    <2>1. Stream(c, f) BY <1>7 DEF Fits
    <2>2. Stream(c, g) BY <2>1, <1>2, <1>3, <1>5, <1>6, StreamSent
    <2> QED BY <2>2, <1>1, <1>5, <1>7 DEF Fits, Unconnected
<1> QED BY <1>1, <1>5, <1>7, EnvKeeps DEF f

\* The peer closes, the connection is reset or made, or has room again.
LEMMA PeerKeeps ==
    ASSUME IInv, NEW fd \in Sockets,
           PeerClose(fd) \/ PeerReset(fd) \/ Connected(fd) \/ Drained(fd)
    PROVE  IInv'
<1> DEFINE f == file[fd]
<1>1. f \in Files BY DEF IInv, TypeOK, Sockets
<1>2. CASE PeerClose(fd)
    <2> DEFINE g == [f EXCEPT !.eof = TRUE]
    <2>1. f.up /\ Env(fd, g) BY <1>2 DEF PeerClose
    <2>2. g \in Files /\ g.in = f.in /\ g.sent = f.sent /\ g.use = f.use /\ g.up = f.up
          /\ g.eof = TRUE /\ g.full = f.full
        BY <1>1 DEF Files
    <2> HIDE DEF g
    <2>3. ASSUME NEW c \in Connections, c.type # "server_listen", Fits(c, f) PROVE Fits(c, g)
        BY <2>1, <2>2, <2>3 DEF Fits, Unconnected, Stream
    <2> QED BY <2>1, <2>2, <2>3, EnvKeeps
<1>3. CASE PeerReset(fd)
    <2> DEFINE g == [f EXCEPT !.err = TRUE, !.eof = TRUE, !.in = <<>>]
    <2>1. Env(fd, g) BY <1>3 DEF PeerReset
    <2>2. g \in Files /\ g.in = <<>> /\ g.sent = f.sent /\ g.use = f.use /\ g.err
          /\ g.eof = TRUE /\ g.full = f.full
        BY <1>1, EmptySeq DEF Files
    <2> HIDE DEF g, f
    <2>3. ASSUME NEW c \in Connections, c.type # "server_listen", Fits(c, f) PROVE Fits(c, g)
        <3>1. Stream(c, g) BY <2>2, <2>3, <1>1, StreamLost DEF Fits
        <3> QED BY <3>1, <2>2, <2>3 DEF Fits, Unconnected
    <2> QED BY <2>1, <2>2, <2>3, EnvKeeps DEF f
<1>4. CASE Connected(fd)
    <2> DEFINE g == [f EXCEPT !.up = TRUE]
    <2>1. Env(fd, g) BY <1>4 DEF Connected
    <2>2. g \in Files /\ g.in = f.in /\ g.sent = f.sent /\ g.use = f.use /\ g.up
          /\ g.eof = f.eof /\ g.full = f.full
        BY <1>1 DEF Files
    <2> HIDE DEF g
    <2>3. ASSUME NEW c \in Connections, c.type # "server_listen", Fits(c, f) PROVE Fits(c, g)
        BY <2>2, <2>3 DEF Fits, Unconnected, Stream
    <2> QED BY <2>1, <2>2, <2>3, EnvKeeps
<1>5. CASE Drained(fd)
    <2> DEFINE g == [f EXCEPT !.full = FALSE]
    <2>1. Env(fd, g) BY <1>5 DEF Drained
    <2>2. g \in Files /\ g.in = f.in /\ g.sent = f.sent /\ g.use = f.use /\ g.up = f.up
          /\ g.eof = f.eof /\ g.err = f.err /\ ~ g.full
        BY <1>1 DEF Files
    <2> HIDE DEF g
    <2>3. ASSUME NEW c \in Connections, c.type # "server_listen", Fits(c, f) PROVE Fits(c, g)
        BY <2>2, <2>3 DEF Fits, Unconnected, Stream
    <2> QED BY <2>1, <2>2, <2>3, EnvKeeps
<1> QED BY <1>2, <1>3, <1>4, <1>5

\* A peer waits to be accepted.
LEMMA PeerConnectKeeps ==
    ASSUME IInv, NEW fd \in Fds, PeerConnect(fd)
    PROVE  IInv'
<1> DEFINE f == [file[fd] EXCEPT !.in = <<<<"peer", 1>>>>]
<1>1. /\ file[fd].use = "listen" /\ opened < MaxOpen /\ file' = [file EXCEPT ![fd] = f]
      /\ UNCHANGED <<conn, interest, batch, opened, closed, badUrls, closing, asserted>>
    BY DEF PeerConnect, Env
<1>2. TypeOK /\ Held /\ Numbered /\ Batched BY DEF IInv
<1>3. <<<<"peer", 1>>>> \in Seq(Pieces) /\ <<<<"peer", 1>>>> # <<>>
    <2>1. <<"peer", 1>> \in Pieces BY DEF Pieces
    <2> QED BY <2>1
<1>4. /\ f \in Files /\ f.use = "listen" /\ f.in # <<>> /\ f.eof = file[fd].eof
      /\ f.err = file[fd].err /\ f.up = file[fd].up
    BY <1>1, <1>2, <1>3 DEF TypeOK, Files
<1> HIDE DEF f
<1>5. file'[fd] = f /\ \A e \in Fds : e # fd => file'[e] = file[e]
    BY <1>1, <1>2 DEF TypeOK
<1>6. TypeOK' BY <1>1, <1>2, <1>4 DEF TypeOK
<1>7. Live' = Live BY <1>1 DEF Live
<1>8. Held'
    <2>1. ASSUME NEW i \in Live PROVE Fits(conn[i], file'[conn[i].fd])
        <3>1. Fits(conn[i], file[conn[i].fd]) /\ conn[i].fd \in Fds BY <1>2, OwnDescriptor DEF Held
        <3>2. CASE conn[i].fd = fd
            <4>1. conn[i].type = "server_listen" BY <3>1, <3>2, <1>1 DEF Fits
            <4> QED BY <4>1, <3>1, <3>2, <1>4, <1>5 DEF Fits, Unconnected
        <3>3. CASE conn[i].fd # fd BY <3>1, <3>3, <1>5
        <3> QED BY <3>2, <3>3
    <2>2. \A e \in Fds : file'[e].use = file[e].use BY <1>1, <1>4, <1>5
    <2>3. 0 \in Fds BY WebsocketAssumption
    <2> QED BY <2>1, <2>2, <2>3, <1>1, <1>2, <1>7 DEF Held
<1>9. Numbered' BY <1>1, <1>2, <1>7 DEF Numbered
<1>10. Batched'
    <2>1. \A k \in DOMAIN batch : batch[k].id \in Slots
        <3> TAKE k \in DOMAIN batch
        <3>1. batch[k] \in Events BY <1>2 DEF TypeOK
        <3> QED BY <3>1 DEF Events
    <2>2. \A i \in Live : conn[i].fd \in Fds /\ (file[conn[i].fd].in # <<>> => file'[conn[i].fd].in # <<>>)
        BY <1>2, <1>4, <1>5, OwnDescriptor
    <2>3. ASSUME NEW k \in DOMAIN batch PROVE Expected(batch[k]) => Expected(batch[k])'
        BY <2>1, <2>2, <1>1 DEF Expected, Live
    <2> QED BY <2>3, <1>1, <1>2, <1>7 DEF Batched, EventsFindConnection
<1> QED BY <1>6, <1>8, <1>9, <1>10 DEF IInv

\* Time passes for a connection.
LEMMA ExpireKeeps ==
    ASSUME IInv, NEW i \in Live, Expire(i)
    PROVE  IInv'
<1> DEFINE c == conn[i]
           d == [c EXCEPT !.old = TRUE]
           f == file[c.fd]
<1>1. /\ conn' = [conn EXCEPT ![i] = d] /\ ~ c.connecting /\ c.type # "server_listen"
      /\ UNCHANGED <<file, interest, batch, opened, closed, badUrls, closing, asserted>>
    BY DEF Expire
<1>2. TypeOK /\ c \in Connections /\ f \in Files /\ Fits(c, f)
    BY OwnDescriptor DEF IInv, Held
<1> HIDE DEF c, f
<1>3. /\ d \in Connections /\ d.type = c.type /\ d.fd = c.fd /\ d.number = c.number
      /\ d.armed = c.armed /\ d.connecting = c.connecting /\ d.handshake = c.handshake
      /\ d.tx = c.tx /\ d.got = c.got /\ d.rx = c.rx
    BY <1>2 DEF Connections
<1> HIDE DEF d
<1>4. Fits(d, f) BY <1>1, <1>2, <1>3 DEF Fits, Stream
<1>5. Ready(i, d, f) BY <1>1, <1>2, <1>3, <1>4 DEF Ready, c
<1>6. file' = [file EXCEPT ![d.fd] = f] BY <1>1, <1>2, <1>3 DEF f, TypeOK
<1>7. Follows BY <1>1, <1>2, FollowsUnchanged
<1> QED BY <1>1, <1>5, <1>6, <1>7, ReadyStored DEF RestUnchanged

\* websocket_at_index asserts; nothing else happens.
LEMMA StaleIndexKeeps ==
    ASSUME IInv, StaleIndex
    PROVE  IInv'
<1>1. UNCHANGED <<conn, file, interest, batch, opened, closed, badUrls, closing>> /\ asserted' = TRUE
    BY DEF StaleIndex
<1>2. TypeOK' BY <1>1 DEF IInv, TypeOK
<1>3. Held' BY <1>1 DEF IInv, Held, Live
<1>4. Numbered' BY <1>1 DEF IInv, Numbered, Live, PeerWaits
<1>5. Batched' BY <1>1 DEF IInv, Batched, Expected, EventsFindConnection, Live
<1> QED BY <1>2, <1>3, <1>4, <1>5 DEF IInv

-----------------------------------------------------------------------------
(* The theorems *)

\* At the start there is nothing but the program's descriptor 0.
LEMMA InitSound ==
    ASSUME Init
    PROVE  Sound
<1>1. /\ interest = [fd \in Fds |-> NoFile] /\ batch = <<>> /\ conn = [i \in Slots |-> NoFile]
      /\ file = [fd \in Fds |-> IF fd = 0 THEN KernelFile("program", FALSE) ELSE Shut]
      /\ opened = 0 /\ badUrls = 0 /\ closed = [n \in 1 .. MaxOpen |-> 0]
      /\ closing = FALSE /\ asserted = FALSE
    BY DEF Init, PollerInit
<1>2. Live = {} BY <1>1 DEF Live
<1>3. \A use \in {"closed", "program"} :
          KernelFile(use, FALSE) \in Files /\ KernelFile(use, FALSE).use = use
    BY EmptySeq DEF KernelFile, Files
<1>4. \A fd \in Fds : /\ file[fd] \in Files /\ file[fd].use \in {"closed", "program"}
                      /\ fd = 0 => file[fd].use = "program"
    BY <1>1, <1>3 DEF Shut
<1>5. TypeOK
    <2>1. file \in [Fds -> Files] BY <1>1, <1>4
    <2>2. batch \in Seq(Events) BY <1>1, EmptySeq
    <2> QED BY <2>1, <2>2, <1>1, WebsocketAssumption DEF TypeOK
<1>6. Held
    <2>1. \A fd \in Fds : interest[fd] = NoFile /\ file[fd].use \notin {"listen", "socket"}
        BY <1>1, <1>4
    <2>2. file[0].use = "program" BY <1>4, WebsocketAssumption
    <2> QED BY <1>2, <2>1, <2>2 DEF Held
<1>7. Numbered
    <2>1. \A n \in 1 .. MaxOpen : closed[n] = 0 /\ n > opened BY <1>1
    <2>2. ~ PeerWaits BY <1>4 DEF PeerWaits
    <2> QED BY <1>2, <2>1, <2>2 DEF Numbered
<1>8. Batched BY <1>1 DEF Batched, EventsFindConnection
<1> QED BY <1>1, <1>5, <1>6, <1>7, <1>8, WebsocketAssumption DEF Sound, IInv

\* Every step keeps the invariant, for as long as there was one useless url.
LEMMA NextSound ==
    ASSUME Sound, [Next]_vars
    PROVE  Sound'
<1>1. badUrls' \in 0 .. MaxBadUrls /\ badUrls <= badUrls' /\ badUrls \in Nat
    <2>1. CASE AddFails BY <2>1, WebsocketAssumption DEF AddFails, Sound
    <2>2. CASE UNCHANGED badUrls BY <2>2, WebsocketAssumption DEF Sound
    <2>3. CASE UNCHANGED vars BY <2>2, <2>3 DEF vars
    <2>4. CASE Next /\ ~ AddFails
        BY <2>2, <2>4
        DEF Next, Program, Handlers, ReadReady, ServerWriteReady, ClientWriteReady, ErrorReady, Accept,
            StaleIndex, PollForInput, AddListener, AddConnection, Reap, TxFrame, WebsocketClose,
            Expire, PeerSend, PeerClose, PeerReset, Connected, Drained, PeerConnect, Env
    <2> QED BY <2>1, <2>3, <2>4
<1>2. ASSUME badUrls' <= 1 PROVE IInv'
    <2>1. IInv BY <1>1, <1>2 DEF Sound
    <2>2. CASE UNCHANGED vars
        <3>1. UNCHANGED <<conn, file, opened, badUrls, closed, closing, asserted, interest, batch>>
            BY <2>2 DEF vars, pollerVars
        <3>2. Follows BY <3>1, <2>1, FollowsUnchanged DEF IInv
        <3> QED BY <3>1, <3>2, <2>1, ReturnKeeps
    <2>3. CASE ReadReady BY <2>1, <2>3, ReadReadyKeeps
    <2>4. CASE ServerWriteReady BY <2>1, <2>4, ServerWriteReadyKeeps
    <2>5. CASE ClientWriteReady BY <2>1, <2>5, ClientWriteReadyKeeps
    <2>6. CASE ErrorReady BY <2>1, <2>6, ErrorReadyKeeps
    <2>7. CASE Accept BY <2>1, <2>7, AcceptKeeps
    <2>8. CASE StaleIndex BY <2>1, <2>8, StaleIndexKeeps
    <2>9. CASE PollForInput BY <2>1, <2>9, PollKeeps
    <2>10. CASE AddListener BY <2>1, <2>10, AddListenerKeeps
    <2>11. CASE AddConnection BY <2>1, <2>11, AddConnectionKeeps
    <2>12. CASE AddFails BY <2>1, <2>12, <1>2, AddFailsKeeps
    <2>13. CASE Reap BY <2>1, <2>13, ReapKeeps
    <2>14. CASE \E i \in Live : TxFrame(i) \/ WebsocketClose(i) \/ Expire(i)
        BY <2>1, <2>14, TxFrameKeeps, WebsocketCloseKeeps, ExpireKeeps
    <2>15. CASE \E fd \in Sockets :
                   \/ \E unit \in Units : PeerSend(fd, unit)
                   \/ PeerClose(fd) \/ PeerReset(fd) \/ Connected(fd) \/ Drained(fd)
        BY <2>1, <2>15, PeerSendKeeps, PeerKeeps
    <2>16. CASE \E fd \in Fds : PeerConnect(fd)
        BY <2>1, <2>16, PeerConnectKeeps
    <2> QED BY <2>2, <2>3, <2>4, <2>5, <2>6, <2>7, <2>8, <2>9, <2>10, <2>11, <2>12, <2>13,
               <2>14, <2>15, <2>16 DEF Next, Program, Handlers
<1> QED BY <1>1, <1>2 DEF Sound

\* The inductive invariant holds of every run.
LEMMA AlwaysSound == Spec => []Sound
<1>1. Init => Sound BY InitSound
<1>2. Sound /\ [Next]_vars => Sound' BY NextSound
<1> QED BY <1>1, <1>2, PTL DEF Spec

\* Through accepting, closing, reaping, failures and reuse: the poller knows
\* exactly the live connections, and what each waits for.
THEOREM WebsocketRegistrations == Spec => [](badUrls <= 1 => RegistrationsMatch)
<1>1. ASSUME IInv PROVE RegistrationsMatch
    <2>1. TypeOK /\ Held BY <1>1 DEF IInv
    <2>2. ASSUME NEW fd \in Fds, interest[fd] # NoFile
          PROVE  interest[fd].id \in Live /\ conn[interest[fd].id].fd = fd
        <3>1. \A e \in Fds : interest[e] # NoFile => \E i \in Live : conn[i].fd = e
            BY <2>1 DEF Held
        <3>2. \A i \in Live : interest[conn[i].fd] = File(i, conn[i].type, conn[i].armed)
            BY <2>1 DEF Held
        <3>3. PICK i \in Live : conn[i].fd = fd BY <3>1, <2>2
        <3>4. interest[fd].id = i
            <4>1. interest[fd] = File(i, conn[i].type, conn[i].armed) BY <3>2, <3>3
            <4> QED BY <4>1 DEF File
        <3> QED BY <3>3, <3>4
    <2> QED BY <2>1, <2>2 DEF Held, RegistrationsMatch
<1>2. Sound => (badUrls <= 1 => RegistrationsMatch) BY <1>1 DEF Sound
<1> QED BY <1>2, AlwaysSound, PTL

\* Every event of a batch finds the connection that it was reported for, as
\* long as no callback closes another one.
THEOREM WebsocketEvents == Spec => [](badUrls <= 1 => EventsFindConnection)
<1>1. Sound => (badUrls <= 1 => EventsFindConnection) BY DEF Sound, IInv, Batched
<1> QED BY <1>1, AlwaysSound, PTL

\* Whoever was told of a connection is told exactly once that it closes.
THEOREM WebsocketClosedOnce == Spec => [](badUrls <= 1 => ClosedOnce)
<1>1. ASSUME IInv PROVE ClosedOnce
    <2>1. Numbered /\ closed \in [1 .. MaxOpen -> 0 .. 1] /\ opened \in Nat
        BY <1>1 DEF IInv, TypeOK
    <2> QED BY <2>1 DEF Numbered, ClosedOnce
<1>2. Sound => (badUrls <= 1 => ClosedOnce) BY <1>1 DEF Sound
<1> QED BY <1>2, AlwaysSound, PTL

\* Taking handshakes and frames out of rx_buffer, in whatever pieces they
\* come, loses and repeats nothing that the peer sent.
THEOREM WebsocketStream == Spec => [](badUrls <= 1 => ReceivedInOrder)
<1>1. ASSUME IInv PROVE ReceivedInOrder
    <2>1. \A i \in Live : Fits(conn[i], file[conn[i].fd]) BY <1>1 DEF IInv, Held
    <2> QED BY <2>1 DEF ReceivedInOrder, Fits, Stream, Begins
<1>2. Sound => (badUrls <= 1 => ReceivedInOrder) BY <1>1 DEF Sound
<1> QED BY <1>2, AlwaysSound, PTL

=============================================================================
