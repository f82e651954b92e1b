--------------------------------- MODULE Socket ---------------------------------
(***************************************************************************)
(* The buffered stream socket of uclib/socket.h and uclib/socket.c: what   *)
(* is added for transmission waits in the current buffer, then in a fifo   *)
(* of buffers, until writev takes it; what read delivers waits in          *)
(* rx_buffer until the caller consumes it.                                 *)
(*                                                                         *)
(* A byte is a number: its place in the stream its writer produced.  The   *)
(* fifo of buffers is the abstract queue that module Fifo implements.      *)
(***************************************************************************)
EXTENDS Integers, Sequences, SequencesExt

CONSTANTS MaxTx,        \* bound: bytes added for transmission per connection
          MaxRx,        \* bound: bytes the peer sends per connection
          MaxAdd,       \* bound: bytes added, written or read at a time
          IovMax,       \* the most buffers one writev takes (external)
          WordSize      \* 2^64: n_left is an unsigned word

ASSUME SocketAssumption ==
    /\ MaxTx \in Nat \ {0} /\ MaxRx \in Nat \ {0}
    /\ MaxAdd \in Nat \ {0}
    /\ IovMax \in Nat \ {0}
    /\ WordSize \in Nat /\ WordSize > 2 * MaxTx

VARIABLES
    current,    \* current_tx_buffer
    fifo,       \* tx_buffer_fifo: [bytes, offset] for each buffer
    rxBuffer,   \* rx_buffer
    endOfFile,  \* rx_end_of_file
    asserted,   \* an ASSERT failed (a debug build stops here)
    added,      \* history: bytes the caller has added
    joined,     \* history: bytes in the order they joined the fifo
    wire,       \* history: what writev took, in order
    resumed,    \* history: a write has completed a buffer partly sent before
    peerSent,   \* external: bytes the peer has sent
    peerClosed, \* external: the peer has closed its side
    arrived,    \* history: bytes read has delivered
    consumed,   \* history: what the caller took out of rx_buffer
    readFailed  \* history: a read has failed for good

txVars   == <<current, fifo, asserted, added, joined, wire, resumed>>
rxVars   == <<rxBuffer, endOfFile, arrived, consumed, readFailed>>
peerVars == <<peerSent, peerClosed>>
vars     == <<current, fifo, rxBuffer, endOfFile, asserted, added, joined, wire,
              resumed, peerSent, peerClosed, arrived, consumed, readFailed>>

\* What an element of rx_buffer holds that no read has filled.
Garbage == 0

Buffer(bytes, offset) == [bytes |-> bytes, offset |-> offset]

\* The k bytes that follow byte n in a stream.
Following(n, k) == [i \in 1 .. k |-> n + i]

Init ==
    /\ current = <<>> /\ fifo = <<>>
    /\ rxBuffer = <<>> /\ endOfFile = FALSE
    /\ asserted = FALSE
    /\ added = 0 /\ joined = <<>> /\ wire = <<>> /\ resumed = FALSE
    /\ peerSent = 0 /\ peerClosed = FALSE
    /\ arrived = 0 /\ consumed = <<>> /\ readFailed = FALSE

-----------------------------------------------------------------------------
(* Wrong versions of the helpers below, for mutation checks of the           *)
(* properties: none is used by the specification.                            *)

NeverFreed(s) == TRUE
GatheredAhead == IF current = <<>> THEN fifo ELSE <<Buffer(current, 0)>> \o fifo
NotShortened(buf, k) == buf

-----------------------------------------------------------------------------
(* Helpers *)

\* What of a buffer is still to be sent: an iovec of clib_socket_tx.
Unsent(b) == SubSeq(b.bytes, b.offset + 1, Len(b.bytes))
Iovecs(bufs) == [i \in 1 .. Len(bufs) |-> Unsent(bufs[i])]

\* The bytes of all buffers still to be sent, in order.
Pending(bufs) == FlattenSeq(Iovecs(bufs))

\* The fifo after current_tx_buffer, if any, was added to its tail.
Gathered == IF current = <<>> THEN fifo ELSE Append(fifo, Buffer(current, 0))

\* How many bytes writev may take.
WriteSizes(bufs) ==
    IF Len(bufs) > IovMax THEN {} ELSE 1 .. Len(Pending(bufs))

\* Unsigned subtraction.
Minus(a, b) == (a - b) % WordSize

\* n_left after a buffer has been sent to its end.
LeftAfter(left, b) == Minus(left, Len(b.bytes))

\* Unsigned addition.
Plus(a, b) == (a + b) % WordSize

\* One round of the loop that reclaims n_left transmitted bytes: either the
\* head buffer is kept and its offset moved, or it is freed.
Kept(s) == Plus(Head(s.bufs).offset, s.left) < Len(Head(s.bufs).bytes)
Reclaim(s) ==
    LET b == Head(s.bufs)
    IN  IF Kept(s)
        THEN [left |-> 0, bufs |-> <<Buffer(b.bytes, Plus(b.offset, s.left))>> \o Tail(s.bufs)]
        ELSE [left |-> LeftAfter(s.left, b), bufs |-> Tail(s.bufs)]

\* The loop: at most one round for each buffer.
Reclaimed(bufs, written) ==
    LET round[i \in 0 .. Len(bufs)] ==
            IF i = 0 THEN [left |-> written, bufs |-> bufs]
            ELSE IF round[i - 1].left = 0 THEN round[i - 1]
            ELSE Reclaim(round[i - 1])
    IN  round[Len(bufs)]

\* rx_buffer when it was lengthened by MaxAdd bytes, n_bytes in the code, and
\* read has filled the first k of them.
Lengthened(k) ==
    rxBuffer \o Following(arrived, k) \o [i \in 1 .. MaxAdd - k |-> Garbage]

\* The correction of the length when read returned k.
Shortened(buf, k) == SubSeq(buf, 1, Len(buf) + k - MaxAdd)

-----------------------------------------------------------------------------
(* Transmit *)

\* clib_socket_tx_add2_with_offset and the calls built on it.
TxAdd(k) ==
    /\ added + k <= MaxTx
    /\ current' = current \o Following(added, k)
    /\ added' = added + k
    /\ UNCHANGED <<fifo, asserted, joined, wire, resumed, rxVars, peerVars>>

\* clib_socket_tx_add_to_buffer_fifo: a buffer of its own, ahead of current.
TxAddToBufferFifo(k) ==
    /\ added + k <= MaxTx
    /\ fifo' = Append(fifo, Buffer(Following(added, k), 0))
    /\ joined' = joined \o Following(added, k)
    /\ added' = added + k
    /\ UNCHANGED <<current, asserted, wire, resumed, rxVars, peerVars>>

\* clib_socket_tx when writev takes n bytes.
TxWritten(n) ==
    /\ n \in WriteSizes(Gathered)
    /\ LET r == Reclaimed(Gathered, n)
       IN  /\ fifo' = r.bufs
           /\ asserted' = (r.left # 0)
    /\ LET b == Head(Gathered)
       IN  resumed' = (resumed \/ (b.offset > 0 /\ n >= Len(Unsent(b))))
    /\ wire' = wire \o SubSeq(Pending(Gathered), 1, n)
    /\ joined' = joined \o current
    /\ current' = <<>>
    /\ UNCHANGED <<added, rxVars, peerVars>>

\* clib_socket_tx when writev takes nothing: nothing to send, EWOULDBLOCK,
\* EINTR, or an error that is returned.
TxNothingWritten ==
    /\ fifo' = Gathered
    /\ joined' = joined \o current
    /\ current' = <<>>
    /\ UNCHANGED <<asserted, added, wire, resumed, rxVars, peerVars>>

-----------------------------------------------------------------------------
(* Receive *)

\* clib_socket_rx when read delivers k bytes.
RxRead(k) ==
    /\ ~ endOfFile
    /\ arrived + k <= peerSent
    /\ rxBuffer' = Shortened(Lengthened(k), k)
    /\ arrived' = arrived + k
    /\ UNCHANGED <<endOfFile, consumed, readFailed, txVars, peerVars>>

\* clib_socket_rx when read returns 0.
RxEndOfFile ==
    /\ ~ endOfFile
    /\ peerClosed /\ arrived = peerSent
    /\ endOfFile' = TRUE
    /\ rxBuffer' = Shortened(Lengthened(0), 0)
    /\ UNCHANGED <<arrived, consumed, readFailed, txVars, peerVars>>

\* clib_socket_rx when read fails with EWOULDBLOCK or EINTR.
RxNothingRead ==
    /\ ~ endOfFile
    /\ rxBuffer' = Shortened(Lengthened(0), 0)
    /\ UNCHANGED <<endOfFile, arrived, consumed, readFailed, txVars, peerVars>>

\* clib_socket_rx when read fails otherwise: it returns before rx_buffer is
\* shortened (bound: once per connection).
RxFailed ==
    /\ ~ endOfFile /\ ~ readFailed
    /\ rxBuffer' = Lengthened(0)
    /\ readFailed' = TRUE
    /\ UNCHANGED <<endOfFile, arrived, consumed, txVars, peerVars>>

\* The caller takes k bytes (vec_delete, vec_reset_length).
RxConsume(k) ==
    /\ k <= Len(rxBuffer)
    /\ consumed' = consumed \o SubSeq(rxBuffer, 1, k)
    /\ rxBuffer' = SubSeq(rxBuffer, k + 1, Len(rxBuffer))
    /\ UNCHANGED <<endOfFile, arrived, readFailed, txVars, peerVars>>

-----------------------------------------------------------------------------
(* The peer, and the end of the connection *)

PeerSend(k) ==
    /\ ~ peerClosed
    /\ peerSent + k <= MaxRx
    /\ peerSent' = peerSent + k
    /\ UNCHANGED <<peerClosed, txVars, rxVars>>

PeerClose ==
    /\ ~ peerClosed
    /\ peerClosed' = TRUE
    /\ UNCHANGED <<peerSent, txVars, rxVars>>

\* clib_socket_close and clib_socket_free; the memory then serves a new
\* connection.
CloseAndFree ==
    /\ current' = <<>> /\ fifo' = <<>>
    /\ rxBuffer' = <<>> /\ endOfFile' = FALSE
    /\ added' = 0 /\ joined' = <<>> /\ wire' = <<>> /\ resumed' = FALSE
    /\ peerSent' = 0 /\ peerClosed' = FALSE
    /\ arrived' = 0 /\ consumed' = <<>> /\ readFailed' = FALSE
    /\ UNCHANGED asserted

Tx == TxNothingWritten \/ \E n \in 1 .. MaxTx : TxWritten(n)
Rx == RxNothingRead \/ RxEndOfFile \/ RxFailed \/ \E k \in 1 .. MaxAdd : RxRead(k)

Next ==
    /\ ~ asserted
    /\ \/ \E k \in 1 .. MaxAdd :
             TxAdd(k) \/ TxAddToBufferFifo(k) \/ RxConsume(k) \/ PeerSend(k)
       \/ Tx
       \/ Rx
       \/ PeerClose
       \/ CloseAndFree

Spec == Init /\ [][Next]_vars

-----------------------------------------------------------------------------
(* Properties *)

TxBytes == 1 .. MaxTx
RxBytes == 1 .. MaxRx

TypeOK ==
    /\ current \in Seq(TxBytes)
    /\ \A i \in DOMAIN fifo : fifo[i] = Buffer(fifo[i].bytes, fifo[i].offset)
                           /\ fifo[i].bytes \in Seq(TxBytes)
                           /\ fifo[i].offset \in Nat
    /\ rxBuffer \in Seq(RxBytes \cup {Garbage})
    /\ {endOfFile, asserted, peerClosed, resumed, readFailed} \subseteq BOOLEAN
    /\ added \in 0 .. MaxTx /\ joined \in Seq(TxBytes) /\ wire \in Seq(TxBytes)
    /\ peerSent \in 0 .. MaxRx /\ arrived \in 0 .. MaxRx
    /\ consumed \in Seq(RxBytes \cup {Garbage})

\* What writev took and what still waits are together every byte that ever
\* joined the fifo, once and in order: clib_socket_tx reclaims exactly the
\* transmitted part, whatever the sizes of the buffers and of the writes.
StreamInOrder == wire \o Pending(fifo) = joined

\* Only the buffer at the head of the fifo can be partly sent, and never
\* wholly: the assertion that clib_socket_tx makes of the head's offset.
PartlySentIsHead ==
    \A i \in DOMAIN fifo :
        fifo[i].offset < (IF i = 1 THEN Len(fifo[i].bytes) ELSE 1)

\* The stream of the code as it is: in order until a write completes a buffer
\* that was partly sent before, however many writes stopped inside a buffer,
\* and partly sent at its head alone at all times; and every value in its type.
StreamUntilResumed == TypeOK /\ (resumed \/ StreamInOrder) /\ PartlySentIsHead

\* rx_buffer, after what the caller took from it, holds what read delivered
\* and nothing else, through EWOULDBLOCK, errors and the end of the file.
RxIsStream == consumed \o rxBuffer = Following(0, arrived)

\* The same of the code as it is: until a read fails for good.
RxStreamUntilFailure == readFailed \/ RxIsStream

=============================================================================
