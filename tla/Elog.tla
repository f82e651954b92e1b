---------------------------------- MODULE Elog ----------------------------------
(***************************************************************************)
(* The event log of uclib/elog.h and uclib/elog.c, used by several threads: *)
(* a ring of events whose places are given out by one atomic counter, event *)
(* types and tracks that register themselves when they are first used, and  *)
(* a limit for the counter at which logging stops.                          *)
(***************************************************************************)
EXTENDS Naturals, Integers, Sequences, SequencesExt, FiniteSets

CONSTANTS Loggers,          \* threads
          Types, Tracks,    \* static elog_event_type_t's and elog_track_t's, no one of them both
          RingSize,         \* max_pow2 of what elog_init was asked for
          CounterWords,     \* 2 ^ 32: what n_total_events counts up to
          MaxLogged,        \* bound: events ever given a place
          MaxCalls          \* bound: calls that switch the log, signal a trigger or read

Free == "free"              \* no thread, as the holder of smp_lock

ASSUME ElogAssumption ==
    /\ IsFiniteSet(Loggers) /\ Free \notin Loggers
    /\ Types # {} /\ Tracks # {} /\ Types \cap Tracks = {}
    /\ RingSize \in Nat \ {0} /\ CounterWords \in Nat \ {0} /\ MaxLogged \in Nat
    /\ MaxCalls \in Nat
    /\ CounterWords % RingSize = 0

VARIABLES
    elog,       \* elog_main_t: total, limit, ring, types, tracks, holder of smp_lock
    index,      \* type_index_plus_one and track_index_plus_one
    logger,     \* per thread: where it is in a function of the log and its locals
    reader,     \* where elog_peek_events is, and the half of an event copied last
    given,      \* history: the number of events given a place, and the last one for each
    overtaken,  \* history: places written for an older event after a newer one
    calls,      \* how many calls were made that MaxCalls bounds
    trigger     \* history: the event to keep, how many may follow, and how many did
                \* before the limit was written

elogVars == <<elog, index, logger, reader, given, overtaken, calls, trigger>>

Places    == 0 .. RingSize - 1
Never     == CounterWords - 1       \* ~0
NoEvent   == [id |-> 0, type |-> 0, track |-> 0, data |-> 0]
NoTrigger == [id |-> 0, n |-> 0, before |-> 0]

Idle == [pc |-> "idle", vec |-> "types", type |-> CHOOSE x \in Types : TRUE,
         track |-> CHOOSE x \in Tracks : TRUE, index |-> [types |-> 0, tracks |-> 0],
         place |-> 0, id |-> 0, limit |-> 0, n |-> 0]

\* No event is being read.
NoReading == [n |-> 0, first |-> 0, halves |-> 0, got |-> 0, sure |-> FALSE,
              began |-> [n |-> 0, last |-> [p \in Places |-> 0]]]

\* elog_init
ElogInit ==
    /\ elog = [total |-> 0, limit |-> Never, ring |-> [p \in Places |-> NoEvent],
               vec |-> [types |-> <<>>, tracks |-> <<"default">>], holder |-> Free]
    /\ index = [s \in Types \cup Tracks |-> 0]
    /\ logger = [t \in Loggers |-> Idle] /\ reader = NoReading
    /\ given = [n |-> 0, last |-> [p \in Places |-> 0]]
    /\ overtaken = {} /\ calls = 0 /\ trigger = NoTrigger

At(t, pc) == logger[t].pc = pc
Goto(t, pc) == logger' = [logger EXCEPT ![t].pc = pc]

\* Wrong versions of definitions below, for mutation checks only.
EnabledUpTo == elog.total <= elog.limit
OldestIsNext == elog.total % RingSize

\* elog_is_enabled
Enabled == elog.total < elog.limit

\* What has no index is registered, types first.
Continued(l, read) ==
    IF read.types = 0 THEN [l EXCEPT !.index = read, !.pc = "register", !.vec = "types"]
    ELSE IF read.tracks = 0 THEN [l EXCEPT !.index = read, !.pc = "register", !.vec = "tracks"]
    ELSE [Idle EXCEPT !.index = read, !.pc = "add"]

\* elog_event_data_inline: a disabled log gives the caller the dummy event;
\* otherwise the two indices are read, in one step with the limit.
Check(t) ==
    \E type \in Types, track \in Tracks :
        /\ At(t, "idle") /\ Enabled
        /\ logger' = [logger EXCEPT ![t] =
               Continued([@ EXCEPT !.type = type, !.track = track],
                         [types |-> index[type], tracks |-> index[track]])]
        /\ UNCHANGED <<elog, index, reader, given, overtaken, calls, trigger>>

\* clib_smp_lock
LockFree(t) == elog.holder = Free

\* elog_event_type_register and elog_track_register up to where other threads
\* see the index.
Static(l) == IF l.vec = "types" THEN l.type ELSE l.track
Register(t) ==
    /\ At(t, "register") /\ LockFree(t)
    /\ index' = [index EXCEPT ![Static(logger[t])] = Len(elog.vec[logger[t].vec]) + 1]
    /\ elog' = [elog EXCEPT !.holder = t]
    /\ Goto(t, "copy")
    /\ UNCHANGED <<reader, given, overtaken, calls, trigger>>

\* The copy of it at the end of its vector, and clib_smp_unlock.
Registered(t) ==
    LET l   == logger[t]
        new == Append(elog.vec[l.vec], Static(l))
    IN  /\ At(t, "copy")
        /\ elog' = [elog EXCEPT !.vec[l.vec] = new, !.holder = Free]
        /\ logger' = [logger EXCEPT ![t] = Continued(@, [l.index EXCEPT ![l.vec] = Len(new)])]
        /\ UNCHANGED <<index, reader, given, overtaken, calls, trigger>>

\* clib_smp_atomic_add gives the event its place.
AddEvent(t) ==
    LET place == elog.total % RingSize
    IN  /\ At(t, "add") /\ given.n < MaxLogged
        /\ elog' = [elog EXCEPT !.total = (@ + 1) % CounterWords]
        /\ given' = [n |-> given.n + 1, last |-> [given.last EXCEPT ![place] = given.n + 1]]
        /\ logger' = [logger EXCEPT ![t] =
                          [@ EXCEPT !.pc = "write", !.place = place, !.id = given.n + 1]]
        /\ UNCHANGED <<index, reader, overtaken, calls, trigger>>

\* What is written for an event that is not the place's last leaves a mixture.
Overtaken(t) ==
    IF given.last[logger[t].place] # logger[t].id
    THEN overtaken \cup {logger[t].place} ELSE overtaken \ {logger[t].place}

\* The event's header.
Write(t) ==
    /\ At(t, "write") /\ overtaken' = Overtaken(t)
    /\ logger' = [logger EXCEPT ![t] = [@ EXCEPT !.pc = "data", !.index = Idle.index]]
    /\ elog' = [elog EXCEPT !.ring[logger[t].place] =
                    [@ EXCEPT !.id = logger[t].id, !.type = logger[t].index.types,
                              !.track = logger[t].index.tracks]]
    /\ UNCHANGED <<index, reader, given, calls, trigger>>

\* The caller writes its data, as in elog and elog_inline.
Data(t) ==
    /\ At(t, "data") /\ logger' = [logger EXCEPT ![t] = Idle]
    /\ overtaken' = (overtaken \cup (Overtaken(t) \cap {logger[t].place}))
    /\ elog' = [elog EXCEPT !.ring[logger[t].place].data = logger[t].id]
    /\ UNCHANGED <<index, reader, given, calls, trigger>>

Called == calls < MaxCalls /\ calls' = calls + 1

\* elog_enable_disable, and elog_reset_buffer, which is the same as to enable:
\* the counter first.
Switch(t) ==
    /\ At(t, "idle") /\ Called
    /\ elog' = [elog EXCEPT !.total = 0] /\ trigger' = NoTrigger
    /\ \E limit \in {Never, 0} :
           logger' = [logger EXCEPT ![t] = [Idle EXCEPT !.pc = "limit", !.limit = limit]]
    /\ UNCHANGED <<index, reader, given, overtaken>>

\* elog_disable_after_events, and elog_disable_trigger for half the ring: the
\* counter is read.  The event whose context is to be kept is the last one then.
DisableAfter(t, n) ==
    /\ At(t, "idle") /\ Called
    /\ logger' = [logger EXCEPT ![t] =
           [Idle EXCEPT !.pc = "limit", !.limit = (elog.total + n) % CounterWords, !.n = n,
                        !.id = IF elog.total = 0 THEN 0
                               ELSE given.last[(elog.total - 1) % RingSize]]]
    /\ UNCHANGED <<elog, index, reader, given, overtaken, trigger>>

\* A log that was emptied since has nothing to keep.
ToKeep(l) ==
    IF l.id # 0 /\ given.n - l.id < elog.total
    THEN [id |-> l.id, n |-> l.n, before |-> given.n - l.id] ELSE NoTrigger

\* The second access of these functions.
SetLimit(t) ==
    /\ At(t, "limit") /\ elog' = [elog EXCEPT !.limit = logger[t].limit]
    /\ trigger' = ToKeep(logger[t])
    /\ logger' = [logger EXCEPT ![t] = Idle]
    /\ UNCHANGED <<index, reader, given, overtaken, calls>>

-----------------------------------------------------------------------------
(* Reading *)

\* elog_event_range
InBuffer == IF elog.total <= RingSize THEN elog.total ELSE RingSize
Oldest   == IF elog.total <= RingSize THEN 0 ELSE elog.total % RingSize

\* elog_peek_events reads the counter once,
Peek ==
    /\ reader = NoReading /\ InBuffer > 0 /\ Called
    /\ reader' = [NoReading EXCEPT !.n = InBuffer, !.first = Oldest, !.began = given]
    /\ UNCHANGED <<elog, index, logger, given, overtaken, trigger>>

Busy(p) == \E t \in Loggers : logger[t].pc \in {"write", "data"} /\ logger[t].place = p

\* and copies event after event, while others go on: the header, then the data.
\* A half is the one of the event that had the place when the reading began,
\* unless the place was given away since or somebody is still writing there.
CopyHalf ==
    LET p == (reader.first + (reader.halves \div 2)) % RingSize
        e == elog.ring[p]
    IN  /\ reader.halves < 2 * reader.n
        /\ reader' = [reader EXCEPT
               !.halves = @ + 1,
               !.got = IF reader.halves % 2 = 0 THEN e.id ELSE e.data,
               !.sure = given.last[p] = reader.began.last[p] /\ ~Busy(p) /\ p \notin overtaken]
        /\ UNCHANGED <<elog, index, logger, given, overtaken, calls, trigger>>

Peeked ==
    /\ reader # NoReading /\ reader.halves = 2 * reader.n
    /\ reader' = NoReading /\ UNCHANGED <<elog, index, logger, given, overtaken, calls, trigger>>

-----------------------------------------------------------------------------

ElogNext ==
    \/ \E t \in Loggers :
           \/ Check(t) \/ Register(t) \/ Registered(t)
           \/ AddEvent(t) \/ Write(t) \/ Data(t)
           \/ Switch(t) \/ (\E n \in 0 .. RingSize : DisableAfter(t, n)) \/ SetLimit(t)
    \/ Peek \/ CopyHalf \/ Peeked

ElogSpec == ElogInit /\ [][ElogNext]_elogVars

-----------------------------------------------------------------------------
(* Properties *)

\* However many threads register what, the index an event carries names its type
\* and its track, though a type may be there twice.
IndicesNameTypes ==
    LET Named(vec, s) == index[s] = 0 \/ elog.holder # Free \/ elog.vec[vec][index[s]] = s
    IN  (\A s \in Types : Named("types", s)) /\ (\A s \in Tracks : Named("tracks", s))

\* What is read is the last events as they were when the reading began, as many
\* as the ring has, in the order in which they were given their places, each of
\* them as one thread wrote it, header and data, with no event twice and none
\* left out between; and its indices name its type and track.  That is only so
\* of the halves copied before their place was given to a newer event and while
\* nobody was writing there, or had written late, for an event of a turn before:
\* others may be of a newer event, or be a mixture.
ReadsLastEvents ==
    /\ IndicesNameTypes
    /\ reader.halves > 0 /\ reader.sure =>
           /\ reader.got = reader.began.n - reader.n + ((reader.halves + 1) \div 2)
           /\ reader.got > 0

Larger(m, n) == IF m > n THEN m ELSE n

\* "the event will not be lost as long as N < RING_SIZE" (elog.h:150): true when
\* N and the other threads, each of which may have found the log enabled before,
\* together are fewer, and so are the other threads and the events given places
\* while the caller was between reading the counter and writing the limit; and
\* as long as the counter does not begin again at 0.
TriggerEventKept ==
    trigger.id # 0 /\ Larger(trigger.n, trigger.before) + Cardinality(Loggers) - 1 < RingSize =>
        \E p \in Places : given.last[p] = trigger.id

=============================================================================
