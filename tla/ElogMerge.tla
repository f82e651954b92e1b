------------------------------- MODULE ElogMerge -------------------------------
(***************************************************************************)
(* elog_merge of uclib/elog.c: the events of one log are added to those of  *)
(* another that began at another time.  A log has its events twice: in its  *)
(* ring, with the time of the clock, and, once somebody asked for them, in  *)
(* a vector that stays, with times since the log began.                     *)
(*                                                                         *)
(* Here each log is written by one thread, one event after the other: a     *)
(* ring is the sequence of the events it has, oldest first, and its size.   *)
(* Module Elog has several threads, and the places of a ring.               *)
(***************************************************************************)
EXTENDS Integers, Sequences, SequencesExt, FiniteSets

CONSTANTS Logs,         \* elog_main_t's
          Formats,      \* of the event types that a log's callers have
          Start,        \* time at which each log begins
          FirstSize,    \* of the rings: max_pow2 of what elog_init was asked for
          MaxTime       \* bound: when the last event is logged

ASSUME ElogMergeAssumption ==
    Start \in [Logs -> Nat] /\ FirstSize \in Nat \ {0} /\ MaxTime \in Nat

VARIABLES
    logs,       \* per log: init_time, whether serialize_time is set, the ring and its size,
                \* events, types, tracks
    seen,       \* type_index_plus_one of the static types, per log
    clock,      \* the time
    said,       \* history: the format of the event logged at each time, and its log
    holds,      \* history: the times of the events that each log was given, or had after a merge
    doubtful    \* history: logs merged in a way that the code gets wrong

mergeVars == <<logs, seen, clock, said, holds, doubtful>>

Default == <<"default">>    \* the name of track 0; tags come before it

MergeInit ==
    /\ logs = [l \in Logs |-> [init |-> Start[l], saved |-> FALSE, ring |-> <<>>, size |-> FirstSize,
                                events |-> <<>>, types |-> <<>>, tracks |-> <<Default>>]]
    /\ seen = [l \in Logs |-> [f \in Formats |-> 0]]
    /\ clock = 1 + Max({Start[l] : l \in Logs})
    /\ said = <<>> /\ holds = [l \in Logs |-> {}] /\ doubtful = {}

\* max_pow2
MaxPow2(n) == Min({p \in {2 ^ k : k \in 0 .. n} : p >= n})

\* A ring that is full loses its oldest event.
Added(log, e) == IF Len(log.ring) < log.size THEN Append(log.ring, e) ELSE Append(Tail(log.ring), e)

\* elog_event_data, which registers a type that was not seen yet.
LogEvent(l, f) ==
    LET log   == logs[l]
        index == IF seen[l][f] = 0 THEN Len(log.types) + 1 ELSE seen[l][f]
    IN  /\ clock < MaxTime /\ clock' = clock + 1
        /\ seen' = [seen EXCEPT ![l][f] = index]
        /\ logs' = [logs EXCEPT
               ![l].types = IF seen[l][f] = 0 THEN Append(@, f) ELSE @,
               ![l].ring = Added(log, [time |-> clock, type |-> index, track |-> 1, id |-> clock])]
        /\ said' = Append(said, [at |-> clock, format |-> f, log |-> l])
        /\ holds' = [holds EXCEPT ![l] = @ \cup {clock}]
        /\ UNCHANGED doubtful

\* elog_peek_events: times since the log began.
SinceStart(log) ==
    [j \in DOMAIN log.ring |-> [log.ring[j] EXCEPT !.time = @ - log.init]]

\* elog_get_events: what was read once is not read again.
EventsOf(log) == IF log.events = <<>> THEN SinceStart(log) ELSE log.events

GetEvents(l) ==
    /\ logs' = [logs EXCEPT ![l].events = EventsOf(logs[l])] /\ logs' # logs
    /\ UNCHANGED <<seen, clock, said, holds, doubtful>>

\* serialize_elog_main: the events are read anew, and serialize_time is set.
Save(l) ==
    /\ logs' = [logs EXCEPT ![l].events = SinceStart(logs[l]), ![l].saved = TRUE]
    /\ logs' # logs
    /\ UNCHANGED <<seen, clock, said, holds, doubtful>>

\* find_or_create_type, for the types of src's events in their order; the
\* newest of the types with one format is found.
TypesWith(types, src, events) ==
    FoldLeft(LAMBDA ts, e : IF src[e.type] \in ToSet(ts) THEN ts ELSE Append(ts, src[e.type]),
             types, events)
TypeIndex(types, f) ==
    CHOOSE j \in DOMAIN types : types[j] = f /\ \A k \in j + 1 .. Len(types) : types[k] # f

\* elog_time_stamp_diff_os_nsec; a dst that was never saved takes over the
\* time at which src began.
InitTime(dst, src) == IF dst.saved THEN dst.init ELSE src.init

\* Tracks are named after their log, by the tag that it is given.
Tagged(tracks, tag) == [j \in DOMAIN tracks |-> tag \o tracks[j]]

\* A wrong version of the next definition, for a mutation check only: the
\* tracks of src's events are looked for where dst's are.
TrackAsInSource(e, dst) == e.track

\* src's tracks come after dst's.
RemappedTrack(e, dst) == e.track + Len(dst.tracks)

Earlier(d, e) == d.time <= e.time

\* elog_merge, and elog_alloc for as many events as there are: times become
\* those since the earlier start, but if that is src's, it is dst's events that
\* are moved, and to an earlier time.
Merged(dst, src, dstTag, srcTag) ==
    LET own   == EventsOf(dst)
        added == EventsOf(src)
        types == TypesWith(dst.types, src.types, added)
        init  == InitTime(dst, src)
        dt    == src.init - init
        later(es, by) == [j \in DOMAIN es |-> [es[j] EXCEPT !.time = @ + by]]
        mapped == [j \in DOMAIN added |->
                      [added[j] EXCEPT !.type = TypeIndex(types, src.types[@]),
                                       !.track = RemappedTrack(added[j], dst)]]
        all   == SortSeq(IF dt > 0 THEN own \o later(mapped, dt) ELSE later(own, dt) \o mapped, Earlier)
    IN  [init   |-> init,
         saved  |-> dst.saved \/ src.saved,
         types  |-> types,
         tracks |-> Tagged(dst.tracks, dstTag) \o Tagged(src.tracks, srcTag),
         events |-> all,
         ring   |-> later(all, init),
         size   |-> MaxPow2(Len(all))]

\* What elog_merge gets wrong: a vector of events read before others were
\* logged; a time of dst's start that is overwritten; an src that began first.
Stale(log) == EventsOf(log) # SinceStart(log)
Misdated(dst, src) ==
    \/ dst.saved /\ src.init < dst.init
    \/ ~dst.saved /\ src.init # dst.init /\ dst.ring # <<>>

\* The times of the last events that log l was given, in order, as many as its
\* ring has places.
Newest(l) ==
    LET times == SetToSortSeq(holds[l], <)
        n     == Min({Len(times), logs[l].size})
    IN  SubSeq(times, Len(times) - n + 1, Len(times))

\* elog_merge.  Bound: what is merged has events, none of which dst was given
\* before; without any it only adds tracks, and could be merged for ever.
Merge(d, s) ==
    /\ d # s /\ logs[s].ring # <<>>
    /\ holds[d] \cap holds[s] = {}
    /\ logs' = [logs EXCEPT ![d] = Merged(logs[d], logs[s], <<d>>, <<s>>),
                            ![s].events = EventsOf(logs[s])]
    /\ holds' = [holds EXCEPT ![d] = ToSet(Newest(d)) \cup ToSet(Newest(s))]
    /\ doubtful' = doubtful \cup
           (IF Stale(logs[d]) \/ Stale(logs[s]) \/ Misdated(logs[d], logs[s])
            THEN {d} ELSE {})
    /\ UNCHANGED <<seen, clock, said>>

\* A log that a merge spoilt is left alone: a bound.
MergeNext ==
    \E l \in Logs \ doubtful :
        \/ \E f \in Formats : LogEvent(l, f)
        \/ GetEvents(l)
        \/ Save(l)
        \/ \E s \in Logs \ doubtful : Merge(l, s)

MergeSpec == MergeInit /\ [][MergeNext]_mergeVars

\* The log that a track of log l was made for.
Origin(l, name) == IF name = Default THEN l ELSE name[Len(name) - 1]

\* However logs are merged, and go on to be written: a merge loses no event of
\* either, and a log has the last of the events that it was given or had after
\* its last merge, as many as its ring has places, in the order of their times,
\* each with its own time, with the format it was logged with and a track of its
\* own log, not the one of the same name in another.  Not so after a merge from a
\* log that began first or with events read too early, which lose or misdate
\* events.  (A ring that has as many places as events after a merge loses the
\* oldest with the next one logged.)
MergedInOrder ==
    \A l \in Logs \ doubtful :
        /\ [j \in DOMAIN logs[l].ring |-> logs[l].ring[j].id] = Newest(l)
        /\ \A e \in ToSet(logs[l].ring), x \in ToSet(said) : e.id = x.at =>
               /\ e.time = x.at /\ logs[l].types[e.type] = x.format
               /\ Origin(l, logs[l].tracks[e.track]) = x.log

=============================================================================
