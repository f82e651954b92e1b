-------------------------------- MODULE MCStreams --------------------------------
(***************************************************************************)
(* Byte streams and event logs on small instances: the buffers of a socket, *)
(* the stream of serialize.h, the event log, and logs that are merged.      *)
(* `which' chooses one for the whole behaviour, and the others stay as they *)
(* begin.                                                                   *)
(***************************************************************************)
EXTENDS Socket, Elog, ElogMerge, Serialize, TLC

VARIABLE which

streamsVars == <<which, vars, elogVars, mergeVars, serializeVars>>

StreamsInit ==
    /\ which \in {"socket", "elog", "merge", "serialize"}
    /\ Init /\ ElogInit /\ MergeInit
    /\ SerializeInit /\ (which = "serialize" \/ stream.kind = "data")

StreamsNext ==
    \/ /\ which = "socket" /\ Next
       /\ UNCHANGED <<which, elogVars, mergeVars, serializeVars>>
    \/ /\ which = "elog" /\ ElogNext
       /\ UNCHANGED <<which, vars, mergeVars, serializeVars>>
    \/ /\ which = "merge" /\ MergeNext
       /\ UNCHANGED <<which, vars, elogVars, serializeVars>>
    \/ /\ which = "serialize" /\ SerializeNext
       /\ UNCHANGED <<which, vars, elogVars, mergeVars>>

StreamsSpec == StreamsInit /\ [][StreamsNext]_streamsVars

-----------------------------------------------------------------------------
(* Properties that are evaluated for their own part only.                    *)

\* MergedInOrder: a merged log has the last events of both, in order, with
\* their types and tracks.
MergedInOrderAlone == which = "merge" => MergedInOrder

\* ItemsReadBack: what was written to a stream is kept and read back.
ItemsReadBackAlone == which = "serialize" => ItemsReadBack

-----------------------------------------------------------------------------
(* Values of constants *)

\* One log begins before the others.
LogStarts == [l \in Logs |-> IF l = "first" THEN 0 ELSE 1]

\* Threads are alike, and so are the formats of types in logs to be merged.
Alike == Permutations(Loggers) \cup Permutations(Formats)
=================================================================================
