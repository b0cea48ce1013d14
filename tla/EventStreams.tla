---------------------------- MODULE EventStreams ----------------------------
(***************************************************************************)
(* What Vlerx.Es.EventStore asks of an Event Store server and relies on: a *)
(* stream is an append-only sequence of recorded events, each with an      *)
(* `id`.  An append names the number of the last event it expects (-1 when *)
(* the stream should not exist), a read returns a slice and says whether   *)
(* it reached the end.  The server is not part of the repository: these    *)
(* operators are read off the calls that EventStorage.cs makes to it.      *)
(* Events are numbered from 0 by the server and from 1 by a TLA+ sequence. *)
(***************************************************************************)
EXTENDS Integers, Sequences

\* ExpectedVersion.NoStream of the client, and the Version of a new aggregate.
NoStream == -1

LastEventNumber(stream) == Len(stream) - 1

\* An append with this expected version extends the stream.
Accepts(stream, version) == LastEventNumber(stream) = version

\* The events were stored by an earlier transmission of the same append: the
\* server recognises them by their ids and answers as it did the first time.
AlreadyAppended(stream, version, events) ==
  /\ version + 1 + Len(events) <= Len(stream)
  /\ \A i \in 1..Len(events) : stream[version + 1 + i].id = events[i].id

\* The last position (counted from 1) of a slice of count events.
SliceEnd(stream, position, count) ==
  IF position + count < Len(stream) THEN position + count ELSE Len(stream)

ReadForward(stream, position, count) ==
  SubSeq(stream, position + 1, SliceEnd(stream, position, count))

IsEndOfStream(stream, position, count) == position + count >= Len(stream)
=============================================================================
