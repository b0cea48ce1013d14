----------------------------- MODULE AtLeastOnce -----------------------------
(***************************************************************************)
(* What a subscription promises the listeners it hands events to, with no  *)
(* positions in $all, no checkpoints and no connection: it hands over the  *)
(* events in the order in which they were stored, and after a failure goes *)
(* on behind any of the events that it has handed over before, or from the *)
(* start.  So every event comes after all earlier ones, none is passed by, *)
(* and those handed over before may come again.                            *)
(*                                                                         *)
(* The events are counted: the n-th that is stored is the n-th in order.   *)
(***************************************************************************)
EXTENDS Naturals

VARIABLES
  stored,   \* how many events there are
  handed,   \* how many of them the subscription is past
  reached   \* how many have been handed over at some time

vars == <<stored, handed, reached>>

Init == stored = 0 /\ handed = 0 /\ reached = 0

\* Writers store events.
Store == stored' \in Nat /\ stored' > stored

\* The next event is handed over, for the first time or once more.
HandOver ==
  /\ handed < stored
  /\ handed' = handed + 1
  /\ reached' = IF handed < reached THEN reached ELSE handed + 1

\* The subscription was dropped, or its process ended, and starts again.
Resume == handed' \in 0..reached /\ reached' = reached

Next ==
  \/ Store /\ UNCHANGED <<handed, reached>>
  \/ (HandOver \/ Resume) /\ UNCHANGED stored

Spec == Init /\ [][Next]_vars
=============================================================================
