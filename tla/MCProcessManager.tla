-------------------------- MODULE MCProcessManager --------------------------
(* Values for the constants of ProcessManager. *)
EXTENDS ProcessManager

CONSTANTS ordered, paid, shipped, returned

\* An order tells one command; a payment one that has a story and then one that
\* has none; a return two, for the parcels that replace what was returned.
\* Nothing reacts to a shipment.
Commands ==
  [kind \in {ordered, paid, returned} |->
     CASE kind = ordered  -> <<paid>>
       [] kind = paid     -> <<shipped, ordered>>
       [] kind = returned -> <<shipped, shipped>>]
=============================================================================
