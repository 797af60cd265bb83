--------------------------- MODULE MCStreamDeletes ---------------------------
(***************************************************************************)
(* StreamDeletes on two nodes, of which one or both take HTTP requests.    *)
(***************************************************************************)
EXTENDS StreamDeletes, TLC

RequestSymmetry == Permutations(Requests)

\* With several shards nothing holds the look of a prune on a node without
\* requests, so a look that finds the marker, right before the taking, stands
\* for every earlier one.
PruneAtOnce ==
    \A n \in Nodes \ Entry :
       IF "prune" \in taking[n] THEN "prune" \notin taking'[n] ELSE "prune" \in taking'[n] => deleted[n]

\* Nobody reads the effects and drain markers of a node without RTMP
\* clients: states that differ only there are one.
Relevant ==
    <<log, late, applied, sticky, req, made, asked, faults,
      [n \in Viewed |-> <<handled[n], deleted[n], owed[n], taking[n], client[n]>>]>>
=============================================================================
