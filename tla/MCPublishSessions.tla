------------------------- MODULE MCPublishSessions -------------------------
(***************************************************************************)
(* PublishSessions for TLC: connections are interchangeable, and so are    *)
(* streams while none of them may be deleted.  Used for safety runs only.  *)
(***************************************************************************)
EXTENDS PublishSessions, TLC

ConnSymmetry == Permutations(Conns)
ConnStreamSymmetry == Permutations(Conns) \cup Permutations(Streams)
=============================================================================
