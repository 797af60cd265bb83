------------------------ MODULE MCMediaSubscriptions ------------------------
(* Instances of MediaSubscriptions for TLC. *)
EXTENDS MediaSubscriptions

\* What is known to make the owner's count doubtful is not followed further.
BeforeDoubt == Trusted

\* Two breaks and a move, or two moves.
FewUpsets == breaks + 2 * moves <= 4
=============================================================================
