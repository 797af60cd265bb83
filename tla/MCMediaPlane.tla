---------------------------- MODULE MCMediaPlane ----------------------------
(***************************************************************************)
(* The two ends of a stream's way through a node, asked about in one run.  *)
(* A behaviour belongs to one part, chosen at the start; the variables of  *)
(* the other keep their initial values.                                    *)
(*                                                                         *)
(*   subscribe  MediaSubscriptions: a player and the standby replica of    *)
(*              one stream that share a subscription to its owner;         *)
(*   outputs    MediaOutputs: the sessions of a local publisher's outputs. *)
(***************************************************************************)
EXTENDS MCMediaSubscriptions, TLC

CONSTANTS
    Conns, Streams, Sinks, SinkQueueMax, RetireMax, OverflowMax, Timestamps, TsMod, TsJump,
    MaxSessions, MaxPublishes, MaxFrames, MaxFaults          \* outputs

VARIABLES
    part, publishing, moved, generation, sessionOf, sess, sink, retired, overflow, down, started,
    frames, faults

Outputs == INSTANCE MediaOutputs WITH live <- sessionOf, QueueMax <- SinkQueueMax

\* What the theorems ask of the constants.  No stream and no connection has the
\* name that stands for none.
ASSUME OutputsAssumption ==
    /\ Sinks \in Seq({"record", "hls", "push"}) /\ "none" \notin Streams \cup Conns
    /\ {SinkQueueMax, RetireMax, OverflowMax, MaxSessions, MaxPublishes, MaxFrames, MaxFaults}
           \subseteq Nat
    /\ Timestamps \subseteq Nat /\ TsMod \in Nat \ {0} /\ TsJump \in Nat

outputsPart == <<publishing, moved, generation, sessionOf, sess, sink, retired, overflow, down,
                 started, frames, faults>>
PlaneVars == <<vars, part, outputsPart>>

PlaneInit ==
    /\ part \in {"subscribe", "outputs"}
    /\ Init /\ (part = "outputs" => addr)
    /\ Outputs!Init

SubscribeStep == part = "subscribe" /\ Next /\ UNCHANGED outputsPart
OutputsStep == part = "outputs" /\ Outputs!Next /\ UNCHANGED vars
PlaneNext == UNCHANGED part /\ (SubscribeStep \/ OutputsStep)

PlaneSpec == PlaneInit /\ [][PlaneNext]_PlaneVars

(***************************************************************************)
(* An output ends completely: publish_done announces outputs whose workers *)
(* have ended with every tag written, a session is in one pair of hands at *)
(* a time, and one that is out of all hands leaves no child process        *)
(* running (media_output.rs retire, teardown_hooks, stop_with_deadline).   *)
(***************************************************************************)
OutputsFinish ==
    /\ Outputs!TypeOK /\ Outputs!HeldOnce
    /\ Outputs!DoneAfterOutputs /\ Outputs!NoLeakedChild

(***************************************************************************)
(* Publish sessions do not disturb each other: no output gets the tags of  *)
(* two, and the directory of a live one is not removed by the end of an    *)
(* older one (media_output.rs ensure_publisher, clean_older_hls_sessions).  *)
(***************************************************************************)
OutputsApart == Outputs!PublishesApart /\ Outputs!LiveDirKept

-----------------------------------------------------------------------------
(* The values for TLC: one output, which has a child and a directory.      *)
OneSink == <<"hls">>
StreamSymmetry == Permutations(Streams)
=============================================================================
