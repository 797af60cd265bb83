---------------------------- MODULE MCMediaQueues ----------------------------
(***************************************************************************)
(* The bounded queues on the way of a frame to another node, asked about   *)
(* in one run.  A behaviour belongs to one part, chosen at the start; the  *)
(* variables of the other keep their initial values.                       *)
(*                                                                         *)
(*   peer      LiveMediaQueue: the queue to one peer;                      *)
(*   exchange  MediaExchange: the export and the inject queue, the         *)
(*             timeline and the init cache.                                *)
(***************************************************************************)
EXTENDS LiveMediaQueue, TLC

CONSTANT NoInit

VARIABLES
    part, holders, claimed, config, exportQ, exportBytes, notifying, permit, exporter, fanning,
    injectQ, injectBytes, cache, timeline, arriving, exchanged, arrivals, lost

\* Stream 1 has small frames; stream 2 large key frames and one frame above
\* half of a bound of 4 bytes.
TwoStreams ==
    {<<1, "Critical", 1>>, <<1, "ResyncPoint", 1>>, <<1, "Droppable", 1>>,
     <<2, "ResyncPoint", 2>>, <<2, "Droppable", 3>>}

Exchange == INSTANCE MediaExchange
              WITH pushes <- exchanged, Watched <- "s", Other <- "t", FarConns <- {1},
                   FarKinds <- {"init", "delta"}, MaxQueueBytes <- 2, Stamps <- {0, 3}, Wrap <- 4,
                   MaxEpoch <- 2, MaxPushes <- 3, MaxArrivals <- 1

exchangePart == <<holders, claimed, config, exportQ, exportBytes, notifying, permit, exporter,
                  fanning, injectQ, injectBytes, cache, timeline, arriving, exchanged, arrivals,
                  lost>>
QueuesVars == <<vars, part, exchangePart>>

QueuesInit ==
    /\ part \in {"peer", "exchange"}
    /\ Init
    /\ Exchange!Init /\ (part = "peer" => holders = <<"here">>)

PeerStep == part = "peer" /\ Next /\ UNCHANGED exchangePart
ExchangeStep == part = "exchange" /\ Exchange!Next /\ UNCHANGED vars
QueuesNext == UNCHANGED part /\ (PeerStep \/ ExchangeStep)

QueuesSpec == QueuesInit /\ [][QueuesNext]_QueuesVars

(***************************************************************************)
(* A subscriber can decode what the init cache gives it: the staged header *)
(* and keyframe are of the same epoch and the same codec configuration,    *)
(* unless this node had to evict that configuration's header; and the task *)
(* that exports frames never sleeps over one (cache.rs put_if_epoch_ge,    *)
(* hub.rs wait_and_drain).                                                 *)
(***************************************************************************)
ExchangeDelivers == Exchange!TypeOK /\ Exchange!InitDecodes /\ Exchange!NoSleepingExport

(***************************************************************************)
(* What a step never does: move the timeline of a stream back, across      *)
(* epochs, reconnects and encoders that start again at zero (timeline.rs   *)
(* map); or give up a queued codec header while a stream has a cheaper     *)
(* frame in the queue (hub.rs evict_for_room).                             *)
(***************************************************************************)
ExchangeNeverTears == Exchange!TimelineForward /\ Exchange!CriticalLast
=============================================================================
