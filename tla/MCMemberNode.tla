---------------------------- MODULE MCMemberNode ----------------------------
(***************************************************************************)
(* Who belongs to a node's cluster and how often a client may ask it       *)
(* something, asked in one run.  A behaviour belongs to one part, chosen   *)
(* at the start; the variables of the other keep their initial values.     *)
(*                                                                         *)
(*   members  ClusterMembership: two voters and an id that joins, is       *)
(*            promoted and removed;                                        *)
(*   rates    RateWindows: a client and a trusted proxy at the limiters of *)
(*            the HTTP API, of RTMP authentication and of the cluster.     *)
(***************************************************************************)
EXTENDS MCClusterMembership

VARIABLES
    part,
    limiter, table, attempts, rateSpent, forgiven

Rates == INSTANCE RateWindows
           WITH spent <- rateSpent, Sources <- {"c", "p"}, Trusted <- {"p"}, Window <- 2,
                MaxTracked <- 1, ApiMax <- 2, DefaultMax <- 1, MaxFailures <- 2,
                MaxAttempts <- 2, Roles <- {"publish", "play"}, MaxEvictions <- 1

ratesPart == <<limiter, table, attempts, rateSpent, forgiven>>
NodeVars == <<vars, part, ratesPart>>

NodeInit ==
    /\ part \in {"members", "rates"}
    /\ Init
    /\ Rates!Init /\ (part # "rates" => limiter = "http")

MembersStep == part = "members" /\ Next /\ UNCHANGED ratesPart
RatesStep == part = "rates" /\ Rates!Next /\ UNCHANGED vars
NodeNext == UNCHANGED part /\ (MembersStep \/ RatesStep)

NodeSpec == NodeInit /\ [][NodeNext]_NodeVars

(***************************************************************************)
(* Over every window a limiter admits what it should, but for attempts     *)
(* that overlap and for what evictions at its table's limit forgive        *)
(* (rate_limit.rs, rtmp_bridge.rs, security.rs).                           *)
(***************************************************************************)
LimitsHold == Rates!WindowHolds
=============================================================================
