----------------------------- MODULE RateWindows -----------------------------
(***************************************************************************)
(* The three sliding-window limiters of a node.  All three keep, per key,  *)
(* the times of what was charged to the key in a bounded table:            *)
(*   http     requests of a client address (rate_limit.rs); the table      *)
(*            refuses a new key when every bucket is throttled;            *)
(*   rtmp     failed publish and play keys (rtmp_bridge.rs); a new key is  *)
(*            then left untracked;                                         *)
(*   cluster  failed handshakes of the cluster ports (security.rs); the    *)
(*            oldest bucket is then evicted although it is throttled.      *)
(* A time is its age in units of Window; age Window means expired but not  *)
(* yet removed.  A request is checked and charged in one critical section, *)
(* a failure is charged some time after its check.                         *)
(***************************************************************************)
EXTENDS Naturals, Sequences, SequencesExt, Functions, FiniteSets

CONSTANTS Sources,       \* client addresses (an IPv6 source is its /64)
          Trusted,       \* trusted proxies
          Window,        \* length of the window, in ticks
          MaxTracked,    \* MAX_TRACKED_KEYS and its siblings
          ApiMax,        \* api_max
          DefaultMax,    \* default_max
          MaxFailures,   \* failures of a key before it is refused
          MaxAttempts,   \* attempts that run at once
          Roles,         \* roles with a bucket of their own, of publish and play
          MaxEvictions   \* bound: evictions of one key within a window

VARIABLES limiter,     \* the limiter of this behaviour
          table,       \* key -> ages, oldest first; <<>> is no bucket
          attempts,    \* attempts past the check and not yet decided
          spent,       \* history: ages of what was charged to a key
          forgiven     \* history: ages of the evictions of a key

rateVars == <<limiter, table, attempts, spent, forgiven>>

Buckets == [http |-> {"api", "public"}, rtmp |-> Roles,
            cluster |-> {"auth"}]
Keys == Sources \X UNION {Buckets[l] : l \in DOMAIN Buckets}
KeysOf(l) == Sources \X Buckets[l]

Cap(k) == CASE k[2] = "api" -> ApiMax
            [] k[2] = "public" -> DefaultMax
            [] OTHER -> MaxFailures

Active(ages) == SelectSeq(ages, LAMBDA a : a < Window)
Older(ages) == [i \in DOMAIN ages |-> IF ages[i] < Window THEN ages[i] + 1
                                                          ELSE Window]
Tracked(t) == {k \in Keys : t[k] # <<>>}
Purged(t) == [k \in Keys |-> Active(t[k])]

\* The rightmost forwarded address counts only behind a trusted proxy.
resolve_client_ip(peer, xff) ==
  IF peer \in Trusted /\ xff \in Sources THEN xff ELSE peer

\* An /api/ request without a valid token draws on the public budget.
bucket_for(authenticated) == IF authenticated THEN "api" ELSE "public"

Throttled(t, k) == Len(Active(t[k])) >= Cap(k)

\* The keys whose last entry is the oldest, among those of ks.
LeastRecent(t, ks) == {k \in ks : \A j \in ks : Last(t[j]) <= Last(t[k])}

\* Mutant: a throttled bucket may be evicted by a new client.
evict_any(t) == LeastRecent(t, Tracked(t))

\* The buckets an insertion may evict from the full, purged table.
Eligible(t) ==
  LeastRecent(t, {k \in Tracked(t) : ~Throttled(t, k)})

Evictable(t) ==
  IF Eligible(t) = {} /\ limiter = "cluster"
  THEN LeastRecent(t, Tracked(t)) ELSE Eligible(t)

\* Ways to make room for a new key: <<table, evicted keys>>.
Rooms(t) ==
  LET p == Purged(t) IN
  IF Cardinality(Tracked(t)) < MaxTracked THEN {<<t, {}>>}
  ELSE IF Cardinality(Tracked(p)) < MaxTracked THEN {<<p, {}>>}
  ELSE {<<[p EXCEPT ![v] = <<>>], {v}>> : v \in Evictable(p)}

Charge(k, t, evicted) ==
  /\ \A j \in evicted : Len(forgiven[j]) < MaxEvictions
  /\ table' = [t EXCEPT ![k] = Append(Active(@), 0)]
  /\ spent' = [spent EXCEPT ![k] = Append(@, 0)]
  /\ forgiven' = [j \in Keys |-> IF j \in evicted THEN Append(forgiven[j], 0)
                                                   ELSE forgiven[j]]

Init ==
  /\ limiter \in DOMAIN Buckets
  /\ table = [k \in Keys |-> <<>>]
  /\ attempts = [k \in Keys |-> 0]
  /\ spent = [k \in Keys |-> <<>>]
  /\ forgiven = [k \in Keys |-> <<>>]

\* RateLimiter::check on a key with a live bucket, and on any other key.
check(k) ==
  LET live == Active(table[k])
      bare == [table EXCEPT ![k] = <<>>] IN
  \/ /\ live # <<>> /\ Len(live) < Cap(k)
     /\ Charge(k, table, {})
     /\ UNCHANGED attempts
  \/ /\ live # <<>> /\ Len(live) >= Cap(k)
     /\ table' = [table EXCEPT ![k] = live]
     /\ UNCHANGED <<attempts, spent, forgiven>>
  \/ /\ live = <<>> /\ Cap(k) > 0
     /\ \E room \in Rooms(bare) : Charge(k, room[1], room[2])
     /\ UNCHANGED attempts
  \/ /\ live = <<>> /\ Cap(k) > 0 /\ Rooms(bare) = {}
     /\ table' = Purged(bare)
     /\ UNCHANGED <<attempts, spent, forgiven>>

Request ==
  /\ limiter = "http"
  /\ \E peer \in Sources, xff \in Sources \cup {"none"}, auth \in BOOLEAN :
       check(<<resolve_client_ip(peer, xff), bucket_for(auth)>>)
  /\ UNCHANGED limiter

\* is_auth_rate_limited and cluster_auth_rate_limited: only a key that used
\* up its own budget is refused.
Attempt(k) ==
  /\ limiter # "http" /\ k \in KeysOf(limiter)
  /\ FoldFunction(+, 0, attempts) < MaxAttempts
  /\ table' = IF limiter = "cluster" THEN Purged(table)
                                     ELSE [table EXCEPT ![k] = Active(@)]
  /\ attempts' = [attempts EXCEPT ![k] = IF Throttled(table, k) THEN @ ELSE @ + 1]
  /\ UNCHANGED <<limiter, spent, forgiven>>

\* record_auth_failure and record_cluster_auth_failure.
Recorded(k) ==
  LET t == IF limiter = "cluster" THEN Purged(table) ELSE table
      rooms == IF t[k] # <<>> THEN {<<t, {}>>} ELSE Rooms(t) IN
  \/ \E room \in rooms : Charge(k, room[1], room[2])
  \/ /\ rooms = {}
     /\ table' = Purged(t)
     /\ UNCHANGED <<spent, forgiven>>

Fail(k) ==
  /\ attempts[k] > 0
  /\ attempts' = [attempts EXCEPT ![k] = @ - 1]
  /\ Recorded(k)
  /\ UNCHANGED limiter

\* The key or secret was right: the bucket is dropped.
Succeed(k) ==
  /\ attempts[k] > 0
  /\ attempts' = [attempts EXCEPT ![k] = @ - 1]
  /\ table' = [table EXCEPT ![k] = <<>>]
  /\ spent' = [spent EXCEPT ![k] = <<>>]
  /\ UNCHANGED <<limiter, forgiven>>

\* Refused for another reason, or the connection ended: nothing is charged.
Undecided(k) ==
  /\ attempts[k] > 0
  /\ attempts' = [attempts EXCEPT ![k] = @ - 1]
  /\ UNCHANGED <<limiter, table, spent, forgiven>>

Tick ==
  /\ table' = [k \in Keys |-> Older(table[k])]
  /\ spent' = [k \in Keys |-> Active(Older(spent[k]))]
  /\ forgiven' = [k \in Keys |-> Active(Older(forgiven[k]))]
  /\ UNCHANGED <<limiter, attempts>>

Next ==
  \/ Request
  \/ \E k \in Keys : Attempt(k) \/ Fail(k) \/ Succeed(k) \/ Undecided(k)
  \/ Tick

(* What a key may be charged in one window: its cap; with checks and       *)
(* charges apart, the attempts that passed the check together; and per     *)
(* eviction of its bucket in the window, less than a cap, because only the *)
(* cluster limiter evicts a throttled bucket.                              *)
Overlap == IF limiter = "http" THEN 0 ELSE MaxAttempts - 1
Forgets(k) == Cap(k) - 1 + (IF limiter = "cluster" THEN MaxAttempts ELSE 0)

(* The limit holds over every window: what was charged to a key in the     *)
(* last Window ticks exceeds its cap only by overlapping attempts and by   *)
(* what evictions of its bucket let go, and the table stays within its     *)
(* size (rate_limit.rs check, rtmp_bridge.rs record_auth_failure,          *)
(* security.rs record_cluster_auth_failure).                               *)
WindowHolds ==
  /\ Cardinality(Tracked(table)) <= MaxTracked
  /\ \A k \in Keys :
       Len(spent[k]) <= Cap(k) + Overlap + Len(forgiven[k]) * Forgets(k)
==============================================================================
