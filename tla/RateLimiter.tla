------------------------------ MODULE RateLimiter ------------------------------
(***************************************************************************)
(* RateLimiter of commands.py: a sliding window for each sender, in a table   *)
(* of limited size that is kept in the order of use.                          *)
(***************************************************************************)
EXTENDS Naturals, Sequences

CONSTANTS
  Senders,
  RateLimit, Window,  \* limit and window
  MaxBuckets,         \* MAX_RATE_BUCKETS
  LastTime            \* bound on time

ASSUME RateAssumption ==
  RateLimit \in Nat \ {0} /\ Window \in Nat \ {0} /\ MaxBuckets \in Nat \ {0} /\ LastTime \in Nat

VARIABLES
  now,
  table,   \* the buckets, the least recently used first
  granted  \* history: when each sender was let through, as far as the window reaches

rateVars == <<now, table, granted>>

RateTypeOK ==
  /\ now \in 0..LastTime
  /\ table \in Seq([key : Senders, times : Seq(0..LastTime)]) /\ Len(table) <= MaxBuckets
  /\ granted \in [Senders -> Seq(0..LastTime)]

RateInit == now = 0 /\ table = <<>> /\ granted = [s \in Senders |-> <<>>]

\* At rest: no time is left.
RateRests == now = LastTime /\ table = <<>> /\ granted = [s \in Senders |-> <<>>]

\* The times that are left when those before the window that ends at t are popped.
FirstWithin(times, t) ==
  CHOOSE i \in 1 .. Len(times) + 1 :
    /\ i <= Len(times) => times[i] + Window > t
    /\ \A j \in 1 .. i - 1 : times[j] + Window <= t

Within(times, t) == SubSeq(times, FirstWithin(times, t), Len(times))

Pass(t) ==
  /\ t > now /\ now' = t
  /\ granted' = [s \in Senders |-> Within(granted[s], t)]
  /\ UNCHANGED table

\* Mutant: the least recently used bucket goes, whether it is active or not.
StaleAny(b) == TRUE

\* evict_stale: only a bucket that has expired as a whole.
Stale(b) == b.times = <<>> \/ b.times[Len(b.times)] + Window <= now

\* The table without a bucket.
Others(i) == SubSeq(table, 1, i - 1) \o SubSeq(table, i + 1, Len(table))

\* The bucket of a sender is the last of the table; a full one refuses.
Counted(s, others, times) ==
  LET grants == Len(times) < RateLimit
      kept == IF grants THEN Append(times, now) ELSE times
  IN /\ table' = Append(others, [key |-> s, times |-> kept])
     /\ granted' = IF grants THEN [granted EXCEPT ![s] = Append(@, now)] ELSE granted

\* A sender with a bucket, one that finds room, and one whose bucket replaces an expired one.
Check(s) ==
  /\ now < LastTime
  /\ \/ \E i \in DOMAIN table :
          table[i].key = s /\ Counted(s, Others(i), Within(table[i].times, now))
     \/ /\ \A i \in DOMAIN table : table[i].key # s
        /\ \/ Len(table) < MaxBuckets /\ Counted(s, table, <<>>)
           \/ Len(table) >= MaxBuckets /\ Stale(table[1]) /\ Counted(s, Tail(table), <<>>)
  /\ UNCHANGED now

RateNext == (\E t \in 0..LastTime : Pass(t)) \/ \E s \in Senders : Check(s)

RateSpec == RateInit /\ [][RateNext]_rateVars

\* However many senders come and go, none is let through more often than the limit in any
\* window: forgetting a bucket never gives its sender a new budget.
WithinLimit == \A s \in Senders : Len(granted[s]) <= RateLimit

\* Why: a bucket holds, in order, what its sender was granted within the window; a sender
\* without a bucket was granted nothing in it.
RateInv ==
  /\ RateTypeOK
  /\ \A s \in Senders : (\A i \in DOMAIN table : table[i].key # s) => granted[s] = <<>>
  /\ \A i \in DOMAIN table :
       /\ \A j \in DOMAIN table : table[j].key = table[i].key => i = j
       /\ Len(table[i].times) <= RateLimit
       /\ \A j, k \in DOMAIN table[i].times :
            j <= k => table[i].times[j] <= table[i].times[k] /\ table[i].times[k] <= now
       /\ granted[table[i].key] = Within(table[i].times, now)

=============================================================================
