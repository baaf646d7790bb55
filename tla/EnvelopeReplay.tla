----------------------------- MODULE EnvelopeReplay -----------------------------
(***************************************************************************)
(* The replay protection of signed NATS envelopes: Envelope.encode and        *)
(* Envelope.decode of nats/envelope.py, for the envelopes one bot receives.   *)
(* Senders have clocks of their own; the receiver's clock may step back.      *)
(***************************************************************************)
EXTENDS Naturals, Sequences

CONSTANTS
  Drift,        \* TIMESTAMP_DRIFT_WINDOW
  Ttl,          \* NONCE_TTL
  MaxLag,       \* how far behind its latest time the receiver's clock may be
  MaxTime, MaxEnvelopes   \* bounds on clocks and envelopes

\* "must exceed 2 * TIMESTAMP_DRIFT_WINDOW to close the replay window", and what it exceeds
\* it by is what the clock may step back.
ASSUME ReplayAssumption ==
  /\ Drift \in Nat /\ Ttl \in Nat /\ MaxLag \in Nat
  /\ MaxTime \in Nat /\ MaxEnvelopes \in Nat
  /\ MaxLag + 2 * Drift < Ttl

VARIABLES
  clock,      \* time.time() of the receiver
  latest,     \* history: the latest time it showed
  envelopes,  \* envelopes encoded so far, by nonce; the network keeps and repeats them
  seenNonces, \* seen_nonces, in the order of insertion
  accepted    \* history: the nonces decode accepted, each time it did

replayVars == <<clock, latest, envelopes, seenNonces, accepted>>

Envelopes == [timestamp : 0..MaxTime, genuine : BOOLEAN]
Expiring == [nonce : 1..MaxEnvelopes, expiry : 0 .. MaxTime + Ttl]

ReplayTypeOK ==
  /\ clock \in 0..MaxTime /\ latest \in 0..MaxTime /\ clock <= latest
  /\ envelopes \in Seq(Envelopes) /\ Len(envelopes) <= MaxEnvelopes
  /\ seenNonces \in Seq(Expiring) /\ accepted \in Seq(1..MaxEnvelopes)

ReplayInit ==
  /\ clock = 0 /\ latest = 0 /\ envelopes = <<>> /\ seenNonces = <<>> /\ accepted = <<>>

\* At rest: no time and no envelope is left.
ReplayRests ==
  /\ clock = MaxTime /\ latest = MaxTime /\ seenNonces = <<>> /\ accepted = <<>>
  /\ envelopes = [n \in 1..MaxEnvelopes |-> [timestamp |-> 0, genuine |-> FALSE]]

Larger(a, b) == IF a < b THEN b ELSE a

\* Time passes, or the clock is set back a little; MaxTime ends it.
SetClock(time) ==
  /\ latest < MaxTime /\ time # clock /\ time + MaxLag >= latest
  /\ clock' = time /\ latest' = Larger(latest, time)
  /\ UNCHANGED <<envelopes, seenNonces, accepted>>

\* encode, with a fresh nonce and the time of the sender; or something with a wrong
\* signature or subject.
Encode(envelope) ==
  /\ Len(envelopes) < MaxEnvelopes
  /\ envelopes' = Append(envelopes, envelope)
  /\ UNCHANGED <<clock, latest, seenNonces, accepted>>

InWindow(envelope) ==
  clock <= envelope.timestamp + Drift /\ envelope.timestamp <= clock + Drift

\* prune_nonces stops at the first entry that has not expired.
Pruned ==
  LET live == {i \in DOMAIN seenNonces : seenNonces[i].expiry > clock}
      first == IF live = {} THEN Len(seenNonces) + 1 ELSE CHOOSE i \in live : \A j \in live : i <= j
  IN SubSeq(seenNonces, first, Len(seenNonces))

\* Mutant: a nonce is kept for as long as its envelope may be in the window.
ExpiryShort == clock + 2 * Drift

Expiry == clock + Ttl

\* decode: an envelope outside the window changes nothing; a nonce is recorded last.
Decode(n) ==
  /\ InWindow(envelopes[n])
  /\ LET seen == \E i \in DOMAIN Pruned : Pruned[i].nonce = n
     IN IF seen \/ ~envelopes[n].genuine
          THEN seenNonces' = Pruned /\ UNCHANGED accepted
          ELSE /\ seenNonces' = Append(Pruned, [nonce |-> n, expiry |-> Expiry])
               /\ accepted' = Append(accepted, n)
  /\ UNCHANGED <<clock, latest, envelopes>>

ReplayNext ==
  \/ \E time \in 0..MaxTime : SetClock(time)
  \/ \E envelope \in Envelopes : Encode(envelope)
  \/ \E n \in DOMAIN envelopes : Decode(n)

ReplaySpec == ReplayInit /\ [][ReplayNext]_replayVars

\* An envelope is acted on once, however often the network delivers it and although nonces
\* are forgotten, as long as the clock never steps back by what the TTL has to spare.
AcceptedOnce == \A i, j \in DOMAIN accepted : accepted[i] = accepted[j] => i = j

\* Why: the nonce of an accepted envelope is remembered until no clock the receiver may
\* have from then on is within the window of its timestamp.
Leaves(n) == envelopes[n].timestamp + Drift + MaxLag

ReplayInv ==
  /\ ReplayTypeOK
  /\ latest <= clock + MaxLag
  /\ AcceptedOnce
  /\ \A i \in DOMAIN accepted :
       /\ accepted[i] \in DOMAIN envelopes
       /\ \/ \E k \in DOMAIN seenNonces :
               seenNonces[k].nonce = accepted[i] /\ Leaves(accepted[i]) < seenNonces[k].expiry
          \/ Leaves(accepted[i]) < latest

=============================================================================
