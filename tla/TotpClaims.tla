----------------------------- MODULE TotpClaims -----------------------------
(***************************************************************************)
(* One-time use of TOTP codes across the mesh: TotpAuthorizer.match of       *)
(* auth.py, ClaimStore.claim of nats/store.py, and the part of               *)
(* AuthFlow.authenticate between them, up to the grant.                      *)
(*                                                                         *)
(* Any number of authenticate() tasks run on any bots of the mesh.  They     *)
(* share the "used_totp" bucket only: one key per TOTP counter, created at   *)
(* most once while it lives, aged out after TTL.  Each task reads its clock  *)
(* (at most Skew off) once, in match(), before the claim's round trip.       *)
(***************************************************************************)
EXTENDS Integers, FiniteSets

CONSTANTS
  Attempts,        \* authenticate() tasks that may run at once, mesh-wide
  Counters,        \* the TOTP counters of the period modelled
  Codes,           \* six-digit codes
  Totp,            \* the code of each counter; two counters may share one
  Period,          \* TOTP_PERIOD
  Drift,           \* TOTP_WINDOW
  TTL,             \* CLAIM_TTL
  Skew,            \* bound on clock error
  MaxDelay,        \* bound on the age of a task's clock reading when it claims
  MaxTime,         \* bound on the clock
  MaxLate          \* bound on claims that may be served after their task gave up

ASSUME CodeAssumption == Counters \subseteq Nat /\ Totp \in [Counters -> Codes]
ASSUME TimeAssumption ==
  /\ Period \in Nat \ {0} /\ Drift \in Nat /\ TTL \in Nat /\ Skew \in Nat
  /\ MaxDelay \in Nat /\ MaxTime \in Nat /\ MaxLate \in Nat

\* 300 s against the 90 s during which a code is accepted: the claim on a counter
\* outlives every clock that could still match its code.
ASSUME TTLAssumption == (2 * Drift + 1) * Period + 2 * Skew + MaxDelay <= TTL

VARIABLES
  now,         \* the bucket's time
  claimed,     \* when the key of each counter was created, Absent if there is none
  attempt,     \* the authenticate() tasks
  late,        \* claims whose task has given up that may still be served
  granted      \* history: how often the code of a counter has granted a session

vars == <<now, claimed, attempt, late, granted>>

-----------------------------------------------------------------------------
(* Types *)

\* What a code that matches no counter claims.
Wrong == -1
Keys == Counters \union {Wrong}
Absent == -1

\* A task about to claim the counter its code matched, and when it read the clock; one
\* whose claim has succeeded; or none.
Task(pc, counter, start) == [pc |-> pc, counter |-> counter, start |-> start]

Tasks == [pc : {"idle", "claim", "won"}, counter : Keys, start : Nat]

Idle == Task("idle", Wrong, 0)

\* What is claimed is a counter, or the key that stands for a wrong code.
TypeOK ==
  /\ now \in Nat
  /\ claimed \in [Keys -> Nat \union {Absent}]
  /\ attempt \in [Attempts -> Tasks]
  /\ late \subseteq Keys
  /\ granted \in [Counters -> Nat]

Init ==
  /\ now = 0
  /\ claimed = [k \in Keys |-> Absent]
  /\ attempt = [a \in Attempts |-> Idle]
  /\ late = {}
  /\ granted = [c \in Counters |-> 0]

-----------------------------------------------------------------------------
(* Time, and the bucket (external: create and TTL) *)

\* A task that has not heard from the bucket for MaxDelay has timed out.
Tick ==
  /\ now < MaxTime
  /\ \A a \in Attempts : attempt[a].pc = "claim" => now < attempt[a].start + MaxDelay
  /\ now' = now + 1
  /\ UNCHANGED <<claimed, attempt, late, granted>>

\* Mutant: the claim outlives the period of its counter only.
AgedEarly(k) == now >= claimed[k] + Period

Aged(k) == now >= claimed[k] + TTL

Expire(k) ==
  /\ claimed[k] # Absent /\ Aged(k)
  /\ claimed' = [claimed EXCEPT ![k] = Absent]
  /\ UNCHANGED <<now, attempt, late, granted>>

Created(k) == claimed' = [claimed EXCEPT ![k] = now]

-----------------------------------------------------------------------------
(* TotpAuthorizer.match *)

\* The counters whose code a clock accepts.
Acceptable(clock) ==
  {c \in Counters : clock \div Period - Drift <= c /\ c <= clock \div Period + Drift}

\* The order match() tries them in: the current one, then earlier ones, then later.
Rank(counter, clock) ==
  LET offset == counter - clock \div Period
  IN IF offset <= 0 THEN -offset ELSE Drift + offset

Matches(code, clock) == {c \in Acceptable(clock) : Totp[c] = code}

\* Mutant: a wrong code claims the current counter.
MatchOrCurrent(code, clock) ==
  IF Matches(code, clock) = {} THEN clock \div Period
                               ELSE CHOOSE c \in Matches(code, clock) : TRUE

Match(code, clock) ==
  IF Matches(code, clock) = {}
    THEN Wrong
    ELSE CHOOSE c \in Matches(code, clock) :
           \A d \in Matches(code, clock) : Rank(c, clock) <= Rank(d, clock)

-----------------------------------------------------------------------------
(* AuthFlow.authenticate and ClaimStore.claim *)

\* The attempt limit has let the command through; a wrong code makes the same round
\* trip as a valid one.
Start(a, code, clock) ==
  /\ attempt[a].pc = "idle" /\ now < MaxTime
  /\ attempt' = [attempt EXCEPT ![a] = Task("claim", Match(code, clock), now)]
  /\ UNCHANGED <<now, claimed, late, granted>>

\* Mutant: a claim that finds the key does not fail.
UnclaimedAlways(k) == TRUE

Unclaimed(k) == claimed[k] = Absent

\* kv.create succeeds for one claimant and denies the others.
Claim(a) ==
  LET k == attempt[a].counter IN
  /\ attempt[a].pc = "claim"
  /\ \/ /\ Unclaimed(k)
        /\ Created(k)
        /\ attempt' = [attempt EXCEPT ![a] = Task("won", k, 0)]
     \/ /\ ~Unclaimed(k)
        /\ attempt' = [attempt EXCEPT ![a] = Idle]
        /\ UNCHANGED claimed
  /\ UNCHANGED <<now, late, granted>>

\* The claim fails and the attempt is denied, although the counter may be used up, now
\* or later.
Fail(a) ==
  /\ attempt[a].pc = "claim"
  /\ attempt' = [attempt EXCEPT ![a] = Idle]
  /\ \/ UNCHANGED late
     \/ /\ Cardinality(late) < MaxLate
        /\ late' = late \union {attempt[a].counter}
  /\ UNCHANGED <<now, claimed, granted>>

ServeLate(k) ==
  /\ late' = late \ {k}
  /\ IF Unclaimed(k) THEN Created(k) ELSE UNCHANGED claimed
  /\ UNCHANGED <<now, attempt, granted>>

\* The claim was won: a real counter grants a session, unless the identity has become
\* invalid meanwhile.
Reply(a) ==
  LET k == attempt[a].counter IN
  /\ attempt[a].pc = "won"
  /\ attempt' = [attempt EXCEPT ![a] = Idle]
  /\ \/ k # Wrong /\ granted' = [granted EXCEPT ![k] = @ + 1]
     \/ UNCHANGED granted
  /\ UNCHANGED <<now, claimed, late>>

-----------------------------------------------------------------------------

Clocks == {t \in (now - Skew) .. (now + Skew) : t >= 0}

Next ==
  \/ Tick
  \/ \E k \in Keys : Expire(k)
  \/ \E k \in late : ServeLate(k)
  \/ \E a \in Attempts :
       \/ \E code \in Codes, clock \in Clocks : Start(a, code, clock)
       \/ Claim(a) \/ Fail(a) \/ Reply(a)

Spec == Init /\ [][Next]_vars

-----------------------------------------------------------------------------
(* Properties *)

\* README.md: "Each TOTP counter can be claimed once".  However many bots receive a
\* code, however their clocks differ, whatever claims fail or are served late, and
\* although the bucket forgets claims, no counter grants two sessions.
OneGrantPerCounter == \A c \in Counters : granted[c] <= 1

\* Why: no clock accepts the code of counter c before Opens(c) or from Closes(c) on, so
\* a claim on c is created after the former and outlives the latter by MaxDelay.
Opens(c) == (c - Drift) * Period - Skew
Closes(c) == (c + Drift + 1) * Period + Skew

Won(a, c) == attempt[a].pc = "won" /\ attempt[a].counter = c

UsedUp(c) == granted[c] = 1 \/ \E a \in Attempts : Won(a, c)

TimelyClaims ==
  \A a \in Attempts :
    LET c == attempt[a].counter  start == attempt[a].start IN
    attempt[a].pc = "claim" =>
      /\ start <= now /\ now <= start + MaxDelay
      /\ c # Wrong => Opens(c) <= start /\ start < Closes(c)

LateClaims == \A c \in late : c # Wrong => Opens(c) <= now

ClaimsLast ==
  \A c \in Counters :
    /\ claimed[c] # Absent => Opens(c) <= claimed[c]
    /\ UsedUp(c) => claimed[c] # Absent \/ Opens(c) + TTL <= now

OneWinner ==
  \A c \in Counters :
    /\ granted[c] = 1 => \A a \in Attempts : ~Won(a, c)
    /\ \A a, b \in Attempts : Won(a, c) /\ Won(b, c) => a = b

IInv ==
  /\ TypeOK
  /\ TimelyClaims /\ LateClaims /\ ClaimsLast
  /\ OneWinner /\ OneGrantPerCounter

=============================================================================
