-------------------------- MODULE TotpClaimsProofs --------------------------
(***************************************************************************)
(* TotpClaims for every set of tasks and counters, every period, drift,     *)
(* clock skew and delay that TTLAssumption admits.                          *)
(***************************************************************************)
EXTENDS TotpClaims, WellFoundedInduction, FiniteSetTheorems, TLAPS

USE CodeAssumption, TimeAssumption

\* The TTL covers every clock that accepts a code.
LEMMA TTLCovers ==
  ASSUME NEW c \in Counters
  PROVE  /\ Opens(c) \in Int /\ Closes(c) \in Int
         /\ Closes(c) + MaxDelay <= Opens(c) + TTL
<1>1. c \in Int /\ Drift \in Int /\ Period \in Int
  OBVIOUS
<1>2. (c - Drift) * Period \in Int /\ (c + Drift + 1) * Period \in Int
  BY <1>1
<1>3. (c + Drift + 1) * Period = (c - Drift) * Period + (2 * Drift + 1) * Period
  BY <1>1
<1> QED BY <1>2, <1>3, TTLAssumption DEF Opens, Closes

LEMMA Quotient ==
  ASSUME NEW t \in Nat
  PROVE  /\ t \div Period \in Int
         /\ (t \div Period) * Period <= t
         /\ t < (t \div Period + 1) * Period
  OBVIOUS

\* A clock that accepts the code of a counter lies between the two.
LEMMA AcceptedInTime ==
  ASSUME TypeOK, NEW clock \in Clocks, NEW c \in Acceptable(clock)
  PROVE  Opens(c) <= now /\ now < Closes(c)
<1> DEFINE q == clock \div Period
<1>1. clock \in Nat /\ clock - Skew <= now /\ now <= clock + Skew
  BY DEF Clocks, TypeOK
<1>2. q \in Int /\ q * Period <= clock /\ clock < (q + 1) * Period
  BY <1>1, Quotient
<1>3. c \in Int /\ c - Drift <= q /\ q <= c + Drift
  BY <1>2 DEF Acceptable
<1>4. (c - Drift) * Period <= q * Period /\ (q + 1) * Period <= (c + Drift + 1) * Period
  <2> HIDE DEF q
  <2>1. \A x, y \in Int : x <= y => x * Period <= y * Period
    OBVIOUS
  <2> QED BY <1>2, <1>3, <2>1
<1> QED BY <1>1, <1>2, <1>3, <1>4 DEF Opens, Closes, TypeOK

\* Every nonempty set of naturals has a least element: the initial segments that end
\* in it are finite sets, well founded under inclusion.
LEMMA LeastNatural ==
  ASSUME NEW S \in SUBSET Nat, S # {}
  PROVE  \E x \in S : \A y \in S : x <= y
<1> DEFINE Segments == {0..x : x \in S}
<1>1. Segments \subseteq FiniteSubsetsOf(Nat) /\ Segments # {}
  <2>1. \A x \in S : IsFiniteSet(0..x)
    BY FS_Interval
  <2>2. \A x \in S : 0..x \in SUBSET Nat
    OBVIOUS
  <2> QED BY <2>1, <2>2 DEF FiniteSubsetsOf
<1>2. IsWellFoundedOn(StrictSubsetOrdering(Nat), FiniteSubsetsOf(Nat))
  BY FS_StrictSubsetOrderingWellFounded
<1>3. \E I \in Segments : \A J \in Segments : <<J, I>> \notin StrictSubsetOrdering(Nat)
  <2> HIDE DEF Segments
  <2> QED BY <1>1, <1>2, WFMin
<1>4. PICK x \in S : \A y \in S : <<0..y, 0..x>> \notin StrictSubsetOrdering(Nat)
  BY <1>3
<1>5. ASSUME NEW y \in S, y < x PROVE FALSE
  <2>1. 0..y \in SUBSET Nat /\ 0..x \in SUBSET Nat
    OBVIOUS
  <2>2. 0..y \subseteq 0..x /\ x \in 0..x /\ x \notin 0..y
    BY <1>5
  <2> QED BY <1>4, <2>1, <2>2 DEF StrictSubsetOrdering
<1>6. \A y \in S : x <= y
  BY <1>5
<1> QED BY <1>6

LEMMA MatchAccepted ==
  ASSUME NEW code \in Codes, NEW clock \in Nat
  PROVE  /\ Match(code, clock) \in Keys
         /\ Match(code, clock) # Wrong => Match(code, clock) \in Acceptable(clock)
<1> DEFINE M == Matches(code, clock)
           Ranks == {Rank(c, clock) : c \in M}
<1>1. M \subseteq Acceptable(clock) /\ M \subseteq Counters
  BY DEF Matches, Acceptable
<1>2. CASE M = {}
  BY <1>2 DEF Match, Keys
<1>3. CASE M # {}
  <2>1. Ranks \in SUBSET Nat
    BY Quotient, <1>1 DEF Rank, Matches, Acceptable
  <2>2. PICK c \in M : \A d \in M : Rank(c, clock) <= Rank(d, clock)
    <3>1. Ranks # {}
      BY <1>3
    <3>2. \E x \in Ranks : \A y \in Ranks : x <= y
      <4> HIDE DEF Ranks
      <4> QED BY <2>1, <3>1, LeastNatural
    <3> QED BY <3>2
  <2>3. Match(code, clock) \in M
    BY <1>3, <2>2 DEF Match
  <2> QED BY <1>1, <2>3 DEF Keys
<1> QED BY <1>2, <1>3

-----------------------------------------------------------------------------
(* The inductive invariant *)

LEMMA InitIInv == Init => IInv
<1> SUFFICES ASSUME Init PROVE IInv
  OBVIOUS
<1>1. TypeOK
  BY DEF Init, TypeOK, Idle, Task, Tasks, Keys, Wrong
<1>2. \A a \in Attempts : attempt[a].pc = "idle"
  BY DEF Init, Idle, Task
<1>3. TimelyClaims
  BY <1>2 DEF TimelyClaims
<1>4. LateClaims
  BY DEF Init, LateClaims
<1>5. \A c \in Counters : claimed[c] = Absent /\ granted[c] = 0
  BY DEF Init, Keys
<1>6. ClaimsLast
  BY <1>2, <1>5 DEF ClaimsLast, UsedUp, Won
<1>7. OneWinner /\ OneGrantPerCounter
  BY <1>2, <1>5 DEF OneWinner, Won, OneGrantPerCounter
<1> QED BY <1>1, <1>3, <1>4, <1>6, <1>7 DEF IInv

\* A task that claims a counter nobody holds is the first to do so.
LEMMA FirstClaim ==
  ASSUME IInv, NEW a \in Attempts, attempt[a].pc = "claim",
         attempt[a].counter # Wrong, Unclaimed(attempt[a].counter)
  PROVE  ~UsedUp(attempt[a].counter)
<1> DEFINE c == attempt[a].counter
<1>1. c \in Counters /\ attempt[a].start \in Nat /\ now \in Nat
  BY DEF IInv, TypeOK, Tasks, Keys
<1>2. now <= attempt[a].start + MaxDelay /\ attempt[a].start < Closes(c)
  BY DEF IInv, TimelyClaims
<1>3. claimed[c] = Absent
  BY DEF Unclaimed
<1>4. UsedUp(c) => claimed[c] # Absent \/ Opens(c) + TTL <= now
  BY <1>1 DEF IInv, ClaimsLast
<1> HIDE DEF c
<1>5. now < Opens(c) + TTL
  BY <1>1, <1>2, TTLCovers
<1>6. ~UsedUp(c)
  BY <1>1, <1>3, <1>4, <1>5, TTLCovers
<1> QED BY <1>6 DEF c

LEMMA TickIInv == IInv /\ Tick => IInv'
<1> SUFFICES ASSUME IInv, Tick PROVE IInv'
  OBVIOUS
<1> USE DEF IInv, Tick
<1>1. TypeOK'
  BY DEF TypeOK
<1>2. TimelyClaims'
  BY DEF TimelyClaims, TypeOK, Tasks, Opens, Closes
<1>3. \A c \in Counters : Opens(c) \in Int /\ Opens(c)' = Opens(c)
  BY TTLCovers DEF Opens
<1>4. LateClaims'
  BY <1>3 DEF LateClaims, TypeOK, Keys
<1>5. \A c \in Counters : UsedUp(c)' = UsedUp(c)
  BY DEF UsedUp, Won
<1>6. ClaimsLast'
  BY <1>3, <1>5 DEF ClaimsLast, TypeOK
<1>7. OneWinner' /\ OneGrantPerCounter'
  BY DEF OneWinner, Won, OneGrantPerCounter
<1> QED BY <1>1, <1>2, <1>4, <1>6, <1>7

\* A key that is created now, or has aged out.
LEMMA ExpireIInv == ASSUME NEW k \in Keys PROVE IInv /\ Expire(k) => IInv'
<1> SUFFICES ASSUME IInv, Expire(k) PROVE IInv'
  OBVIOUS
<1> USE DEF IInv, Expire
<1>1. TypeOK'
  BY DEF TypeOK
<1>2. TimelyClaims' /\ LateClaims'
  BY DEF TimelyClaims, LateClaims, Opens, Closes
<1>3. \A c \in Counters : Opens(c) \in Int /\ Opens(c)' = Opens(c)
  BY TTLCovers DEF Opens
<1>4. \A c \in Counters : UsedUp(c)' = UsedUp(c)
  BY DEF UsedUp, Won
<1>5. ClaimsLast'
  <2>1. \A c \in Counters :
          claimed'[c] = IF c = k THEN Absent ELSE claimed[c]
    BY DEF TypeOK, Keys
  <2>2. ASSUME k \in Counters PROVE Opens(k) + TTL <= now
    <3>1. claimed[k] \in Nat /\ Opens(k) <= claimed[k] /\ claimed[k] + TTL <= now
      BY <2>2 DEF TypeOK, ClaimsLast, Aged
    <3> QED BY <1>3, <2>2, <3>1 DEF TypeOK
  <2> QED BY <1>3, <1>4, <2>1, <2>2 DEF ClaimsLast
<1>6. OneWinner' /\ OneGrantPerCounter'
  BY DEF OneWinner, Won, OneGrantPerCounter
<1> QED BY <1>1, <1>2, <1>5, <1>6

LEMMA ServeLateIInv == ASSUME NEW k \in late PROVE IInv /\ ServeLate(k) => IInv'
<1> SUFFICES ASSUME IInv, ServeLate(k) PROVE IInv'
  OBVIOUS
<1> USE DEF IInv, ServeLate
<1>1. k \in Keys /\ now \in Nat
  BY DEF TypeOK
<1>2. \A c \in Keys : claimed'[c] = claimed[c] \/ (c = k /\ claimed'[c] = now)
  <2>1. claimed' = claimed \/ claimed' = [claimed EXCEPT ![k] = now]
    BY DEF Created
  <2>2. claimed \in [Keys -> Nat \union {Absent}]
    BY DEF TypeOK
  <2> HIDE DEF IInv, ServeLate
  <2> QED BY <2>1, <2>2, <1>1
<1>3. TypeOK'
  BY <1>1 DEF TypeOK, Created
<1>4. TimelyClaims' /\ LateClaims'
  BY DEF TimelyClaims, LateClaims, Opens, Closes
<1>5. \A c \in Counters : Opens(c) \in Int /\ Opens(c)' = Opens(c)
  BY TTLCovers DEF Opens
<1>6. \A c \in Counters : UsedUp(c)' = UsedUp(c)
  BY DEF UsedUp, Won
<1>7. ClaimsLast'
  <2>1. k \in Counters => Opens(k) <= now
    BY DEF LateClaims, Wrong
  <2>2. now # Absent
    BY <1>1 DEF Absent
  <2> QED BY <1>2, <1>5, <1>6, <2>1, <2>2 DEF ClaimsLast, Keys
<1>8. OneWinner' /\ OneGrantPerCounter'
  BY DEF OneWinner, Won, OneGrantPerCounter
<1> QED BY <1>3, <1>4, <1>7, <1>8

\* A task that starts, or is over, without having won anything.
LEMMA StartIInv ==
  ASSUME NEW a \in Attempts, NEW code \in Codes, NEW clock \in Clocks
  PROVE  IInv /\ Start(a, code, clock) => IInv'
<1> SUFFICES ASSUME IInv, Start(a, code, clock) PROVE IInv'
  OBVIOUS
<1> USE DEF IInv, Start
<1> DEFINE k == Match(code, clock)
<1>1. clock \in Nat
  BY DEF Clocks, TypeOK
<1>2. k \in Keys /\ (k # Wrong => k \in Acceptable(clock))
  BY <1>1, MatchAccepted
<1>3. k # Wrong => k \in Counters /\ Opens(k) <= now /\ now < Closes(k)
  BY <1>2, AcceptedInTime DEF Acceptable
<1> HIDE DEF k
<1>4. attempt' = [attempt EXCEPT ![a] = Task("claim", k, now)]
  BY DEF k
<1>5. TypeOK'
  BY <1>2, <1>4 DEF TypeOK, Task, Tasks
<1>6. \A b \in Attempts : attempt'[b] = IF b = a THEN Task("claim", k, now) ELSE attempt[b]
  BY <1>4 DEF TypeOK
<1>7. TimelyClaims'
  BY <1>3, <1>6 DEF TimelyClaims, Task, TypeOK, Opens, Closes
<1>8. \A b \in Attempts : \A c \in Counters : Won(b, c)' => Won(b, c)
  BY <1>6 DEF Won, Task
<1>9. \A c \in Counters : UsedUp(c)' => UsedUp(c)
  BY <1>8 DEF UsedUp
<1>10. LateClaims' /\ ClaimsLast'
  BY <1>9 DEF LateClaims, ClaimsLast, Opens
<1>11. OneWinner' /\ OneGrantPerCounter'
  BY <1>8 DEF OneWinner, OneGrantPerCounter
<1> QED BY <1>5, <1>7, <1>10, <1>11

LEMMA FailIInv == ASSUME NEW a \in Attempts PROVE IInv /\ Fail(a) => IInv'
<1> SUFFICES ASSUME IInv, Fail(a) PROVE IInv'
  OBVIOUS
<1> USE DEF IInv, Fail
<1>1. Idle \in Tasks /\ Idle.pc = "idle"
  BY DEF Idle, Task, Tasks, Keys
<1>2. late' \in SUBSET Keys
  BY DEF TypeOK, Tasks
<1>3. TypeOK'
  BY <1>1, <1>2 DEF TypeOK
<1>4. \A b \in Attempts : attempt'[b] = IF b = a THEN Idle ELSE attempt[b]
  BY DEF TypeOK
<1>5. TimelyClaims'
  BY <1>1, <1>4 DEF TimelyClaims, Opens, Closes
<1>6. \A b \in Attempts : \A c \in Counters : Won(b, c)' => Won(b, c)
  BY <1>1, <1>4 DEF Won
<1>7. \A c \in Counters : UsedUp(c)' => UsedUp(c)
  BY <1>6 DEF UsedUp
<1>8. attempt[a].counter # Wrong => Opens(attempt[a].counter) <= now
  <2> DEFINE c == attempt[a].counter
  <2>1. attempt[a].start \in Nat /\ now \in Nat /\ c \in Keys
    BY DEF TypeOK, Tasks
  <2>2. c # Wrong => Opens(c) <= attempt[a].start /\ attempt[a].start <= now
    BY DEF TimelyClaims
  <2> HIDE DEF c, IInv, Fail
  <2>3. c # Wrong => Opens(c) \in Int
    BY <2>1, TTLCovers DEF Keys
  <2>4. c # Wrong => Opens(c) <= now
    BY <2>1, <2>2, <2>3
  <2> QED BY <2>4 DEF c
<1>9. LateClaims'
  BY <1>8 DEF LateClaims, Opens
<1>10. ClaimsLast'
  BY <1>7 DEF ClaimsLast, Opens
<1>11. OneWinner' /\ OneGrantPerCounter'
  BY <1>6 DEF OneWinner, OneGrantPerCounter
<1> QED BY <1>3, <1>5, <1>9, <1>10, <1>11

LEMMA ClaimIInv == ASSUME NEW a \in Attempts PROVE IInv /\ Claim(a) => IInv'
<1> SUFFICES ASSUME IInv, Claim(a) PROVE IInv'
  OBVIOUS
<1> DEFINE k == attempt[a].counter
<1>1. k \in Keys /\ now \in Nat /\ Idle \in Tasks /\ Task("won", k, 0) \in Tasks
  BY DEF IInv, TypeOK, Tasks, Idle, Task, Keys
<1>2. PICK t \in {Idle, Task("won", k, 0)} : attempt' = [attempt EXCEPT ![a] = t]
  BY DEF Claim
<1>3. t \in Tasks /\ t.pc \in {"idle", "won"}
  BY <1>1, <1>2 DEF Idle, Task
<1>4. \A b \in Attempts : attempt'[b] = IF b = a THEN t ELSE attempt[b]
  BY <1>2 DEF IInv, TypeOK
<1>5. TypeOK'
  BY <1>1, <1>2, <1>3 DEF Claim, Created, IInv, TypeOK
<1>6. TimelyClaims' /\ LateClaims'
  BY <1>3, <1>4 DEF IInv, Claim, TimelyClaims, LateClaims, Opens, Closes
<1>7. \A c \in Counters : Opens(c) \in Int /\ Opens(c)' = Opens(c)
  BY TTLCovers DEF Opens
<1>8. CASE /\ Unclaimed(k) /\ Created(k)
           /\ attempt' = [attempt EXCEPT ![a] = Task("won", k, 0)]
  <2>1. \A b \in Attempts : attempt'[b] = IF b = a THEN Task("won", k, 0) ELSE attempt[b]
    BY <1>8 DEF IInv, TypeOK
  <2>2. \A b \in Attempts : \A c \in Counters :
          Won(b, c)' => Won(b, c) \/ (b = a /\ c = k)
    <3> HIDE DEF k
    <3> QED BY <2>1 DEF Won, Task
  <2>3. k \in Counters => ~UsedUp(k) /\ Opens(k) <= now
    <3>1. attempt[a].pc = "claim" /\ attempt[a].start \in Nat
      BY DEF Claim, IInv, TypeOK, Tasks
    <3>2. k # Wrong => Opens(k) <= attempt[a].start /\ attempt[a].start <= now
      BY <3>1 DEF IInv, TimelyClaims
    <3>3. k # Wrong => ~UsedUp(k)
      BY <1>8, <3>1, FirstClaim
    <3>4. k \in Counters => k # Wrong
      BY DEF Wrong
    <3> HIDE DEF k
    <3>5. k \in Counters => Opens(k) \in Int
      BY TTLCovers
    <3> QED BY <1>1, <3>1, <3>2, <3>3, <3>4, <3>5
  <2>4. \A c \in Counters : c # k => (UsedUp(c)' => UsedUp(c))
    BY <2>2 DEF UsedUp, Claim
  <2>5. \A c \in Counters : claimed'[c] = IF c = k THEN now ELSE claimed[c]
    BY <1>8 DEF Created, IInv, TypeOK, Keys
  <2>6. ClaimsLast'
    <3>1. now' = now /\ now # Absent
      BY <1>1 DEF Claim, Absent
    <3> QED BY <1>7, <2>3, <2>4, <2>5, <3>1 DEF IInv, ClaimsLast
  <2>7. OneWinner' /\ OneGrantPerCounter'
    BY <2>2, <2>3 DEF IInv, OneWinner, OneGrantPerCounter, UsedUp, Claim
  <2> QED BY <1>5, <1>6, <2>6, <2>7 DEF IInv
<1>9. CASE attempt' = [attempt EXCEPT ![a] = Idle] /\ UNCHANGED claimed
  <2>1. \A b \in Attempts : attempt'[b] = IF b = a THEN Idle ELSE attempt[b]
    BY <1>9 DEF IInv, TypeOK
  <2>2. \A b \in Attempts : \A c \in Counters : Won(b, c)' => Won(b, c)
    BY <2>1 DEF Won, Idle, Task
  <2>3. \A c \in Counters : UsedUp(c)' => UsedUp(c)
    BY <2>2 DEF UsedUp, Claim
  <2>4. ClaimsLast'
    BY <1>7, <1>9, <2>3 DEF IInv, ClaimsLast, Claim
  <2>5. OneWinner' /\ OneGrantPerCounter'
    BY <2>2 DEF IInv, OneWinner, OneGrantPerCounter, Claim
  <2> QED BY <1>5, <1>6, <2>4, <2>5 DEF IInv
<1> QED BY <1>8, <1>9 DEF Claim

LEMMA ReplyIInv == ASSUME NEW a \in Attempts PROVE IInv /\ Reply(a) => IInv'
<1> SUFFICES ASSUME IInv, Reply(a) PROVE IInv'
  OBVIOUS
<1> DEFINE k == attempt[a].counter
<1>1. k \in Keys /\ Idle \in Tasks /\ Idle.pc = "idle"
  BY DEF IInv, TypeOK, Tasks, Idle, Task, Keys
<1>2. \A b \in Attempts : attempt'[b] = IF b = a THEN Idle ELSE attempt[b]
  BY DEF Reply, IInv, TypeOK
<1>3. \A c \in Counters :
        granted'[c] = granted[c] \/ (c = k /\ granted'[c] = granted[c] + 1)
  <2>1. granted \in [Counters -> Nat]
    BY DEF IInv, TypeOK
  <2>2. granted' = granted \/ granted' = [granted EXCEPT ![k] = granted[k] + 1]
    BY DEF Reply
  <2> HIDE DEF k
  <2> QED BY <2>1, <2>2
<1>4. \A c \in Counters : Won(a, c) <=> c = k
  BY DEF Reply, Won
<1>5. \A c \in Counters : c = k => granted[c] = 0
  BY <1>4 DEF IInv, OneWinner, OneGrantPerCounter, TypeOK
<1>6. \A c \in Counters : granted'[c] # granted[c] => c = k /\ granted'[c] = 1
  BY <1>3, <1>5
<1>7. \A b \in Attempts : \A c \in Counters : Won(b, c)' => Won(b, c) /\ b # a
  BY <1>1, <1>2 DEF Won
<1>8. \A c \in Counters : UsedUp(c)' => UsedUp(c)
  BY <1>4, <1>6, <1>7 DEF UsedUp
<1>9. TypeOK'
  BY <1>1 DEF Reply, IInv, TypeOK, Keys
<1>10. TimelyClaims' /\ LateClaims'
  BY <1>1, <1>2 DEF IInv, Reply, TimelyClaims, LateClaims, Opens, Closes
<1>11. ClaimsLast'
  BY <1>8 DEF IInv, Reply, ClaimsLast, Opens
<1>12. OneWinner'
  BY <1>4, <1>6, <1>7 DEF IInv, OneWinner
<1>13. OneGrantPerCounter'
  BY <1>6 DEF IInv, OneGrantPerCounter
<1> QED BY <1>9, <1>10, <1>11, <1>12, <1>13 DEF IInv

LEMMA StepIInv == IInv /\ [Next]_vars => IInv'
<1> SUFFICES ASSUME IInv, [Next]_vars PROVE IInv'
  OBVIOUS
<1>1. CASE Tick
  BY <1>1, TickIInv
<1>2. ASSUME NEW k \in Keys, Expire(k) PROVE IInv'
  BY <1>2, ExpireIInv
<1>3. ASSUME NEW k \in late, ServeLate(k) PROVE IInv'
  BY <1>3, ServeLateIInv
<1>4. ASSUME NEW a \in Attempts, NEW code \in Codes, NEW clock \in Clocks,
             Start(a, code, clock)
      PROVE  IInv'
  BY <1>4, StartIInv
<1>5. ASSUME NEW a \in Attempts, Claim(a) \/ Fail(a) \/ Reply(a) PROVE IInv'
  BY <1>5, ClaimIInv, FailIInv, ReplyIInv
<1>6. CASE UNCHANGED vars
  BY <1>6 DEF vars, IInv, TypeOK, TimelyClaims, LateClaims, ClaimsLast, OneWinner,
              OneGrantPerCounter, UsedUp, Won, Opens, Closes
<1> QED BY <1>1, <1>2, <1>3, <1>4, <1>5, <1>6 DEF Next

THEOREM Invariance == Spec => []IInv
<1> QED BY InitIInv, StepIInv, PTL DEF Spec

\* The type invariant, for every mesh.
THEOREM TypeCorrect == Spec => []TypeOK
<1>1. IInv => TypeOK
  BY DEF IInv
<1> QED BY <1>1, Invariance, PTL

\* No TOTP counter grants two sessions, in a mesh of any size, provided only that a
\* claim's TTL exceeds the time a code is accepted plus the skew and delay allowed for.
THEOREM OneGrant == Spec => []OneGrantPerCounter
<1>1. IInv => OneGrantPerCounter
  BY DEF IInv
<1> QED BY <1>1, Invariance, PTL

=============================================================================
