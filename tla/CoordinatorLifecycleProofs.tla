---------------------- MODULE CoordinatorLifecycleProofs ----------------------
(***************************************************************************)
(* What holds of CoordinatorLifecycle for any stores and bounds.             *)
(***************************************************************************)
EXTENDS CoordinatorLifecycle, WellFoundedInduction, FiniteSetTheorems, TLAPS

-----------------------------------------------------------------------------
(* Numbers and sequences *)

\* A set of naturals has a least element; its absence from a segment is induction.
LEMMA LeastNatural ==
  ASSUME NEW S \in SUBSET Nat, S # {}
  PROVE  \E x \in S : \A y \in S : x <= y
<1> DEFINE Segments == {0..x : x \in S}
<1>1. Segments \subseteq FiniteSubsetsOf(Nat) /\ Segments # {}
  <2>1. \A x \in S : 0..x \in SUBSET Nat /\ IsFiniteSet(0..x)
    BY FS_Interval
  <2> QED BY <2>1 DEF FiniteSubsetsOf
<1>2. \E I \in Segments : \A J \in Segments : <<J, I>> \notin StrictSubsetOrdering(Nat)
  <2> HIDE DEF Segments
  <2> QED BY <1>1, FS_StrictSubsetOrderingWellFounded, WFMin
<1>3. PICK x \in S : \A y \in S : <<0..y, 0..x>> \notin StrictSubsetOrdering(Nat)
  BY <1>2
<1>4. ASSUME NEW y \in S, y < x PROVE FALSE
  <2>1. 0..y \in SUBSET Nat /\ 0..x \in SUBSET Nat
    OBVIOUS
  <2>2. 0..y \subseteq 0..x /\ x \in 0..x /\ x \notin 0..y
    BY <1>4
  <2> QED BY <1>3, <2>1, <2>2 DEF StrictSubsetOrdering
<1> QED BY <1>4

LEMMA AppendFacts ==
  ASSUME NEW S, NEW q \in Seq(S), NEW x \in S, OnceEach(q), x \notin In(q)
  PROVE  Append(q, x) \in Seq(S) /\ OnceEach(Append(q, x)) /\ In(Append(q, x)) = In(q) \union {x}
           /\ Append(q, x) # <<>>
<1>1. /\ Append(q, x) \in Seq(S) /\ Len(q) \in Nat /\ DOMAIN q = 1 .. Len(q)
      /\ DOMAIN Append(q, x) = 1 .. Len(q) + 1
      /\ \A i \in 1 .. Len(q) : Append(q, x)[i] = q[i]
      /\ Append(q, x)[Len(q) + 1] = x
  OBVIOUS
<1>2. 1 .. Len(q) + 1 = 1 .. Len(q) \union {Len(q) + 1} /\ Len(q) + 1 \notin 1 .. Len(q)
  BY <1>1
<1>3. OnceEach(Append(q, x))
  BY <1>1, <1>2 DEF OnceEach, In
<1>4. In(Append(q, x)) = In(q) \union {x}
  BY <1>1, <1>2 DEF In
<1>5. Append(q, x) # <<>>
  BY <1>1
<1> QED BY <1>1, <1>3, <1>4, <1>5

LEMMA TailFacts ==
  ASSUME NEW S, NEW q \in Seq(S), q # <<>>, OnceEach(q)
  PROVE  /\ Tail(q) \in Seq(S) /\ OnceEach(Tail(q)) /\ Head(q) \in In(q) /\ Head(q) \in S
         /\ In(Tail(q)) = In(q) \ {Head(q)}
<1>1. /\ Tail(q) \in Seq(S) /\ Len(q) \in Nat \ {0} /\ DOMAIN q = 1 .. Len(q) /\ Head(q) = q[1]
      /\ DOMAIN Tail(q) = 1 .. Len(q) - 1 /\ \A i \in 1 .. Len(q) - 1 : Tail(q)[i] = q[i + 1]
      /\ q[1] \in S
  OBVIOUS
<1>2. \A i \in 1 .. Len(q) - 1 : i \in Nat /\ i + 1 \in DOMAIN q /\ i + 1 # 1
  BY <1>1
<1>3. OnceEach(Tail(q))
  <2> SUFFICES ASSUME NEW i \in 1 .. Len(q) - 1, NEW j \in 1 .. Len(q) - 1,
                      Tail(q)[i] = Tail(q)[j]
               PROVE  i = j
    BY <1>1 DEF OnceEach
  <2>1. i + 1 = j + 1
    BY <1>1, <1>2 DEF OnceEach
  <2> QED BY <1>2, <2>1
<1>4. 1 \in DOMAIN q /\ Head(q) \in In(q)
  BY <1>1 DEF In
<1>5. In(Tail(q)) \subseteq In(q) \ {Head(q)}
  BY <1>1, <1>2, <1>4 DEF In, OnceEach
<1>6. ASSUME NEW x \in In(q) \ {Head(q)} PROVE x \in In(Tail(q))
  <2>1. PICK i \in DOMAIN q : x = q[i] /\ i # 1
    BY <1>1 DEF In
  <2>2. i - 1 \in DOMAIN Tail(q) /\ (i - 1) + 1 = i
    BY <1>1, <2>1
  <2>3. Tail(q)[i - 1] = x
    BY <1>1, <2>1, <2>2
  <2> QED BY <2>2, <2>3 DEF In
<1> QED BY <1>1, <1>3, <1>4, <1>5, <1>6

-----------------------------------------------------------------------------
(* Without *)

\* f is what is left of the first n elements of q, and of all shorter prefixes.
Prefixes(q, ids, n, f) ==
  f = [i \in 0..n |->
         IF i = 0 THEN <<>> ELSE IF q[i] \in ids THEN f[i - 1] ELSE Append(f[i - 1], q[i])]

\* The recursion of Without is well-founded.
LEMMA PrefixesExist ==
  ASSUME NEW S, NEW q \in Seq(S), NEW ids
  PROVE  \A n \in 0 .. Len(q) : \E f : Prefixes(q, ids, n, f)
<1> DEFINE Bad == {n \in Nat : n <= Len(q) /\ ~\E f : Prefixes(q, ids, n, f)}
<1>1. SUFFICES ASSUME Bad # {} PROVE FALSE
  OBVIOUS
<1>2. PICK n \in Bad : \A k \in Bad : n <= k
  <2>1. Bad \in SUBSET Nat
    OBVIOUS
  <2> HIDE DEF Bad
  <2> QED BY <1>1, <2>1, LeastNatural
<1>3. n # 0
  <2>1. Prefixes(q, ids, 0, [i \in 0..0 |-> <<>>])
    BY DEF Prefixes
  <2> QED BY <1>2, <2>1
<1>4. n \in Nat /\ n - 1 \in Nat /\ n - 1 <= Len(q) /\ n - 1 < n
  BY <1>2, <1>3
<1>5. PICK f : Prefixes(q, ids, n - 1, f)
  BY <1>2, <1>4
<1> DEFINE g == [i \in 0..n |-> IF i = n THEN IF q[n] \in ids THEN f[n - 1]
                                                           ELSE Append(f[n - 1], q[n])
                                       ELSE f[i]]
<1>6. \A i \in 0 .. n - 1 :
        f[i] = IF i = 0 THEN <<>> ELSE IF q[i] \in ids THEN f[i - 1] ELSE Append(f[i - 1], q[i])
  BY <1>4, <1>5 DEF Prefixes
<1>7. ASSUME NEW i \in 0..n
      PROVE  g[i] = IF i = 0 THEN <<>>
                    ELSE IF q[i] \in ids THEN g[i - 1] ELSE Append(g[i - 1], q[i])
  <2>1. CASE i = n
    BY <1>3, <1>4, <2>1
  <2>2. CASE i # n
    <3>1. i \in 0 .. n - 1 /\ (i # 0 => i - 1 \in 0 .. n - 1 /\ i - 1 # n)
      BY <1>4, <2>2
    <3> QED BY <1>4, <1>6, <2>2, <3>1
  <2> QED BY <2>1, <2>2
<1>8. Prefixes(q, ids, n, g)
  <2>1. g = [i \in 0..n |-> g[i]]
    OBVIOUS
  <2> HIDE DEF g
  <2> QED BY <1>7, <2>1 DEF Prefixes
<1> HIDE DEF g
<1> QED BY <1>2, <1>8

\* Who is not cancelled keeps waiting, once; the holder keeps the lock.
LEMMA WithoutFacts ==
  ASSUME NEW S, NEW q \in Seq(S), OnceEach(q), NEW ids
  PROVE  /\ Without(q, ids) \in Seq(S) /\ OnceEach(Without(q, ids))
         /\ In(Without(q, ids)) \subseteq In(q) \ ids
         /\ q # <<>> /\ Head(q) \notin ids => Without(q, ids) # <<>>
<1> DEFINE n == Len(q)
<1>0. n \in Nat /\ DOMAIN q = 1..n /\ \A i \in 1..n : q[i] \in S
  OBVIOUS
<1>1. PICK f : Prefixes(q, ids, n, f)
  <2>1. n \in 0 .. Len(q)
    BY <1>0
  <2> QED BY <2>1, PrefixesExist
<1> DEFINE h == CHOOSE F : Prefixes(q, ids, n, F)
<1>2. Prefixes(q, ids, n, h)
  BY <1>1
<1>3. Without(q, ids) = h[n]
  BY DEF Without, Prefixes
<1> HIDE DEF h, n
<1>4. /\ h[0] = <<>>
      /\ \A i \in 1..n : h[i] = IF q[i] \in ids THEN h[i - 1] ELSE Append(h[i - 1], q[i])
  <2>1. 0 \in 0..n /\ \A i \in 1..n : i \in 0..n /\ i # 0
    BY <1>0
  <2>2. h = [i \in 0..n |->
              IF i = 0 THEN <<>>
              ELSE IF q[i] \in ids THEN h[i - 1] ELSE Append(h[i - 1], q[i])]
    BY <1>2 DEF Prefixes
  <2> QED BY <2>1, <2>2
<1> DEFINE Good(i) ==
      /\ h[i] \in Seq(S) /\ OnceEach(h[i])
      /\ In(h[i]) \subseteq {q[j] : j \in 1..i} \ ids
      /\ i > 0 /\ q[1] \notin ids => h[i] # <<>>
<1>5. \A i \in 0..n : Good(i)
  <2> DEFINE Bad == {i \in 0..n : ~Good(i)}
  <2>1. SUFFICES ASSUME Bad # {} PROVE FALSE
    OBVIOUS
  <2>2. PICK i \in Bad : \A j \in Bad : i <= j
    <3>1. Bad \in SUBSET Nat
      BY <1>0
    <3> HIDE DEF Bad
    <3> QED BY <2>1, <3>1, LeastNatural
  <2>3. CASE i = 0
    <3>1. Good(0)
      BY <1>4 DEF In, OnceEach
    <3> QED BY <2>2, <2>3, <3>1
  <2>4. CASE i # 0
    <3>1. i \in 1..n /\ i - 1 \in 0..n /\ i - 1 < i /\ ~(i <= i - 1)
      BY <1>0, <2>2, <2>4
    <3>2. Good(i - 1)
      BY <2>2, <3>1
    <3>3. q[i] \in S /\ \A j \in 1 .. i - 1 : q[j] # q[i] /\ j \in 1..i
      BY <1>0, <3>1 DEF OnceEach
    <3>4. i \in 1..i
      BY <1>0, <3>1
    <3>5. CASE q[i] \in ids
      <4>1. h[i] = h[i - 1]
        BY <1>4, <3>1, <3>5
      <4>2. i - 1 > 0 \/ i = 1
        BY <1>0, <3>1
      <4>3. Good(i)
        BY <3>2, <3>3, <3>5, <4>1, <4>2
      <4> QED BY <2>2, <4>3
    <3>6. CASE q[i] \notin ids
      <4>1. h[i] = Append(h[i - 1], q[i])
        BY <1>0, <1>4, <3>1, <3>6
      <4>2. q[i] \notin In(h[i - 1])
        BY <3>2, <3>3
      <4>3. h[i] \in Seq(S) /\ OnceEach(h[i]) /\ In(h[i]) = In(h[i - 1]) \union {q[i]}
              /\ h[i] # <<>>
        BY <3>2, <3>3, <4>1, <4>2, AppendFacts
      <4>4. In(h[i]) \subseteq {q[j] : j \in 1..i} \ ids
        BY <3>2, <3>3, <3>4, <3>6, <4>3
      <4> QED BY <2>2, <4>3, <4>4
    <3> QED BY <3>5, <3>6
  <2> QED BY <2>3, <2>4
<1>6. Good(n)
  <2> HIDE DEF Good
  <2>1. n \in 0..n
    BY <1>0
  <2> QED BY <1>5, <2>1
<1>7. In(q) = {q[j] : j \in 1..n} /\ (q # <<>> => n > 0 /\ Head(q) = q[1])
  BY <1>0 DEF In, n
<1> QED BY <1>3, <1>6, <1>7

-----------------------------------------------------------------------------
(* The locks *)

Constants == N \in Nat /\ N # 0 /\ 1 \in Stores /\ Watched \subseteq Stores /\ MaxDrops \in Nat
               /\ MaxFaults \in Nat

LEMMA ConstantFacts == Constants
BY StoresAssumption, BoundsAssumption DEF Constants, Stores

LEMMA LockerFacts ==
  /\ \A t \in Tasks : Opener(t) \in Lockers /\ Opener(t)[1] = t
  /\ \A t, u \in Tasks : Opener(t) = Opener(u) => t = u
  /\ \A g \in Generations : Watcher(g) \in Lockers
  /\ \A g, h \in Generations : Watcher(g) = Watcher(h) => g = h
  /\ \A t \in Tasks, g \in Generations : Opener(t) # Watcher(g)
BY DEF Tasks, Lockers, Opener, Watcher

\* What leaving a lock does to the tasks that open, and to the watches of a store.
TaskMoves ==
  \/ pc' = pc
  \/ \E t \in Tasks, x \in {"sleep", "subscribe", "watches"} :
       pc[t] = "open" /\ pc' = [pc EXCEPT ![t] = x]

WatchMoves(s) ==
  \/ watch' = watch
  \/ \E g \in Generations, x \in {"replay", "sleep", "done"} :
       /\ s \in Watched /\ watch[g][s] = "open" /\ watch' = [watch EXCEPT ![g][s] = x]
       /\ x = "sleep" => Connected

\* What a holder does as it leaves: it moves on, and so does the lock.
LEMMA LeaveFacts ==
  ASSUME TypeOK, LocksHeld, NEW s \in Stores, NEW opened \in BOOLEAN, queue[s] # <<>>,
         Leave(s, opened)
  PROVE  /\ queue' \in [Stores -> Seq(Lockers)] /\ at' \in [Tasks -> Stores]
         /\ creating' = [creating EXCEPT ![s] = NoCreate]
         /\ \A r \in Stores : OnceEach(queue'[r])
         /\ \A r \in Stores :
              /\ \A t \in Tasks : Opener(t) \in In(queue'[r]) => pc'[t] = "open" /\ at'[t] = r
              /\ \A g \in Generations :
                   Watcher(g) \in In(queue'[r]) => r \in Watched /\ watch'[g][r] = "open"
         /\ \A r \in Stores \ {s} : queue[r] # <<>> => queue'[r] # <<>>
         /\ TaskMoves
         /\ WatchMoves(s)
<1> DEFINE id == Head(queue[s])
           rest == [queue EXCEPT ![s] = Tail(@)]
<1>1. /\ queue \in [Stores -> Seq(Lockers)] /\ at \in [Tasks -> Stores]
      /\ pc \in [Tasks \union {"close"} -> Places]
      /\ watch \in [Generations -> [Watched -> WatchStates]]
      /\ \A r \in Stores : queue[r] \in Seq(Lockers)
  BY DEF TypeOK
<1>2. /\ \A r \in Stores : OnceEach(queue[r])
      /\ \A r \in Stores :
           /\ \A t \in Tasks : Opener(t) \in In(queue[r]) => pc[t] = "open" /\ at[t] = r
           /\ \A g \in Generations :
                Watcher(g) \in In(queue[r]) => r \in Watched /\ watch[g][r] = "open"
  BY DEF LocksHeld
<1>3. /\ Tail(queue[s]) \in Seq(Lockers) /\ OnceEach(Tail(queue[s])) /\ id \in In(queue[s])
      /\ id \in Lockers /\ In(Tail(queue[s])) = In(queue[s]) \ {id}
  BY <1>1, <1>2, TailFacts
<1>4. /\ rest \in [Stores -> Seq(Lockers)] /\ rest[s] = Tail(queue[s])
      /\ \A r \in Stores \ {s} : rest[r] = queue[r]
  BY <1>1, <1>3
<1>5. /\ \A r \in Stores : OnceEach(rest[r])
      /\ \A r \in Stores : In(rest[r]) \subseteq In(queue[r])
      /\ id \notin In(rest[s])
  BY <1>2, <1>3, <1>4
<1> HIDE DEF rest
<1>6. creating' = [creating EXCEPT ![s] = NoCreate]
  BY DEF Leave
<1>7. ASSUME NEW t \in Tasks, id = Opener(t), opened, ~OpenedAll(t),
             at' = [at EXCEPT ![t] = @ + 1],
             queue' = [rest EXCEPT ![at[t] + 1] = Append(@, id)],
             pc' = pc, watch' = watch
      PROVE  /\ queue' \in [Stores -> Seq(Lockers)] /\ at' \in [Tasks -> Stores]
             /\ \A r \in Stores : OnceEach(queue'[r])
             /\ \A r \in Stores :
                  /\ \A u \in Tasks :
                       Opener(u) \in In(queue'[r]) => pc'[u] = "open" /\ at'[u] = r
                  /\ \A g \in Generations :
                       Watcher(g) \in In(queue'[r]) => r \in Watched /\ watch'[g][r] = "open"
             /\ \A r \in Stores \ {s} : queue[r] # <<>> => queue'[r] # <<>>
  <2> DEFINE next == at[t] + 1
  <2>1. pc[t] = "open" /\ at[t] = s
    BY <1>2, <1>3, <1>7
  <2>2. next \in Stores /\ next # s /\ next = s + 1
    BY <1>7, <2>1, ConstantFacts DEF OpenedAll, Stores, Constants
  <2>3. id \notin In(rest[next])
    BY <1>2, <1>5, <1>7, <2>1, <2>2
  <2>4. rest[next] \in Seq(Lockers) /\ OnceEach(rest[next])
    BY <1>4, <1>5, <2>2
  <2>5. /\ Append(rest[next], id) \in Seq(Lockers) /\ OnceEach(Append(rest[next], id))
        /\ In(Append(rest[next], id)) = In(rest[next]) \union {id}
        /\ Append(rest[next], id) # <<>>
    BY <1>3, <2>3, <2>4, AppendFacts
  <2> HIDE DEF next
  <2>6. /\ queue' = [rest EXCEPT ![next] = Append(rest[next], id)]
        /\ at' = [at EXCEPT ![t] = next]
    BY <1>7 DEF next
  <2>7. /\ queue'[next] = Append(rest[next], id)
        /\ \A r \in Stores \ {next} : queue'[r] = rest[r]
        /\ at'[t] = next /\ \A u \in Tasks \ {t} : at'[u] = at[u]
    BY <1>1, <1>4, <2>2, <2>6
  <2>8. queue' \in [Stores -> Seq(Lockers)] /\ at' \in [Tasks -> Stores]
    BY <1>1, <1>4, <2>2, <2>5, <2>6
  <2>9. \A r \in Stores : OnceEach(queue'[r])
    BY <1>5, <2>5, <2>7
  <2>10. ASSUME NEW r \in Stores, NEW u \in Tasks, Opener(u) \in In(queue'[r])
         PROVE  pc'[u] = "open" /\ at'[u] = r
    <3>1. CASE Opener(u) = id
      <4>1. u = t
        BY <1>7, <3>1, LockerFacts
      <4>2. r = next
        <5> SUFFICES ASSUME r # next PROVE FALSE
          OBVIOUS
        <5>1. Opener(t) \in In(rest[r])
          BY <2>7, <2>10, <4>1
        <5>2. at[t] = r
          BY <1>2, <1>5, <5>1
        <5> QED BY <1>5, <1>7, <2>1, <5>1, <5>2
      <4> QED BY <1>7, <2>1, <2>7, <4>1, <4>2
    <3>2. CASE Opener(u) # id
      <4>1. u # t /\ Opener(u) \in In(rest[r])
        BY <1>7, <2>5, <2>7, <2>10, <3>2
      <4>2. pc[u] = "open" /\ at[u] = r
        BY <1>2, <1>5, <4>1
      <4> QED BY <1>7, <2>7, <4>1, <4>2
    <3> QED BY <3>1, <3>2
  <2>11. ASSUME NEW r \in Stores, NEW g \in Generations, Watcher(g) \in In(queue'[r])
         PROVE  r \in Watched /\ watch'[g][r] = "open"
    <3>1. Watcher(g) # id
      BY <1>7, LockerFacts
    <3>2. Watcher(g) \in In(rest[r])
      BY <2>5, <2>7, <2>11, <3>1
    <3> QED BY <1>2, <1>5, <1>7, <3>2
  <2>12. ASSUME NEW r \in Stores \ {s}, queue[r] # <<>> PROVE queue'[r] # <<>>
    BY <1>4, <2>5, <2>7, <2>12
  <2> QED BY <2>8, <2>9, <2>10, <2>11, <2>12
<1>8. ASSUME NEW t \in Tasks, id = Opener(t), queue' = rest, at' = at, watch' = watch,
             \A u \in Tasks \ {t} : pc'[u] = pc[u]
      PROVE  /\ queue' \in [Stores -> Seq(Lockers)] /\ at' \in [Tasks -> Stores]
             /\ \A r \in Stores : OnceEach(queue'[r])
             /\ \A r \in Stores :
                  /\ \A u \in Tasks :
                       Opener(u) \in In(queue'[r]) => pc'[u] = "open" /\ at'[u] = r
                  /\ \A g \in Generations :
                       Watcher(g) \in In(queue'[r]) => r \in Watched /\ watch'[g][r] = "open"
             /\ \A r \in Stores \ {s} : queue[r] # <<>> => queue'[r] # <<>>
  <2>1. \A r \in Stores : Opener(t) \notin In(queue'[r])
    BY <1>2, <1>3, <1>5, <1>8
  <2> QED BY <1>1, <1>2, <1>4, <1>5, <1>8, <2>1
<1>9. ASSUME NEW g \in Generations, id = Watcher(g), queue' = rest, at' = at, pc' = pc,
             NEW x \in {"replay", "sleep", "done"}, watch' = [watch EXCEPT ![g][s] = x]
      PROVE  /\ queue' \in [Stores -> Seq(Lockers)] /\ at' \in [Tasks -> Stores]
             /\ \A r \in Stores : OnceEach(queue'[r])
             /\ \A r \in Stores :
                  /\ \A u \in Tasks :
                       Opener(u) \in In(queue'[r]) => pc'[u] = "open" /\ at'[u] = r
                  /\ \A h \in Generations :
                       Watcher(h) \in In(queue'[r]) => r \in Watched /\ watch'[h][r] = "open"
             /\ \A r \in Stores \ {s} : queue[r] # <<>> => queue'[r] # <<>>
             /\ s \in Watched /\ watch[g][s] = "open"
  <2>1. s \in Watched /\ watch[g][s] = "open"
    BY <1>2, <1>3, <1>9
  <2>2. \A h \in Generations, r \in Watched : h # g \/ r # s => watch'[h][r] = watch[h][r]
    BY <1>1, <1>9, <2>1
  <2>3. \A r \in Stores, h \in Generations :
          Watcher(h) \in In(queue'[r]) => r \in Watched /\ watch'[h][r] = "open"
    BY <1>2, <1>3, <1>5, <1>9, <2>2
  <2> QED BY <1>1, <1>2, <1>4, <1>5, <1>9, <2>1, <2>3
<1>10. CASE \E t \in Tasks :
              /\ id = Opener(t)
              /\ IF opened /\ ~OpenedAll(t)
                   THEN /\ at' = [at EXCEPT ![t] = @ + 1]
                        /\ queue' = [rest EXCEPT ![at[t] + 1] = Append(@, id)]
                        /\ UNCHANGED pc
                   ELSE /\ pc' = [pc EXCEPT ![t] = IF opened THEN AfterInit(t) ELSE "sleep"]
                        /\ queue' = rest /\ UNCHANGED at
              /\ UNCHANGED watch
  <2>1. PICK t \in Tasks :
              /\ id = Opener(t)
              /\ IF opened /\ ~OpenedAll(t)
                   THEN /\ at' = [at EXCEPT ![t] = @ + 1]
                        /\ queue' = [rest EXCEPT ![at[t] + 1] = Append(@, id)]
                        /\ UNCHANGED pc
                   ELSE /\ pc' = [pc EXCEPT ![t] = IF opened THEN AfterInit(t) ELSE "sleep"]
                        /\ queue' = rest /\ UNCHANGED at
              /\ UNCHANGED watch
    BY <1>10
  <2>2. CASE opened /\ ~OpenedAll(t)
    BY <1>6, <1>7, <2>1, <2>2 DEF TaskMoves, WatchMoves
  <2>3. CASE ~(opened /\ ~OpenedAll(t))
    <3> DEFINE x == IF opened THEN AfterInit(t) ELSE "sleep"
    <3>1. x \in {"sleep", "subscribe", "watches"} /\ pc' = [pc EXCEPT ![t] = x]
      BY <2>1, <2>3 DEF AfterInit
    <3>2. \A u \in Tasks \ {t} : pc'[u] = pc[u]
      BY <1>1, <3>1
    <3>3. pc[t] = "open"
      BY <1>2, <1>3, <2>1
    <3>4. TaskMoves
      BY <3>1, <3>3 DEF TaskMoves
    <3>5. WatchMoves(s)
      BY <2>1 DEF WatchMoves
    <3> HIDE DEF x
    <3> QED BY <1>6, <1>8, <2>1, <2>3, <3>2, <3>4, <3>5
  <2> QED BY <2>2, <2>3
<1>11. CASE \E g \in Generations :
              /\ id = Watcher(g)
              /\ watch' = [watch EXCEPT ![g][s] =
                   IF opened THEN "replay" ELSE IF Connected THEN "sleep" ELSE "done"]
              /\ queue' = rest
              /\ UNCHANGED <<pc, at>>
  <2>1. PICK g \in Generations :
              /\ id = Watcher(g)
              /\ watch' = [watch EXCEPT ![g][s] =
                   IF opened THEN "replay" ELSE IF Connected THEN "sleep" ELSE "done"]
              /\ queue' = rest
              /\ UNCHANGED <<pc, at>>
    BY <1>11
  <2> DEFINE x == IF opened THEN "replay" ELSE IF Connected THEN "sleep" ELSE "done"
  <2>2. watch' = [watch EXCEPT ![g][s] = x] /\ x \in {"replay", "sleep", "done"}
          /\ (x = "sleep" => Connected)
    BY <2>1
  <2>3. PICK y \in {"replay", "sleep", "done"} :
          watch' = [watch EXCEPT ![g][s] = y] /\ (y = "sleep" => Connected)
    <3> HIDE DEF x
    <3> QED BY <2>2
  <2> HIDE DEF x
  <2>4. /\ queue' \in [Stores -> Seq(Lockers)] /\ at' \in [Tasks -> Stores]
        /\ \A r \in Stores : OnceEach(queue'[r])
        /\ \A r \in Stores :
             /\ \A u \in Tasks :
                  Opener(u) \in In(queue'[r]) => pc'[u] = "open" /\ at'[u] = r
             /\ \A h \in Generations :
                  Watcher(h) \in In(queue'[r]) => r \in Watched /\ watch'[h][r] = "open"
        /\ \A r \in Stores \ {s} : queue[r] # <<>> => queue'[r] # <<>>
        /\ s \in Watched /\ watch[g][s] = "open"
    BY <1>9, <2>1, <2>3
  <2>5. TaskMoves /\ WatchMoves(s)
    BY <2>1, <2>3, <2>4 DEF TaskMoves, WatchMoves
  <2> QED BY <1>6, <2>1, <2>4, <2>5
<1> QED BY <1>10, <1>11 DEF Leave, rest

Entitled(q, s) ==
  /\ \A t \in Tasks : Opener(t) \in In(q) => pc[t] = "open" /\ at[t] = s
  /\ \A g \in Generations : Watcher(g) \in In(q) => s \in Watched /\ watch[g][s] = "open"

LEMMA LocksParts ==
  LocksHeld <=>
    /\ \A s \in Stores : OnceEach(queue[s]) /\ Entitled(queue[s], s)
    /\ \A s \in Stores : creating[s] # NoCreate =>
         /\ queue[s] # <<>> /\ creating[s][1] # 0
         /\ js[s] = 0 \/ (js[s] = creating[s][1] /\ creating[s][2] = epoch)
BY DEF LocksHeld, Entitled

\* Tasks that are cancelled are in no queue, and the others keep their place.
LEMMA LeaveLocksFacts ==
  ASSUME TypeOK, LocksHeld, NEW ids, LeaveLocks(ids)
  PROVE  /\ queue' \in [Stores -> Seq(Lockers)]
         /\ creating' \in [Stores -> Nat \X Nat]
         /\ \A s \in Stores :
              /\ OnceEach(queue'[s]) /\ In(queue'[s]) \subseteq In(queue[s]) \ ids
              /\ creating'[s] # NoCreate => creating'[s] = creating[s] /\ queue'[s] # <<>>
<1>1. /\ queue \in [Stores -> Seq(Lockers)] /\ creating \in [Stores -> Nat \X Nat]
      /\ NoCreate \in Nat \X Nat
  BY DEF TypeOK, NoCreate
<1>2. queue' = [s \in Stores |-> Without(queue[s], ids)]
  BY DEF LeaveLocks
<1>3. creating' = [s \in Stores |->
        IF queue[s] # <<>> /\ Head(queue[s]) \in ids THEN NoCreate ELSE creating[s]]
  BY DEF LeaveLocks
<1>4. ASSUME NEW s \in Stores
      PROVE  /\ queue'[s] \in Seq(Lockers) /\ OnceEach(queue'[s])
             /\ In(queue'[s]) \subseteq In(queue[s]) \ ids
             /\ creating'[s] # NoCreate => creating'[s] = creating[s] /\ queue'[s] # <<>>
  <2>1. queue[s] \in Seq(Lockers) /\ OnceEach(queue[s]) /\ queue'[s] = Without(queue[s], ids)
    BY <1>1, <1>2 DEF LocksHeld
  <2>2. creating[s] # NoCreate => queue[s] # <<>>
    BY DEF LocksHeld
  <2>3. creating'[s] = IF queue[s] # <<>> /\ Head(queue[s]) \in ids THEN NoCreate ELSE creating[s]
    BY <1>3
  <2> QED BY <2>1, <2>2, <2>3, WithoutFacts
<1>5. queue' \in [Stores -> Seq(Lockers)]
  <2>1. \A s \in Stores : Without(queue[s], ids) \in Seq(Lockers)
    BY <1>2, <1>4
  <2> QED BY <1>2, <2>1
<1>6. creating' \in [Stores -> Nat \X Nat]
  BY <1>1, <1>3
<1> QED BY <1>4, <1>5, <1>6

LEMMA CancelledFacts ==
  ASSUME NEW state \in WatchStates
  PROVE  /\ Cancelled(state) \in {"none", "cancelled", "done"}
         /\ state \in {"cancelled", "done", "none"} => Cancelled(state) = state
         /\ state = "stop" => Cancelled(state) = "done"
         /\ Cancelled(state) = "none" => state = "none"
BY DEF WatchStates, Cancelled

LEMMA CancelWatchesFacts ==
  ASSUME TypeOK, NEW who \in Tasks \union {"callback", "close"}, CancelWatches(who)
  PROVE  /\ watch' \in [Generations -> [Watched -> WatchStates]]
         /\ \A g \in Generations, s \in Watched :
              watch'[g][s] = IF g \in listed THEN Cancelled(watch[g][s]) ELSE watch[g][s]
         /\ listed' = {}
         /\ awaited' \in [Tasks \union {"callback", "close"} -> SUBSET Generations]
         /\ awaited'[who] = listed
         /\ \A u \in Tasks \union {"callback", "close"} : u # who => awaited'[u] = awaited[u]
<1>1. /\ watch \in [Generations -> [Watched -> WatchStates]] /\ listed \subseteq Generations
      /\ awaited \in [Tasks \union {"callback", "close"} -> SUBSET Generations]
  BY DEF TypeOK
<1>2. watch' = [g \in Generations |->
         IF g \in listed THEN [s \in Watched |-> Cancelled(watch[g][s])] ELSE watch[g]]
  BY DEF CancelWatches
<1>3. \A g \in Generations, s \in Watched :
         watch'[g][s] = IF g \in listed THEN Cancelled(watch[g][s]) ELSE watch[g][s]
  BY <1>2
<1>4. \A g \in Generations, s \in Watched : Cancelled(watch[g][s]) \in WatchStates
  <2>1. \A g \in Generations, s \in Watched : watch[g][s] \in WatchStates
    BY <1>1
  <2> QED BY <2>1, CancelledFacts DEF WatchStates
<1>5. watch' \in [Generations -> [Watched -> WatchStates]]
  <2>1. \A g \in Generations : [s \in Watched |-> Cancelled(watch[g][s])] \in [Watched -> WatchStates]
    BY <1>4
  <2> QED BY <1>1, <1>2, <2>1
<1> QED BY <1>1, <1>3, <1>5 DEF CancelWatches

\* Steps that touch no lock, and end no wait for one.
LEMMA LocksKept ==
  ASSUME LocksHeld, UNCHANGED <<queue, creating>>,
         \/ UNCHANGED <<js, epoch>>
         \/ \A s \in Stores : js'[s] = 0,
         \A t \in Tasks : pc[t] = "open" => pc'[t] = "open" /\ at'[t] = at[t],
         \A g \in Generations, s \in Watched : watch[g][s] = "open" => watch'[g][s] = "open"
  PROVE  LocksHeld'
<1>1. \A s \in Stores : OnceEach(queue[s])' /\ Entitled(queue[s], s)'
  BY DEF LocksHeld, Entitled
<1>2. \A s \in Stores : creating'[s] # NoCreate =>
         /\ queue'[s] # <<>> /\ creating'[s][1] # 0
         /\ js'[s] = 0 \/ (js'[s] = creating'[s][1] /\ creating'[s][2] = epoch')
  BY DEF LocksHeld
<1> QED BY <1>1, <1>2 DEF LocksHeld, Entitled

\* A task queues up for a lock.
LEMMA LocksQueued ==
  ASSUME TypeOK, LocksHeld, UNCHANGED <<creating, js, epoch>>,
         NEW s \in Stores, NEW id \in Lockers, queue' = [queue EXCEPT ![s] = Append(@, id)],
         id \notin In(queue[s]),
         \A t \in Tasks :
           IF Opener(t) = id
             THEN pc'[t] = "open" /\ at'[t] = s /\ \A r \in Stores : id \notin In(queue[r])
             ELSE pc[t] = "open" => pc'[t] = "open" /\ at'[t] = at[t],
         \A g \in Generations, r \in Watched : watch[g][r] = "open" => watch'[g][r] = "open",
         \A g \in Generations : Watcher(g) = id => s \in Watched /\ watch'[g][s] = "open"
  PROVE  LocksHeld' /\ queue' \in [Stores -> Seq(Lockers)]
<1>1. queue \in [Stores -> Seq(Lockers)] /\ \A r \in Stores : queue[r] \in Seq(Lockers)
  BY DEF TypeOK
<1>2. OnceEach(queue[s])
  BY DEF LocksHeld
<1>3. /\ Append(queue[s], id) \in Seq(Lockers) /\ OnceEach(Append(queue[s], id))
      /\ In(Append(queue[s], id)) = In(queue[s]) \union {id}
      /\ Append(queue[s], id) # <<>>
  BY <1>1, <1>2, AppendFacts
<1>4. /\ queue' \in [Stores -> Seq(Lockers)] /\ queue'[s] = Append(queue[s], id)
      /\ \A r \in Stores \ {s} : queue'[r] = queue[r]
  BY <1>1, <1>3
<1>5. ASSUME NEW r \in Stores PROVE OnceEach(queue'[r]) /\ Entitled(queue[r], r)'
  <2>1. OnceEach(queue'[r])
    BY <1>3, <1>4 DEF LocksHeld
  <2>2. ASSUME NEW t \in Tasks, Opener(t) \in In(queue'[r])
        PROVE  pc'[t] = "open" /\ at'[t] = r
    <3>1. CASE Opener(t) = id
      <4>1. r = s
        BY <1>4, <2>2, <3>1
      <4> QED BY <3>1, <4>1
    <3>2. CASE Opener(t) # id
      <4>1. Opener(t) \in In(queue[r])
        BY <1>3, <1>4, <2>2, <3>2
      <4> QED BY <3>2, <4>1 DEF LocksHeld
    <3> QED BY <3>1, <3>2
  <2>3. ASSUME NEW g \in Generations, Watcher(g) \in In(queue'[r])
        PROVE  r \in Watched /\ watch'[g][r] = "open"
    <3>1. CASE Watcher(g) = id /\ r = s
      BY <3>1
    <3>2. CASE Watcher(g) # id \/ r # s
      <4>1. Watcher(g) \in In(queue[r])
        BY <1>3, <1>4, <2>3, <3>2
      <4> QED BY <4>1 DEF LocksHeld
    <3> QED BY <3>1, <3>2
  <2> QED BY <2>1, <2>2, <2>3 DEF Entitled
<1>6. \A r \in Stores : creating'[r] # NoCreate =>
         /\ queue'[r] # <<>> /\ creating'[r][1] # 0
         /\ js'[r] = 0 \/ (js'[r] = creating'[r][1] /\ creating'[r][2] = epoch')
  BY <1>3, <1>4 DEF LocksHeld
<1> QED BY <1>4, <1>5, <1>6 DEF LocksHeld, Entitled

\* Tasks are cancelled.
LEMMA LocksCancelled ==
  ASSUME TypeOK, LocksHeld, UNCHANGED <<js, epoch>>, NEW ids, LeaveLocks(ids),
         \A t \in Tasks :
           Opener(t) \notin ids /\ pc[t] = "open" => pc'[t] = "open" /\ at'[t] = at[t],
         \A g \in Generations, s \in Watched :
           Watcher(g) \notin ids /\ watch[g][s] = "open" => watch'[g][s] = "open"
  PROVE  LocksHeld'
<1>1. \A s \in Stores :
        /\ OnceEach(queue'[s]) /\ In(queue'[s]) \subseteq In(queue[s]) \ ids
        /\ creating'[s] # NoCreate => creating'[s] = creating[s] /\ queue'[s] # <<>>
  BY LeaveLocksFacts
<1>2. \A s \in Stores : Entitled(queue[s], s)'
  BY <1>1 DEF LocksHeld, Entitled
<1>3. \A s \in Stores : creating'[s] # NoCreate =>
         /\ queue'[s] # <<>> /\ creating'[s][1] # 0
         /\ js'[s] = 0 \/ (js'[s] = creating'[s][1] /\ creating'[s][2] = epoch')
  BY <1>1 DEF LocksHeld
<1> QED BY <1>1, <1>2, <1>3 DEF LocksHeld, Entitled

\* A holder leaves.
LEMMA LocksLeft ==
  ASSUME TypeOK, LocksHeld, NEW s \in Stores, NEW opened \in BOOLEAN, queue[s] # <<>>,
         Leave(s, opened), UNCHANGED epoch, \A r \in Stores \ {s} : js'[r] = js[r]
  PROVE  LocksHeld'
<1>1. /\ creating' = [creating EXCEPT ![s] = NoCreate]
      /\ \A r \in Stores : OnceEach(queue'[r])
      /\ \A r \in Stores :
           /\ \A t \in Tasks : Opener(t) \in In(queue'[r]) => pc'[t] = "open" /\ at'[t] = r
           /\ \A g \in Generations :
                Watcher(g) \in In(queue'[r]) => r \in Watched /\ watch'[g][r] = "open"
      /\ \A r \in Stores \ {s} : queue[r] # <<>> => queue'[r] # <<>>
  BY LeaveFacts
<1>2. creating \in [Stores -> Nat \X Nat]
  BY DEF TypeOK
<1>3. \A r \in Stores : creating'[r] # NoCreate =>
         /\ queue'[r] # <<>> /\ creating'[r][1] # 0
         /\ js'[r] = 0 \/ (js'[r] = creating'[r][1] /\ creating'[r][2] = epoch')
  BY <1>1, <1>2 DEF LocksHeld
<1> QED BY <1>1, <1>3 DEF LocksHeld

\* Who holds a store's lock, and the context it brings.
LEMMA HolderFacts ==
  ASSUME TypeOK, NEW s \in Stores, queue[s] # <<>>
  PROVE  LET id == Head(queue[s])
             context == IF id \in {Opener(t) : t \in Tasks} THEN mine[id[1]] ELSE js[s]
         IN context \in Nat
<1>1. mine \in [Tasks -> Nat] /\ js \in [Stores -> Nat]
  BY DEF TypeOK
<1>2. \A t \in Tasks : Opener(t)[1] = t
  BY LockerFacts
<1> QED BY <1>1, <1>2

LEMMA OpenLocks ==
  ASSUME TypeOK, LocksHeld, NEW s \in Stores, Open(s)
  PROVE  LocksHeld'
<1> DEFINE id == Head(queue[s])
           context == IF id \in {Opener(t) : t \in Tasks} THEN mine[id[1]] ELSE js[s]
           kept == context = js[s] /\ kv[s] # 0
<1>1. /\ queue[s] # <<>> /\ creating[s] = NoCreate
      /\ js' = [js EXCEPT ![s] = context] /\ UNCHANGED epoch
      /\ IF kept \/ context = 0
           THEN Leave(s, kept)
           ELSE /\ creating' = [creating EXCEPT ![s] = <<context, epoch>>]
                /\ UNCHANGED <<queue, pc, at, watch>>
  BY DEF Open
<1>2. js \in [Stores -> Nat] /\ creating \in [Stores -> Nat \X Nat] /\ kept \in BOOLEAN
  BY DEF TypeOK
<1>3. js'[s] = context /\ \A r \in Stores \ {s} : js'[r] = js[r]
  BY <1>1, <1>2
<1> HIDE DEF context, kept
<1>4. CASE kept \/ context = 0
  BY <1>1, <1>2, <1>3, <1>4, LocksLeft
<1>5. CASE ~(kept \/ context = 0)
  <2>1. /\ creating'[s] = <<context, epoch>> /\ context # 0
        /\ \A r \in Stores \ {s} : creating'[r] = creating[r]
        /\ UNCHANGED <<queue, pc, at, watch, epoch>>
    BY <1>1, <1>2, <1>5
  <2>2. \A r \in Stores : creating'[r] # NoCreate =>
         /\ queue'[r] # <<>> /\ creating'[r][1] # 0
         /\ js'[r] = 0 \/ (js'[r] = creating'[r][1] /\ creating'[r][2] = epoch')
    BY <1>1, <1>3, <2>1 DEF LocksHeld
  <2>3. \A r \in Stores : OnceEach(queue[r])' /\ Entitled(queue[r], r)'
    BY <2>1 DEF LocksHeld, Entitled
  <2> QED BY <2>2, <2>3 DEF LocksHeld, Entitled
<1> QED BY <1>4, <1>5

LEMMA LocksStep ==
  ASSUME TypeOK, LocksHeld, WatchesListed, Next
  PROVE  LocksHeld'
<1>0. /\ pc \in [Tasks \union {"close"} -> Places] /\ at \in [Tasks -> Stores]
      /\ watch \in [Generations -> [Watched -> WatchStates]]
      /\ "resync" \in Tasks /\ "start" \in Tasks /\ Constants
  BY ConstantFacts DEF TypeOK, Tasks
<1>1. CASE StartStep \/ SubscribeFails
  <2>1. UNCHANGED <<queue, creating, js, epoch, watch, at>>
    BY <1>1 DEF StartStep, SubscribeFails, Connect, Subscribe, LeaveConnection,
                buckets, inits, watches
  <2>2. \E x \in Places : pc' = [pc EXCEPT !["start"] = x] /\ pc["start"] # "open"
    BY <1>1 DEF StartStep, SubscribeFails, Connect, Subscribe, LeaveConnection, Places
  <2>3. \A t \in Tasks : pc[t] = "open" => pc'[t] = "open"
    BY <1>0, <2>2
  <2> QED BY <2>1, <2>3, LocksKept
<1>2. ASSUME NEW t \in Tasks, InitStores(t) \/ RetryStores(t) PROVE LocksHeld'
  <2>1. pc[t] # "open" /\ UNCHANGED <<creating, js, epoch, watch>>
    BY <1>2 DEF InitStores, RetryStores, watches
  <2>2. \A u \in Tasks \ {t} : pc'[u] = pc[u] /\ at'[u] = at[u]
    BY <1>0, <1>2 DEF InitStores, RetryStores
  <2>3. CASE Connected /\ queue' = [queue EXCEPT ![1] = Append(@, Opener(t))]
               /\ pc' = [pc EXCEPT ![t] = "open"] /\ at' = [at EXCEPT ![t] = 1]
    <3>1. pc'[t] = "open" /\ at'[t] = 1
      BY <1>0, <2>3
    <3>2. \A r \in Stores : Opener(t) \notin In(queue[r])
      BY <2>1 DEF LocksHeld
    <3>3. \A u \in Tasks :
            IF Opener(u) = Opener(t)
              THEN pc'[u] = "open" /\ at'[u] = 1 /\ \A r \in Stores : Opener(t) \notin In(queue[r])
              ELSE pc[u] = "open" => pc'[u] = "open" /\ at'[u] = at[u]
      BY <2>2, <3>1, <3>2, LockerFacts
    <3>4. /\ Opener(t) \in Lockers /\ \A g \in Generations : Watcher(g) # Opener(t)
          /\ 1 \in Stores /\ Opener(t) \notin In(queue[1])
      BY <1>0, <3>2, LockerFacts DEF Constants
    <3>5. \A g \in Generations, r \in Watched : watch[g][r] = "open" => watch'[g][r] = "open"
      BY <2>1
    <3>6. \A g \in Generations : Watcher(g) = Opener(t) => 1 \in Watched /\ watch'[g][1] = "open"
      BY <3>4
    <3>7. queue' = [queue EXCEPT ![1] = Append(@, Opener(t))] /\ UNCHANGED <<creating, js, epoch>>
      BY <2>1, <2>3
    <3> QED BY <3>3, <3>4, <3>5, <3>6, <3>7, LocksQueued
  <2>4. CASE queue' = queue
    BY <2>1, <2>2, <2>4, LocksKept
  <2> QED BY <1>2, <2>3, <2>4 DEF InitStores, RetryStores
<1>3. ASSUME NEW t \in Tasks, StartWatches(t) PROVE LocksHeld'
  <2>1. /\ UNCHANGED <<js, epoch, at>> /\ pc[t] # "open" /\ pc' = [pc EXCEPT ![t] = "gather"]
        /\ CancelWatches(t) /\ LeaveLocks({Watcher(g) : g \in listed})
    BY <1>3 DEF StartWatches
  <2>2. \A g \in Generations, s \in Watched :
          Watcher(g) \notin {Watcher(h) : h \in listed} => watch'[g][s] = watch[g][s]
    BY <2>1, CancelWatchesFacts
  <2>3. \A u \in Tasks : pc[u] = "open" => pc'[u] = "open"
    BY <1>0, <2>1
  <2> QED BY <2>1, <2>2, <2>3, LocksCancelled
<1>4. ASSUME NEW t \in Tasks, LaunchWatches(t) PROVE LocksHeld'
  <2>1. /\ UNCHANGED <<queue, creating, js, epoch, at>>
        /\ pc[t] = "gather" /\ pc' = [pc EXCEPT ![t] = "off"]
    BY <1>4 DEF LaunchWatches, buckets, inits
  <2>2. \A u \in Tasks : pc[u] = "open" => pc'[u] = "open"
    BY <1>0, <2>1
  <2>3. \A g \in Generations, s \in Watched : watch[g][s] = "open" => watch'[g][s] = "open"
    <3>1. CASE watchGen = mine[t]
      <4>1. \A s \in Watched : watch[watchGen][s] = "none"
        BY <2>1, <3>1 DEF WatchesListed
      <4>2. \A g \in Generations : g # watchGen => watch'[g] = watch[g]
        BY <1>0, <1>4, <3>1 DEF LaunchWatches
      <4> QED BY <4>1, <4>2
    <3>2. CASE watchGen # mine[t]
      BY <1>4, <3>2 DEF LaunchWatches
    <3> QED BY <3>1, <3>2
  <2> QED BY <2>1, <2>2, <2>3, LocksKept
<1>5. ASSUME NEW s \in Stores, StoreStep(s) \/ CreateFails(s) PROVE LocksHeld'
  <2>1. CASE Open(s)
    BY <2>1, OpenLocks
  <2>2. CASE Create(s)
    <3>1. queue[s] # <<>> /\ Leave(s, StillMine(s)) /\ UNCHANGED <<js, epoch>>
            /\ StillMine(s) \in BOOLEAN
      BY <2>2 DEF Create, LocksHeld, StillMine
    <3> QED BY <3>1, LocksLeft
  <2>3. CASE CreateFails(s)
    <3>1. queue[s] # <<>> /\ Leave(s, FALSE) /\ UNCHANGED <<js, epoch>>
      BY <2>3 DEF CreateFails, LocksHeld
    <3> QED BY <3>1, LocksLeft
  <2> QED BY <1>5, <2>1, <2>2, <2>3 DEF StoreStep
<1>6. ASSUME NEW g \in Generations, NEW s \in Watched, RunWatch(g, s) PROVE LocksHeld'
  <2>1. watch[g][s] \in {"loop", "sleep"} /\ UNCHANGED <<creating, js, epoch, pc, at>>
    BY <1>6 DEF RunWatch, inits
  <2>2. \A h \in Generations, r \in Watched :
          watch[h][r] = "open" => watch'[h][r] = "open"
    BY <1>0, <1>6, <2>1 DEF RunWatch
  <2>3. CASE queue' = [queue EXCEPT ![s] = Append(@, Watcher(g))]
               /\ watch' = [watch EXCEPT ![g][s] = "open"]
    <3>1. watch'[g][s] = "open" /\ s \in Stores
      BY <1>0, <2>3 DEF Constants
    <3>2. Watcher(g) \notin In(queue[s])
      BY <2>1, <3>1 DEF LocksHeld
    <3>3. /\ Watcher(g) \in Lockers
          /\ \A h \in Generations : Watcher(h) = Watcher(g) => s \in Watched /\ watch'[h][s] = "open"
          /\ \A t \in Tasks : Opener(t) # Watcher(g)
      BY <3>1, LockerFacts
    <3> QED BY <2>1, <2>2, <2>3, <3>1, <3>2, <3>3, LocksQueued
  <2>4. CASE queue' = queue
    BY <2>1, <2>2, <2>4, LocksKept
  <2> QED BY <1>6, <2>3, <2>4 DEF RunWatch
<1>7. ASSUME NEW g \in Generations, NEW s \in Watched,
             Replayed(g, s) \/ Stopped(g, s) \/ WatchFails(g, s)
      PROVE  LocksHeld'
  <2>1. UNCHANGED <<queue, creating, js, epoch, pc, at>>
    BY <1>7 DEF Replayed, Stopped, WatchFails, buckets, inits
  <2>2. \A h \in Generations, r \in Watched : watch[h][r] = "open" => watch'[h][r] = "open"
    BY <1>0, <1>7 DEF Replayed, Stopped, WatchFails
  <2> QED BY <2>1, <2>2, LocksKept
<1>8. CASE Drop \/ Reconnect
  BY <1>8, LocksKept DEF Drop, Reconnect, buckets, inits, watches
<1>9. CASE OnDisconnected
  <2> DEFINE ids == {Opener("resync")} \union {Watcher(g) : g \in listed}
  <2>1. /\ UNCHANGED <<js, epoch, at>> /\ pc' = [pc EXCEPT !["resync"] = "off"]
        /\ CancelWatches("callback") /\ LeaveLocks(ids)
    BY <1>9 DEF OnDisconnected, inits
  <2>2. \A g \in Generations, s \in Watched :
          Watcher(g) \notin ids => watch'[g][s] = watch[g][s]
    BY <2>1, CancelWatchesFacts
  <2>3. \A u \in Tasks : Opener(u) \notin ids => pc'[u] = pc[u]
    BY <1>0, <2>1
  <2> HIDE DEF ids
  <2> QED BY <2>1, <2>2, <2>3, LocksCancelled
<1>10. CASE OnReset
  <2>1. UNCHANGED <<queue, creating, pc, at, watch>> /\ \A s \in Stores : js'[s] = 0
    BY <1>10 DEF OnReset, ResetStores, inits
  <2> QED BY <2>1, LocksKept
<1>11. CASE OnReconnected
  <2> DEFINE ids == {Opener("resync")}
  <2>1. /\ UNCHANGED <<js, epoch, at, watch>> /\ pc' = [pc EXCEPT !["resync"] = "init"]
        /\ LeaveLocks(ids)
    BY <1>11 DEF OnReconnected, inits, watches
  <2>2. \A u \in Tasks : Opener(u) \notin ids => pc'[u] = pc[u]
    BY <1>0, <2>1
  <2> HIDE DEF ids
  <2> QED BY <2>1, <2>2, LocksCancelled
<1>12. CASE Close
  <2> DEFINE ids == {Opener(t) : t \in Tasks} \union {Watcher(g) : g \in listed}
  <2>1. UNCHANGED <<js, epoch, at>> /\ CancelWatches("close") /\ LeaveLocks(ids)
    BY <1>12 DEF Close, inits
  <2>2. \A g \in Generations, s \in Watched :
          Watcher(g) \notin ids => watch'[g][s] = watch[g][s]
    BY <2>1, CancelWatchesFacts
  <2>3. \A u \in Tasks : Opener(u) \in ids
    OBVIOUS
  <2> HIDE DEF ids
  <2> QED BY <2>1, <2>2, <2>3, LocksCancelled
<1>13. CASE Closed
  <2>1. UNCHANGED <<queue, creating, at, watch>> /\ \A s \in Stores : js'[s] = 0
          /\ pc' = [pc EXCEPT !["close"] = "closed"]
    BY <1>13 DEF Closed, ResetStores, inits
  <2>2. \A t \in Tasks : pc'[t] = pc[t]
    BY <1>0, <2>1 DEF Tasks
  <2> QED BY <2>1, <2>2, LocksKept
<1> QED BY <1>1, <1>2, <1>3, <1>4, <1>5, <1>6, <1>7, <1>8, <1>9, <1>10, <1>11, <1>12, <1>13
        DEF Next, InitStep, WatchStep, Callback

-----------------------------------------------------------------------------
(* Steps at a store *)

\* A step at a store moves at most one task or one watch on.
LEMMA StoreFacts ==
  ASSUME TypeOK, LocksHeld, NEW s \in Stores, StoreStep(s) \/ CreateFails(s)
  PROVE  /\ UNCHANGED <<link, calls, epoch, mine, storeGen, listed, awaited, synced, watchGen,
                        drops>>
         /\ queue' \in [Stores -> Seq(Lockers)] /\ at' \in [Tasks -> Stores]
         /\ creating' \in [Stores -> Nat \X Nat] /\ js' \in [Stores -> Nat]
         /\ TaskMoves
         /\ WatchMoves(s)
<1>1. /\ queue \in [Stores -> Seq(Lockers)] /\ at \in [Tasks -> Stores]
      /\ creating \in [Stores -> Nat \X Nat] /\ js \in [Stores -> Nat]
      /\ epoch \in Nat /\ NoCreate \in Nat \X Nat
  BY DEF TypeOK, NoCreate
<1> DEFINE Left(opened) ==
      queue[s] # <<>> /\ Leave(s, opened) /\ js' \in [Stores -> Nat]
<1>2. ASSUME NEW opened \in BOOLEAN, Left(opened)
      PROVE  /\ queue' \in [Stores -> Seq(Lockers)] /\ at' \in [Tasks -> Stores]
             /\ creating' \in [Stores -> Nat \X Nat] /\ js' \in [Stores -> Nat]
             /\ TaskMoves
             /\ WatchMoves(s)
  <2>1. creating' = [creating EXCEPT ![s] = NoCreate]
    BY <1>2, LeaveFacts
  <2>2. creating' \in [Stores -> Nat \X Nat]
    BY <1>1, <2>1
  <2>3. /\ queue' \in [Stores -> Seq(Lockers)] /\ at' \in [Tasks -> Stores]
        /\ TaskMoves /\ WatchMoves(s)
    BY <1>2, LeaveFacts
  <2> QED BY <1>2, <2>2, <2>3
<1>3. CASE Open(s)
  <2> DEFINE id == Head(queue[s])
             context == IF id \in {Opener(t) : t \in Tasks} THEN mine[id[1]] ELSE js[s]
             kept == context = js[s] /\ kv[s] # 0
  <2>1. /\ UNCHANGED <<link, calls, epoch, mine, storeGen, listed, awaited, synced, watchGen,
                       drops>>
        /\ queue[s] # <<>> /\ js' = [js EXCEPT ![s] = context]
        /\ IF kept \/ context = 0
             THEN Leave(s, kept)
             ELSE /\ creating' = [creating EXCEPT ![s] = <<context, epoch>>]
                  /\ UNCHANGED <<queue, pc, at, watch>>
    BY <1>3 DEF Open, counts
  <2>2. context \in Nat /\ kept \in BOOLEAN
    BY <2>1, HolderFacts
  <2> HIDE DEF context, kept
  <2>3. js' \in [Stores -> Nat]
    BY <1>1, <2>1, <2>2
  <2>4. CASE kept \/ context = 0
    <3>1. PICK opened \in BOOLEAN : Left(opened)
      BY <2>1, <2>2, <2>3, <2>4
    <3> HIDE DEF Left
    <3> QED BY <1>2, <2>1, <3>1
  <2>5. CASE ~(kept \/ context = 0)
    <3>0. <<context, epoch>> \in Nat \X Nat
      BY <1>1, <2>2
    <3>1. creating' \in [Stores -> Nat \X Nat]
      BY <1>1, <2>1, <2>5, <3>0
    <3> QED BY <1>1, <2>1, <2>3, <2>5, <3>1 DEF TaskMoves, WatchMoves
  <2> QED BY <2>4, <2>5
<1>4. CASE Create(s)
  <2>1. /\ UNCHANGED <<link, calls, epoch, mine, storeGen, listed, awaited, synced, watchGen,
                       drops>>
        /\ Left(StillMine(s)) /\ StillMine(s) \in BOOLEAN
    BY <1>1, <1>4 DEF Create, LocksHeld, StillMine, counts
  <2>2. PICK opened \in BOOLEAN : Left(opened)
    BY <2>1
  <2> HIDE DEF Left
  <2> QED BY <1>2, <2>1, <2>2
<1>5. CASE CreateFails(s)
  <2>1. /\ UNCHANGED <<link, calls, epoch, mine, storeGen, listed, awaited, synced, watchGen,
                       drops>>
        /\ Left(FALSE)
    BY <1>1, <1>5 DEF CreateFails, LocksHeld
  <2> HIDE DEF Left
  <2> QED BY <1>2, <2>1
<1> QED BY <1>3, <1>4, <1>5 DEF StoreStep

-----------------------------------------------------------------------------
(* Callbacks, and how many start_watches are to come *)

LEMMA CallsStep ==
  ASSUME TypeOK, LocksHeld, CallsInOrder, Next
  PROVE  CallsInOrder'
<1>0. /\ pc \in [Tasks \union {"close"} -> Places]
      /\ calls \in Seq({"disconnected", "resetting", "reconnected"})
      /\ "start" \in Tasks /\ "resync" \in Tasks /\ "close" \notin Tasks
  BY DEF TypeOK, Tasks
<1>1. ASSUME UNCHANGED <<link, calls>>, pc'["close"] = pc["close"],
             pc["start"] = "off" => pc'["start"] = "off"
      PROVE  CallsInOrder'
  BY <1>1 DEF CallsInOrder
<1>2. CASE Connect
  <2>1. /\ link = "none" /\ link' = "up" /\ calls' = calls /\ pc["start"] = "connect"
        /\ pc'["close"] = pc["close"]
    BY <1>0, <1>2 DEF Connect
  <2> QED BY <2>1 DEF CallsInOrder
<1>3. CASE Subscribe
  <2>1. pc["start"] = "subscribe" /\ pc'["close"] = pc["close"] /\ UNCHANGED <<link, calls>>
    BY <1>0, <1>3 DEF Subscribe
  <2> QED BY <1>1, <2>1
<1>4. CASE LeaveConnection
  <2>1. /\ pc["start"] = "leaving" /\ calls = <<>> /\ calls' = <<>> /\ link' = "none"
        /\ pc'["close"] = pc["close"]
    BY <1>0, <1>4 DEF LeaveConnection
  <2> QED BY <2>1 DEF CallsInOrder
<1>5. CASE SubscribeFails \/ Drop
  <2>1. /\ link' \in {"lost", "closed"} /\ calls' = Append(calls, "disconnected")
        /\ pc["start"] # "off" \/ link = "up"
        /\ pc'["close"] = pc["close"]
    BY <1>0, <1>5 DEF SubscribeFails, Drop
  <2>2. /\ DOMAIN calls' = 1 .. Len(calls) + 1 /\ calls'[Len(calls) + 1] = "disconnected"
        /\ \A i \in DOMAIN calls : calls'[i] = calls[i] /\ DOMAIN calls = 1 .. Len(calls)
    BY <1>0, <2>1
  <2>3. \A i \in DOMAIN calls' : i > 1 => calls'[i] = "disconnected"
    BY <1>0, <2>2 DEF CallsInOrder
  <2>4. pc["close"] = "off" /\ pc'["close"] = "off"
    BY <2>1 DEF CallsInOrder
  <2> QED BY <2>1, <2>3, <2>4 DEF CallsInOrder
<1>6. ASSUME NEW t \in Tasks, InitStep(t) PROVE CallsInOrder'
  <2>1. UNCHANGED <<link, calls>> /\ pc[t] # "off"
    BY <1>6 DEF InitStep, InitStores, RetryStores, StartWatches, LaunchWatches
  <2>2. \E x : pc' = [pc EXCEPT ![t] = x]
    BY <1>6 DEF InitStep, InitStores, RetryStores, StartWatches, LaunchWatches
  <2>3. pc'["close"] = pc["close"] /\ (pc["start"] = "off" => pc'["start"] = "off")
    BY <1>0, <2>1, <2>2
  <2> QED BY <1>1, <2>1, <2>3
<1>7. ASSUME NEW s \in Stores, StoreStep(s) \/ CreateFails(s) PROVE CallsInOrder'
  <2>1. UNCHANGED <<link, calls>> /\ TaskMoves
    BY <1>7, StoreFacts
  <2>2. pc'["close"] = pc["close"] /\ (pc["start"] = "off" => pc'["start"] = "off")
    BY <1>0, <2>1 DEF TaskMoves
  <2> QED BY <1>1, <2>1, <2>2
<1>8. ASSUME NEW g \in Generations, NEW s \in Watched, WatchStep(g, s) \/ WatchFails(g, s)
      PROVE  CallsInOrder'
  BY <1>1, <1>8 DEF WatchStep, RunWatch, Replayed, Stopped, WatchFails
<1>9. CASE Reconnect
  <2>1. link = "lost" /\ link' = "up" /\ calls' = <<"reconnected">> /\ pc' = pc
    BY <1>9 DEF Reconnect
  <2>2. DOMAIN calls' = {1} /\ calls'[1] = "reconnected" /\ calls' # <<>>
    BY <2>1
  <2> QED BY <2>1, <2>2 DEF CallsInOrder
<1>10. CASE OnDisconnected
  <2>1. /\ calls # <<>> /\ calls[1] = "disconnected" /\ link' = link
        /\ calls' = <<"resetting">> \o Tail(calls) /\ pc'["close"] = pc["close"]
        /\ pc'["start"] = pc["start"]
    BY <1>0, <1>10 DEF OnDisconnected
  <2>2. /\ calls' # <<>> /\ DOMAIN calls' = DOMAIN calls /\ 1 \in DOMAIN calls
        /\ \A i \in DOMAIN calls : i > 1 => calls'[i] = calls[i]
    BY <1>0, <2>1
  <2>3. link # "up" /\ link # "none"
    BY <2>1, <2>2 DEF CallsInOrder
  <2> QED BY <2>1, <2>2, <2>3 DEF CallsInOrder
<1>11. CASE OnReset \/ OnReconnected
  <2>1. /\ calls # <<>> /\ calls' = Tail(calls) /\ link' = link
        /\ pc'["close"] = pc["close"] /\ pc'["start"] = pc["start"]
    BY <1>0, <1>11 DEF OnReset, OnReconnected
  <2>2. /\ DOMAIN calls' = 1 .. Len(calls) - 1 /\ Len(calls) \in Nat
        /\ \A i \in DOMAIN calls' :
             calls'[i] = calls[i + 1] /\ i + 1 \in DOMAIN calls /\ i + 1 > 1
    BY <1>0, <2>1
  <2>3. \A i \in DOMAIN calls' : calls'[i] = "disconnected"
    BY <2>2 DEF CallsInOrder
  <2>4. \A i \in DOMAIN calls' : link # "up"
    <3> SUFFICES ASSUME NEW i \in DOMAIN calls' PROVE link # "up"
      OBVIOUS
    <3>1. i + 1 \in DOMAIN calls /\ calls[i + 1] = "disconnected"
      BY <2>2, <2>3
    <3> QED BY <3>1 DEF CallsInOrder
  <2>5. link # "none"
    BY <2>1 DEF CallsInOrder
  <2> QED BY <2>1, <2>3, <2>4, <2>5 DEF CallsInOrder
<1>12. CASE Close
  <2>1. /\ pc' = [start |-> "off", resync |-> "off", close |-> "gather"]
        /\ link' = "closed" /\ calls' = calls
    BY <1>12 DEF Close
  <2> QED BY <2>1 DEF CallsInOrder
<1>13. CASE Closed
  <2>1. /\ pc["close"] = "gather" /\ UNCHANGED <<link, calls>> /\ pc'["start"] = pc["start"]
    BY <1>0, <1>13 DEF Closed
  <2> QED BY <2>1 DEF CallsInOrder
<1> QED BY <1>2, <1>3, <1>4, <1>5, <1>6, <1>7, <1>8, <1>9, <1>10, <1>11, <1>12, <1>13
        DEF Next, StartStep, Callback

\* The two parts of ReconnectsDue.
Away(l) == IF l = "lost" THEN 1 ELSE 0
Announced(cs) == IF cs # <<>> /\ Head(cs) = "reconnected" THEN 1 ELSE 0

LEMMA LeftStep ==
  ASSUME TypeOK, LocksHeld, CallsInOrder, GenerationsLeft, Next
  PROVE  GenerationsLeft'
<1>0. /\ pc \in [Tasks \union {"close"} -> Places]
      /\ calls \in Seq({"disconnected", "resetting", "reconnected"})
      /\ "start" \in Tasks /\ "resync" \in Tasks /\ "close" \notin Tasks
      /\ \A t \in Tasks : t = "start" \/ t = "resync"
      /\ watchGen \in Nat /\ drops \in Nat /\ MaxDrops \in Nat /\ drops <= MaxDrops
  BY ConstantFacts DEF TypeOK, Tasks, Constants
<1>1. watchGen + Due("start") + Due("resync") + (Away(link) + Announced(calls)) + (MaxDrops - drops) <= MaxDrops + 1
  BY DEF GenerationsLeft, ReconnectsDue, Away, Announced
<1>2. GenerationsLeft' <=>
        watchGen' + Due("start")' + Due("resync")' + (Away(link') + Announced(calls')) + (MaxDrops - drops')
          <= MaxDrops + 1
  BY DEF GenerationsLeft, ReconnectsDue, Away, Announced
<1>3. /\ Due("start") \in {0, 1} /\ Due("start")' \in {0, 1}
      /\ Due("resync") \in {0, 1} /\ Due("resync")' \in {0, 1}
      /\ Away(link) \in {0, 1} /\ Away(link') \in {0, 1} /\ Announced(calls) \in {0, 1} /\ Announced(calls') \in {0, 1}
  BY DEF Due, Away, Announced
<1>4. /\ UNCHANGED link => Away(link') = Away(link)
      /\ UNCHANGED calls => Announced(calls') = Announced(calls)
  BY DEF Away, Announced
<1>5. ASSUME UNCHANGED <<watchGen, drops>>, Away(link') <= Away(link), Announced(calls') <= Announced(calls),
             Due("start")' <= Due("start"), Due("resync")' <= Due("resync")
      PROVE  GenerationsLeft'
  <2>1. watchGen' = watchGen /\ drops' = drops
    BY <1>5
  <2>2. Due("start")' + Due("resync")' <= Due("start") + Due("resync")
    BY <1>3, <1>5
  <2>3. Away(link') + Announced(calls') <= Away(link) + Announced(calls)
    BY <1>3, <1>5
  <2>4. /\ Due("start") \in Nat /\ Due("start")' \in Nat /\ Due("resync") \in Nat /\ Due("resync")' \in Nat
        /\ Away(link) \in Nat /\ Away(link') \in Nat /\ Announced(calls) \in Nat /\ Announced(calls') \in Nat
    BY <1>3
  <2>5. ASSUME NEW g \in Nat, NEW a \in Nat, NEW b \in Nat, NEW c \in Nat, NEW z \in Nat, NEW m \in Nat,
               NEW p \in Nat, NEW q \in Nat, NEW x \in Nat,
               g + a + b + c + z <= m + 1, p + q <= a + b, x <= c
        PROVE  g + p + q + x + z <= m + 1
    BY <2>5
  <2>6. MaxDrops - drops \in Nat /\ MaxDrops \in Nat /\ watchGen \in Nat
        /\ Away(link) + Announced(calls) \in Nat /\ Away(link') + Announced(calls') \in Nat
    BY <1>0, <2>4
  <2> QED BY <1>1, <1>2, <2>1, <2>2, <2>3, <2>4, <2>5, <2>6
<1>6. ASSUME NEW t \in Tasks, NEW x \in Places, pc' = [pc EXCEPT ![t] = x],
             pc[t] \in {"off", "gather"} => x \in {"off", "gather"}
      PROVE  Due("start")' <= Due("start") /\ Due("resync")' <= Due("resync")
  <2>1. \A u \in Tasks : pc[u] \in {"off", "gather"} => pc'[u] \in {"off", "gather"}
    BY <1>0, <1>6
  <2> QED BY <1>0, <2>1 DEF Due
<1>7. CASE Connect
  <2>1. /\ UNCHANGED <<watchGen, drops, calls>> /\ link' = "up"
        /\ pc["start"] = "connect" /\ pc' = [pc EXCEPT !["start"] = "init"]
    BY <1>7 DEF Connect, watches, counts
  <2>2. Due("start")' <= Due("start") /\ Due("resync")' <= Due("resync")
    <3>1. "start" \in Tasks /\ "init" \in Places
      BY DEF Tasks, Places
    <3> QED BY <1>6, <2>1, <3>1
  <2> QED BY <1>3, <1>4, <1>5, <2>1, <2>2 DEF Away, Announced
<1>8. CASE Subscribe
  <2>1. /\ UNCHANGED <<watchGen, drops, calls, link>>
        /\ pc["start"] = "subscribe" /\ pc' = [pc EXCEPT !["start"] = "watches"]
    BY <1>8 DEF Subscribe, watches, counts
  <2>2. Due("start")' <= Due("start") /\ Due("resync")' <= Due("resync")
    BY <1>0, <1>6, <2>1 DEF Places
  <2> QED BY <1>3, <1>4, <1>5, <2>1, <2>2
<1>9. CASE LeaveConnection
  <2>1. /\ UNCHANGED <<watchGen, drops, calls>> /\ link' = "none"
        /\ pc["start"] = "leaving" /\ pc' = [pc EXCEPT !["start"] = "connect"]
    BY <1>9 DEF LeaveConnection, watches, counts
  <2>2. Due("start")' <= Due("start") /\ Due("resync")' <= Due("resync")
    BY <1>0, <1>6, <2>1 DEF Places
  <2> QED BY <1>3, <1>4, <1>5, <2>1, <2>2 DEF Away, Announced
<1>10. calls' = Append(calls, "disconnected") => Announced(calls') = Announced(calls)
  <2> SUFFICES ASSUME calls' = Append(calls, "disconnected") PROVE Announced(calls') = Announced(calls)
    OBVIOUS
  <2>1. CASE calls = <<>>
    <3>1. calls' # <<>> /\ Head(calls') = "disconnected"
      BY <1>0, <2>1
    <3> QED BY <2>1, <3>1 DEF Away, Announced
  <2>2. CASE calls # <<>>
    <3>1. calls' # <<>> /\ Head(calls') = Head(calls)
      BY <1>0, <2>2
    <3> QED BY <2>2, <3>1 DEF Away, Announced
  <2> QED BY <2>1, <2>2
<1>11. CASE SubscribeFails
  <2>1. /\ UNCHANGED <<watchGen, drops>> /\ link' = "closed"
        /\ calls' = Append(calls, "disconnected")
        /\ pc["start"] = "subscribe" /\ pc' = [pc EXCEPT !["start"] = "leaving"]
    BY <1>11 DEF SubscribeFails, watches
  <2>2. Due("start")' <= Due("start") /\ Due("resync")' <= Due("resync")
    BY <1>0, <1>6, <2>1 DEF Places
  <2> QED BY <1>3, <1>5, <1>10, <2>1, <2>2 DEF Away, Announced
<1>12. ASSUME NEW t \in Tasks, InitStores(t) \/ RetryStores(t) \/ LaunchWatches(t)
       PROVE  GenerationsLeft'
  <2>1. UNCHANGED <<link, calls, watchGen, drops>>
    BY <1>12 DEF InitStores, RetryStores, LaunchWatches, watches, counts
  <2>2. \E x \in Places : /\ pc' = [pc EXCEPT ![t] = x]
                          /\ pc[t] \in {"off", "gather"} => x \in {"off", "gather"}
    BY <1>12 DEF InitStores, RetryStores, LaunchWatches, Places, AfterInit
  <2>3. Due("start")' <= Due("start") /\ Due("resync")' <= Due("resync")
    BY <1>6, <2>2
  <2> QED BY <1>3, <1>4, <1>5, <2>1, <2>3
<1>13. ASSUME NEW t \in Tasks, StartWatches(t) PROVE GenerationsLeft'
  <2>1. /\ UNCHANGED <<link, calls, drops>> /\ watchGen' = watchGen + 1
        /\ pc[t] = "watches" /\ pc' = [pc EXCEPT ![t] = "gather"]
    BY <1>13 DEF StartWatches, counts
  <2>2. /\ Due(t) = 1 /\ Due(t)' = 0
        /\ \A u \in Tasks \ {t} : Due(u)' = Due(u)
    BY <1>0, <2>1 DEF Due
  <2>3. Due("start")' + Due("resync")' + 1 = Due("start") + Due("resync")
    BY <1>0, <1>3, <2>2
  <2> QED BY <1>0, <1>1, <1>2, <1>3, <1>4, <2>1, <2>3
<1>14. ASSUME NEW s \in Stores, StoreStep(s) \/ CreateFails(s) PROVE GenerationsLeft'
  <2>1. UNCHANGED <<link, calls, watchGen, drops>> /\ TaskMoves
    BY <1>14, StoreFacts
  <2>2. CASE pc' = pc
    BY <1>3, <1>4, <1>5, <2>1, <2>2 DEF Due
  <2>3. ASSUME NEW t \in Tasks, NEW x \in {"sleep", "subscribe", "watches"},
               pc[t] = "open", pc' = [pc EXCEPT ![t] = x]
        PROVE  GenerationsLeft'
    <3>1. Due("start")' <= Due("start") /\ Due("resync")' <= Due("resync")
      BY <1>6, <2>3 DEF Places
    <3> QED BY <1>3, <1>4, <1>5, <2>1, <3>1
  <2> QED BY <2>1, <2>2, <2>3 DEF TaskMoves
<1>15. ASSUME NEW g \in Generations, NEW s \in Watched, WatchStep(g, s) \/ WatchFails(g, s)
       PROVE  GenerationsLeft'
  <2>1. UNCHANGED <<link, calls, watchGen, drops, pc>>
    BY <1>15 DEF WatchStep, RunWatch, Replayed, Stopped, WatchFails, counts
  <2> QED BY <1>3, <1>4, <1>5, <2>1 DEF Due
<1>16. CASE Drop
  <2>1. /\ UNCHANGED <<pc, watchGen>> /\ drops' = drops + 1 /\ drops < MaxDrops
        /\ link = "up" /\ link' = "lost" /\ calls' = Append(calls, "disconnected")
    BY <1>16 DEF Drop, watches
  <2>2. Away(link) = 0 /\ Away(link') = 1 /\ Announced(calls') = Announced(calls)
    BY <1>10, <2>1 DEF Away, Announced
  <2>3. Due("start")' = Due("start") /\ Due("resync")' = Due("resync")
    BY <2>1 DEF Due
  <2> QED BY <1>0, <1>1, <1>2, <1>3, <2>1, <2>2, <2>3
<1>17. CASE Reconnect
  <2>1. /\ UNCHANGED <<pc, watchGen, drops>> /\ calls = <<>> /\ calls' = <<"reconnected">>
        /\ link = "lost" /\ link' = "up"
    BY <1>17 DEF Reconnect, watches, counts
  <2>2. Away(link) = 1 /\ Away(link') = 0 /\ Announced(calls) = 0 /\ Announced(calls') = 1
    BY <2>1 DEF Away, Announced
  <2>3. Due("start")' = Due("start") /\ Due("resync")' = Due("resync")
    BY <2>1 DEF Due
  <2> QED BY <1>0, <1>1, <1>2, <1>3, <2>1, <2>2, <2>3
<1>18. CASE OnDisconnected
  <2>1. /\ UNCHANGED <<link, watchGen, drops>> /\ pc' = [pc EXCEPT !["resync"] = "off"]
        /\ calls' = <<"resetting">> \o Tail(calls) /\ calls # <<>>
    BY <1>18 DEF OnDisconnected, counts
  <2>2. Announced(calls') = 0
    BY <1>0, <2>1 DEF Away, Announced
  <2>3. Due("start")' <= Due("start") /\ Due("resync")' <= Due("resync")
    BY <1>0, <1>6, <2>1 DEF Places
  <2> QED BY <1>3, <1>4, <1>5, <2>1, <2>2, <2>3
<1>19. calls # <<>> /\ calls' = Tail(calls) => Announced(calls') = 0
  BY <1>0 DEF CallsInOrder, Away, Announced
<1>20. CASE OnReset
  <2>1. UNCHANGED <<link, pc, watchGen, drops>> /\ calls' = Tail(calls) /\ calls # <<>>
    BY <1>20 DEF OnReset, counts
  <2>2. Due("start")' = Due("start") /\ Due("resync")' = Due("resync")
    BY <2>1 DEF Due
  <2> QED BY <1>3, <1>4, <1>5, <1>19, <2>1, <2>2
<1>21. CASE OnReconnected
  <2>1. /\ UNCHANGED <<link, watchGen, drops>> /\ calls' = Tail(calls) /\ calls # <<>>
        /\ Head(calls) = "reconnected" /\ pc' = [pc EXCEPT !["resync"] = "init"]
    BY <1>21 DEF OnReconnected, watches, counts
  <2>2. Announced(calls) = 1 /\ Announced(calls') = 0
    BY <1>19, <2>1 DEF Away, Announced
  <2>3. Due("start")' = Due("start")
    BY <1>0, <2>1 DEF Due
  <2> QED BY <1>0, <1>1, <1>2, <1>3, <1>4, <2>1, <2>2, <2>3
<1>22. CASE Close
  <2>1. /\ UNCHANGED <<calls, watchGen, drops>> /\ link' = "closed"
        /\ pc' = [start |-> "off", resync |-> "off", close |-> "gather"]
    BY <1>22 DEF Close, counts
  <2>2. Due("start")' = 0 /\ Due("resync")' = 0
    BY <2>1 DEF Due
  <2> QED BY <1>3, <1>4, <1>5, <2>1, <2>2 DEF Away, Announced
<1>23. CASE Closed
  <2>1. /\ UNCHANGED <<link, calls, watchGen, drops>> /\ pc' = [pc EXCEPT !["close"] = "closed"]
    BY <1>23 DEF Closed, counts
  <2>2. Due("start")' = Due("start") /\ Due("resync")' = Due("resync")
    BY <1>0, <2>1 DEF Due
  <2> QED BY <1>3, <1>4, <1>5, <2>1, <2>2
<1> QED BY <1>7, <1>8, <1>9, <1>11, <1>12, <1>13, <1>14, <1>15, <1>16, <1>17, <1>18, <1>20,
           <1>21, <1>22, <1>23
        DEF Next, StartStep, InitStep, Callback

\* Watch generations are never used up: every one that is launched is in Generations.
LEMMA GenerationFacts ==
  ASSUME TypeOK, GenerationsLeft
  PROVE  /\ watchGen \in Nat /\ watchGen <= MaxDrops + 1
         /\ watchGen # 0 => watchGen \in Generations
         /\ \A t \in Tasks : pc[t] \notin {"off", "gather"} => watchGen + 1 \in Generations
<1>1. /\ watchGen \in Nat /\ drops \in Nat /\ MaxDrops \in Nat /\ drops <= MaxDrops
      /\ ReconnectsDue \in Nat /\ Due("start") \in Nat /\ Due("resync") \in Nat
  BY ConstantFacts DEF TypeOK, Constants, ReconnectsDue, Due
<1>2. \A t \in Tasks : pc[t] \notin {"off", "gather"} => Due("start") + Due("resync") >= 1
  BY <1>1 DEF Due, Tasks
<1> QED BY <1>1, <1>2 DEF GenerationsLeft, Generations

-----------------------------------------------------------------------------
(* The watch tasks *)

Active == {"loop", "open", "replay", "live", "stop"}

\* Steps that touch no watch, and end no wait for one that is not done.
LEMMA WatchesKept ==
  ASSUME WatchesListed, UNCHANGED <<watch, listed, watchGen>>,
         \A g \in Generations : Retiring(g) =>
           Retiring(g)' \/ \A s \in Watched : watch[g][s] \in {"none", "done"},
         \A t \in Tasks : pc'[t] = "gather" => pc[t] = "gather" /\ mine'[t] = mine[t]
  PROVE  WatchesListed'
<1>1. ASSUME NEW g \in Generations, NEW s \in Watched
      PROVE  /\ g > watchGen' => watch'[g][s] = "none"
             /\ watch'[g][s] \in {"loop", "open", "replay", "live", "stop"} => g \in listed'
             /\ g = watchGen' /\ g \notin listed' /\ watch'[g][s] \in {"cancelled", "sleep"} =>
                  watch'[g][s] = "cancelled" /\ Retiring(g)'
  BY DEF WatchesListed
<1>2. ASSUME NEW t \in Tasks, pc'[t] = "gather"
      PROVE  /\ mine'[t] \in 1 .. watchGen'
             /\ mine'[t] = watchGen' => \A s \in Watched : watch'[watchGen'][s] = "none"
             /\ \A u \in Tasks : pc'[u] = "gather" /\ mine'[u] = mine'[t] => u = t
  BY <1>2 DEF WatchesListed
<1> QED BY <1>1, <1>2 DEF WatchesListed

\* One watch moves on.
LEMMA WatchMoved ==
  ASSUME TypeOK, WatchesListed, UNCHANGED <<listed, watchGen, calls, awaited, mine>>,
         pc'["close"] = pc["close"],
         \A t \in Tasks : pc'[t] = "gather" => pc[t] = "gather",
         NEW g \in Generations, NEW s \in Watched, NEW x \in WatchStates \ {"none", "cancelled"},
         watch' = [watch EXCEPT ![g][s] = x], watch[g][s] # "none",
         x \in Active => g \in listed,
         x = "sleep" /\ g = watchGen => g \in listed
  PROVE  WatchesListed'
<1>1. /\ watch \in [Generations -> [Watched -> WatchStates]] /\ watchGen \in Nat
      /\ Generations \subseteq Nat
  BY ConstantFacts DEF TypeOK, Generations, Constants
<1>2. \A h \in Generations, r \in Watched :
        watch'[h][r] = IF h = g /\ r = s THEN x ELSE watch[h][r]
  BY <1>1
<1>3. g <= watchGen
  BY <1>1 DEF WatchesListed
<1>4. ASSUME NEW h \in Generations, NEW r \in Watched
      PROVE  /\ h > watchGen' => watch'[h][r] = "none"
             /\ watch'[h][r] \in {"loop", "open", "replay", "live", "stop"} => h \in listed'
             /\ h = watchGen' /\ h \notin listed' /\ watch'[h][r] \in {"cancelled", "sleep"} =>
                  watch'[h][r] = "cancelled" /\ Retiring(h)'
  <2>1. CASE h = g /\ r = s
    BY <1>1, <1>2, <1>3, <2>1 DEF Active
  <2>2. CASE ~(h = g /\ r = s)
    <3>1. watch'[h][r] = watch[h][r]
      BY <1>2, <2>2
    <3>2. Retiring(h)' = Retiring(h)
      BY DEF Retiring
    <3> QED BY <3>1, <3>2 DEF WatchesListed
  <2> QED BY <2>1, <2>2
<1>5. ASSUME NEW t \in Tasks, pc'[t] = "gather"
      PROVE  /\ mine'[t] \in 1 .. watchGen'
             /\ mine'[t] = watchGen' => \A r \in Watched : watch'[watchGen'][r] = "none"
             /\ \A u \in Tasks : pc'[u] = "gather" /\ mine'[u] = mine'[t] => u = t
  <2>1. mine[t] = watchGen => watchGen # g
    BY <1>5 DEF WatchesListed
  <2>2. watchGen # g => watch'[watchGen] = watch[watchGen]
    BY <1>1
  <2> QED BY <1>5, <2>1, <2>2 DEF WatchesListed
<1> QED BY <1>4, <1>5 DEF WatchesListed

\* All of them are cancelled, by someone who waits, or for a newer generation.
LEMMA WatchesCancelled ==
  ASSUME TypeOK, WatchesListed, NEW who \in Tasks \union {"callback", "close"},
         CancelWatches(who),
         \/ watchGen' = watchGen /\ mine' = mine
              /\ \A t \in Tasks : pc'[t] = "gather" => pc[t] = "gather"
         \/ \E t \in Tasks : /\ watchGen' = watchGen + 1 /\ mine' = [mine EXCEPT ![t] = watchGen + 1]
                             /\ watchGen + 1 \in Generations
                             /\ \A u \in Tasks \ {t} : pc'[u] = "gather" => pc[u] = "gather",
         \A g \in Generations :
           g = watchGen' /\ (g \in listed \/ Retiring(g)) => Retiring(g)'
  PROVE  WatchesListed'
<1>1. /\ watch \in [Generations -> [Watched -> WatchStates]] /\ watchGen \in Nat
      /\ mine \in [Tasks -> Nat] /\ Generations \subseteq Nat
      /\ \A g \in Generations : g >= 1
  <2>1. Generations \subseteq Nat /\ \A g \in Generations : g >= 1
    BY ConstantFacts DEF Generations, Constants
  <2> QED BY <2>1 DEF TypeOK
<1>2. /\ \A g \in Generations, s \in Watched :
           watch'[g][s] = IF g \in listed THEN Cancelled(watch[g][s]) ELSE watch[g][s]
      /\ listed' = {}
  BY CancelWatchesFacts
<1>3. \A g \in Generations, s \in Watched :
        /\ watch[g][s] \in WatchStates
        /\ Cancelled(watch[g][s]) \in {"none", "cancelled", "done"}
        /\ watch[g][s] = "none" => Cancelled(watch[g][s]) = "none"
  BY <1>1, CancelledFacts
<1>4. watchGen' >= watchGen /\ watchGen' \in Nat
  BY <1>1
<1>5. ASSUME NEW g \in Generations, NEW s \in Watched
      PROVE  /\ g > watchGen' => watch'[g][s] = "none"
             /\ watch'[g][s] \notin {"loop", "open", "replay", "live", "stop"}
             /\ g = watchGen' /\ watch'[g][s] \in {"cancelled", "sleep"} =>
                  watch'[g][s] = "cancelled" /\ Retiring(g)'
  <2>1. g > watchGen => watch[g][s] = "none"
    BY DEF WatchesListed
  <2>2. g > watchGen' => g > watchGen
    BY <1>1, <1>4
  <2>3. watch[g][s] = "none" => watch'[g][s] = "none"
    BY <1>2, <1>3
  <2>4. watch'[g][s] \notin {"loop", "open", "replay", "live", "stop"}
    BY <1>2, <1>3 DEF WatchesListed
  <2>5. ASSUME g = watchGen', watch'[g][s] \in {"cancelled", "sleep"}
        PROVE  watch'[g][s] = "cancelled" /\ Retiring(g)'
    <3>1. g = watchGen
      <4> SUFFICES ASSUME g # watchGen PROVE FALSE
        OBVIOUS
      <4>1. g > watchGen
        BY <1>1, <1>4, <2>5
      <4> QED BY <2>1, <2>3, <2>5, <4>1
    <3>2. CASE g \in listed
      BY <1>2, <1>3, <2>5, <3>2
    <3>3. CASE g \notin listed
      <4>1. watch[g][s] = "cancelled" /\ Retiring(g) /\ watch'[g][s] = watch[g][s]
        BY <1>2, <2>5, <3>1, <3>3 DEF WatchesListed
      <4> QED BY <2>5, <4>1
    <3> QED BY <3>2, <3>3
  <2> QED BY <2>1, <2>2, <2>3, <2>4, <2>5
<1>6. CASE watchGen' = watchGen /\ mine' = mine
             /\ \A t \in Tasks : pc'[t] = "gather" => pc[t] = "gather"
  <2>1. ASSUME NEW t \in Tasks, pc'[t] = "gather"
        PROVE  /\ mine'[t] \in 1 .. watchGen'
               /\ mine'[t] = watchGen' => \A s \in Watched : watch'[watchGen'][s] = "none"
               /\ \A u \in Tasks : pc'[u] = "gather" /\ mine'[u] = mine'[t] => u = t
    <3>1. pc[t] = "gather" /\ mine[t] \in 1 .. watchGen
            /\ (mine[t] = watchGen => \A s \in Watched : watch[watchGen][s] = "none")
            /\ \A u \in Tasks : pc[u] = "gather" /\ mine[u] = mine[t] => u = t
      BY <1>6, <2>1 DEF WatchesListed
    <3>2. watch'[watchGen] = watch[watchGen]
            \/ watchGen \in Generations
      <4>1. CASE watchGen \in Generations
        BY <4>1
      <4>2. CASE watchGen \notin Generations
        <5>1. listed = {}
          BY <4>2 DEF WatchesListed, TypeOK
        <5>2. watch' = [g \in Generations |-> watch[g]]
          BY <5>1 DEF CancelWatches
        <5>3. watch' = watch
          BY <1>1, <5>2
        <5> QED BY <5>3
      <4> QED BY <4>1, <4>2
    <3> QED BY <1>2, <1>3, <1>6, <3>1, <3>2
  <2> QED BY <1>2, <1>5, <2>1 DEF WatchesListed
<1>7. ASSUME NEW t \in Tasks, watchGen' = watchGen + 1, mine' = [mine EXCEPT ![t] = watchGen + 1],
             \A u \in Tasks \ {t} : pc'[u] = "gather" => pc[u] = "gather",
             watchGen + 1 \in Generations
      PROVE  WatchesListed'
  <2>1. mine'[t] = watchGen + 1 /\ \A u \in Tasks \ {t} : mine'[u] = mine[u]
    BY <1>1, <1>7
  <2>2. \A u \in Tasks \ {t} : pc'[u] = "gather" => mine[u] \in 1 .. watchGen
    BY <1>7 DEF WatchesListed
  <2>3. \A s \in Watched : watch'[watchGen + 1][s] = "none"
    <3>1. \A s \in Watched : watch[watchGen + 1][s] = "none"
      BY <1>1, <1>7 DEF WatchesListed
    <3> QED BY <1>2, <1>3, <1>7, <3>1
  <2>4. ASSUME NEW u \in Tasks, pc'[u] = "gather"
        PROVE  /\ mine'[u] \in 1 .. watchGen'
               /\ mine'[u] = watchGen' => \A s \in Watched : watch'[watchGen'][s] = "none"
               /\ \A v \in Tasks : pc'[v] = "gather" /\ mine'[v] = mine'[u] => v = u
    <3>1. CASE u = t
      BY <1>1, <1>7, <2>1, <2>2, <2>3, <3>1
    <3>2. CASE u # t
      <4>1. mine'[u] = mine[u] /\ mine[u] \in 1 .. watchGen /\ pc[u] = "gather"
        BY <1>7, <2>1, <2>2, <2>4, <3>2
      <4>2. mine'[u] # watchGen' /\ mine'[u] \in 1 .. watchGen'
        BY <1>1, <1>7, <4>1
      <4>3. \A v \in Tasks : pc'[v] = "gather" /\ mine'[v] = mine'[u] => v = u
        BY <1>1, <1>7, <2>1, <4>1, <4>2 DEF WatchesListed
      <4> QED BY <4>2, <4>3
    <3> QED BY <3>1, <3>2
  <2> QED BY <1>2, <1>5, <2>4 DEF WatchesListed
<1> QED BY <1>6, <1>7

\* What a step keeps: neither callbacks, the wait for cancelled watches, nor the tasks that
\* are about to launch watches.
QuietStep ==
  /\ UNCHANGED <<calls, awaited>> /\ pc'["close"] = pc["close"]
  /\ \A t \in Tasks : pc'[t] = "gather" => pc[t] = "gather" /\ mine'[t] = mine[t]

LEMMA QuietKept ==
  ASSUME WatchesListed, QuietStep, UNCHANGED <<watch, listed, watchGen>>
  PROVE  WatchesListed'
<1>1. \A g \in Generations : Retiring(g) => Retiring(g)'
  BY DEF QuietStep, Retiring
<1> QED BY <1>1, WatchesKept DEF QuietStep

LEMMA WatchesStep ==
  ASSUME TypeOK, LocksHeld, CallsInOrder, GenerationsLeft, WatchesListed, Next
  PROVE  WatchesListed'
<1>0. /\ pc \in [Tasks \union {"close"} -> Places] /\ mine \in [Tasks -> Nat]
      /\ watch \in [Generations -> [Watched -> WatchStates]]
      /\ calls \in Seq({"disconnected", "resetting", "reconnected"})
      /\ awaited \in [Tasks \union {"callback", "close"} -> SUBSET Generations]
      /\ "start" \in Tasks /\ "resync" \in Tasks /\ "close" \notin Tasks /\ Constants
  BY ConstantFacts DEF TypeOK, Tasks
<1>1. CASE StartStep
  <2>1. UNCHANGED <<calls, awaited, mine, watch, listed, watchGen>>
    BY <1>1 DEF StartStep, Connect, Subscribe, LeaveConnection, inits, watches
  <2>2. \E x \in Places \ {"gather"} : pc' = [pc EXCEPT !["start"] = x]
    BY <1>1 DEF StartStep, Connect, Subscribe, LeaveConnection, Places
  <2>3. pc'["close"] = pc["close"] /\ \A t \in Tasks : pc'[t] = "gather" => pc[t] = "gather"
    BY <1>0, <2>2
  <2> QED BY <2>1, <2>3, QuietKept DEF QuietStep
<1>2. ASSUME NEW t \in Tasks, InitStores(t) \/ RetryStores(t) PROVE WatchesListed'
  <2>1. UNCHANGED <<calls, awaited, watch, listed, watchGen>>
          /\ pc[t] \in {"init", "sleep"}
    BY <1>2 DEF InitStores, RetryStores, watches
  <2>2. \A u \in Tasks \ {t} : mine'[u] = mine[u]
    BY <1>0, <1>2 DEF InitStores, RetryStores
  <2>3. \E x \in Places \ {"gather"} : pc' = [pc EXCEPT ![t] = x]
    BY <1>2 DEF InitStores, RetryStores, Places, AfterInit
  <2>4. pc'["close"] = pc["close"] /\ pc'[t] # "gather" /\ \A u \in Tasks \ {t} : pc'[u] = pc[u]
    BY <1>0, <2>3
  <2> QED BY <2>1, <2>2, <2>4, QuietKept DEF QuietStep
<1>3. CASE SubscribeFails \/ Drop
  <2>1. /\ UNCHANGED <<awaited, mine, watch, listed, watchGen>>
        /\ calls' = Append(calls, "disconnected")
    BY <1>3 DEF SubscribeFails, Drop, inits, watches
  <2>2. \E x \in Places \ {"gather"} : pc' = [pc EXCEPT !["start"] = x] \/ pc' = pc
    BY <1>3 DEF SubscribeFails, Drop, Places
  <2>3. pc'["close"] = pc["close"] /\ \A t \in Tasks : pc'[t] = "gather" => pc[t] = "gather"
    BY <1>0, <2>2
  <2>4. calls # <<>> => calls' # <<>> /\ Head(calls') = Head(calls)
    BY <1>0, <2>1
  <2>5. \A g \in Generations : Retiring(g) => Retiring(g)'
    BY <2>1, <2>3, <2>4 DEF Retiring
  <2> QED BY <2>1, <2>3, <2>5, WatchesKept
<1>4. ASSUME NEW t \in Tasks, StartWatches(t) PROVE WatchesListed'
  <2>1. /\ UNCHANGED calls /\ pc[t] = "watches" /\ CancelWatches(t)
        /\ watchGen' = watchGen + 1 /\ mine' = [mine EXCEPT ![t] = watchGen + 1]
        /\ pc' = [pc EXCEPT ![t] = "gather"]
    BY <1>4 DEF StartWatches
  <2>2. watchGen + 1 \in Generations /\ watchGen \in Nat
    BY <2>1, GenerationFacts
  <2>3. pc'["close"] = pc["close"] /\ \A u \in Tasks \ {t} : pc'[u] = pc[u]
    BY <1>0, <2>1
  <2>4. awaited'["callback"] = awaited["callback"]
    <3>1. "callback" # t
      BY DEF Tasks
    <3> QED BY <2>1, <3>1, CancelWatchesFacts
  <2>5. \A g \in Generations : g = watchGen' /\ (g \in listed \/ Retiring(g)) => Retiring(g)'
    <3>1. watchGen' \notin listed
      BY <2>1, <2>2 DEF WatchesListed
    <3> QED BY <2>1, <2>3, <2>4, <3>1 DEF Retiring
  <2> QED BY <2>1, <2>2, <2>3, <2>5, WatchesCancelled
<1>5. ASSUME NEW t \in Tasks, LaunchWatches(t) PROVE WatchesListed'
  <2>1. /\ UNCHANGED <<calls, mine, watchGen>> /\ pc[t] = "gather"
        /\ pc' = [pc EXCEPT ![t] = "off"] /\ awaited' = [awaited EXCEPT ![t] = {}]
    BY <1>5 DEF LaunchWatches, inits
  <2>2. /\ pc'["close"] = pc["close"] /\ pc'[t] = "off" /\ "callback" # t
        /\ \A u \in Tasks \ {t} : pc'[u] = pc[u]
    BY <1>0, <2>1 DEF Tasks
  <2>3. awaited'["callback"] = awaited["callback"]
    BY <1>0, <2>1, <2>2
  <2>4. \A g \in Generations : Retiring(g)' = Retiring(g)
    BY <2>1, <2>2, <2>3 DEF Retiring
  <2>5. CASE watchGen # mine[t]
    <3>1. UNCHANGED <<watch, listed>>
      BY <1>5, <2>5 DEF LaunchWatches
    <3> QED BY <2>1, <2>2, <2>4, <3>1, WatchesKept
  <2>6. CASE watchGen = mine[t]
    <3>1. /\ watch' = [watch EXCEPT ![watchGen] = [s \in Watched |-> "loop"]]
          /\ listed' = listed \union {watchGen}
      BY <1>5, <2>6 DEF LaunchWatches
    <3>2. watchGen \in Nat /\ Generations \subseteq Nat
      BY <1>0 DEF TypeOK, Generations, Constants
    <3>3. /\ \A g \in Generations, s \in Watched :
               watch'[g][s] = IF g = watchGen THEN "loop" ELSE watch[g][s]
          /\ listed' \subseteq {watchGen'} /\ watchGen \in listed'
      BY <1>0, <2>1, <3>1 DEF WatchesListed
    <3>4. ASSUME NEW g \in Generations, NEW s \in Watched
          PROVE  /\ g > watchGen' => watch'[g][s] = "none"
                 /\ watch'[g][s] \in {"loop", "open", "replay", "live", "stop"} => g \in listed'
                 /\ g = watchGen' /\ g \notin listed' /\ watch'[g][s] \in {"cancelled", "sleep"} =>
                      watch'[g][s] = "cancelled" /\ Retiring(g)'
      <4>1. CASE g = watchGen
        BY <2>1, <3>2, <3>3, <4>1
      <4>2. CASE g # watchGen
        BY <2>1, <3>1, <3>3, <4>2 DEF WatchesListed
      <4> QED BY <4>1, <4>2
    <3>5. ASSUME NEW u \in Tasks, pc'[u] = "gather"
          PROVE  /\ mine'[u] \in 1 .. watchGen'
                 /\ mine'[u] = watchGen' => \A s \in Watched : watch'[watchGen'][s] = "none"
                 /\ \A v \in Tasks : pc'[v] = "gather" /\ mine'[v] = mine'[u] => v = u
      <4>1. u # t /\ pc[u] = "gather" /\ mine[u] # watchGen
        BY <2>1, <2>2, <2>6, <3>5 DEF WatchesListed
      <4> QED BY <2>1, <2>2, <4>1 DEF WatchesListed
    <3> QED BY <3>3, <3>4, <3>5 DEF WatchesListed
  <2> QED BY <2>5, <2>6
<1>6. ASSUME NEW s \in Stores, StoreStep(s) \/ CreateFails(s) PROVE WatchesListed'
  <2>1. /\ UNCHANGED <<calls, awaited, mine, listed, watchGen>>
        /\ TaskMoves /\ WatchMoves(s)
    BY <1>6, StoreFacts
  <2>2. pc'["close"] = pc["close"] /\ \A t \in Tasks : pc'[t] = "gather" => pc[t] = "gather"
    BY <1>0, <2>1 DEF TaskMoves
  <2>3. CASE watch' = watch
    BY <2>1, <2>2, <2>3, QuietKept DEF QuietStep
  <2>4. ASSUME NEW g \in Generations, NEW x \in {"replay", "sleep", "done"},
               s \in Watched, watch[g][s] = "open", watch' = [watch EXCEPT ![g][s] = x]
        PROVE  WatchesListed'
    <3>1. g \in listed /\ x \in WatchStates \ {"none", "cancelled"}
      BY <2>4 DEF WatchesListed, WatchStates
    <3> QED BY <2>1, <2>2, <2>4, <3>1, WatchMoved
  <2> QED BY <2>1, <2>3, <2>4 DEF WatchMoves
<1>7. ASSUME NEW g \in Generations, NEW s \in Watched, WatchStep(g, s) \/ WatchFails(g, s)
      PROVE  WatchesListed'
  <2>1. UNCHANGED <<link, calls, pc, mine, awaited, listed, watchGen>>
    BY <1>7 DEF WatchStep, RunWatch, Replayed, Stopped, WatchFails, inits
  <2> DEFINE Moves(x) ==
          /\ x \in {"open", "done", "live", "stop", "sleep"}
          /\ watch' = [watch EXCEPT ![g][s] = x] /\ watch[g][s] # "none"
          /\ x \in Active =>
               watch[g][s] \in Active \/ (watch[g][s] = "sleep" /\ g = watchGen)
          /\ x = "sleep" => watch[g][s] \in Active \/ (watch[g][s] = "cancelled" /\ Connected)
  <2>2. PICK x : Moves(x)
    <3>1. CASE RunWatch(g, s)
      <4>1. Moves("open") \/ Moves("done")
        BY <3>1 DEF RunWatch, Active, Current
      <4> QED BY <4>1
    <3>2. CASE Replayed(g, s)
      <4>1. Moves("live")
        BY <3>2 DEF Replayed, Active
      <4> QED BY <4>1
    <3>3. CASE Stopped(g, s)
      <4>1. Moves("sleep") \/ Moves("done")
        BY <3>3 DEF Stopped, Active
      <4> QED BY <4>1
    <3>4. CASE WatchFails(g, s)
      <4>1. Moves("stop")
        BY <3>4 DEF WatchFails, Active
      <4> QED BY <4>1
    <3> QED BY <1>7, <3>1, <3>2, <3>3, <3>4 DEF WatchStep
  <2>3. watch[g][s] \in Active => g \in listed
    BY DEF WatchesListed, Active
  <2>4. watch[g][s] = "sleep" /\ g = watchGen => g \in listed
    BY DEF WatchesListed
  <2>5. watch[g][s] = "cancelled" /\ Connected /\ g = watchGen => g \in listed
    <3> SUFFICES ASSUME watch[g][s] = "cancelled", Connected, g = watchGen, g \notin listed
                 PROVE  FALSE
      OBVIOUS
    <3>1. Retiring(g)
      BY DEF WatchesListed
    <3>2. calls # <<>> => 1 \in DOMAIN calls /\ Head(calls) = calls[1]
      BY <1>0
    <3> QED BY <3>1, <3>2 DEF Retiring, CallsInOrder, Connected
  <2>6. x \in WatchStates \ {"none", "cancelled"}
    BY <2>2 DEF WatchStates
  <2> QED BY <2>1, <2>2, <2>3, <2>4, <2>5, <2>6, WatchMoved
<1>8. CASE Reconnect
  <2>1. UNCHANGED <<pc, mine, awaited, watch, listed, watchGen>> /\ calls = <<>>
    BY <1>8 DEF Reconnect, inits, watches
  <2>2. \A g \in Generations : Retiring(g) => Retiring(g)'
    BY <2>1 DEF Retiring
  <2> QED BY <2>1, <2>2, WatchesKept
<1>9. CASE OnDisconnected
  <2>1. /\ UNCHANGED <<mine, watchGen>> /\ pc' = [pc EXCEPT !["resync"] = "off"]
        /\ Head(calls) = "disconnected" /\ calls' = <<"resetting">> \o Tail(calls)
        /\ calls # <<>> /\ CancelWatches("callback")
    BY <1>9 DEF OnDisconnected, inits
  <2>2. pc'["close"] = pc["close"] /\ \A t \in Tasks : pc'[t] = "gather" => pc[t] = "gather"
    BY <1>0, <2>1
  <2>3. calls' # <<>> /\ Head(calls') = "resetting"
    BY <1>0, <2>1
  <2>4. awaited'["callback"] = listed
    BY <2>1, CancelWatchesFacts
  <2>5. \A g \in Generations : g \in listed \/ Retiring(g) => Retiring(g)'
    BY <2>1, <2>2, <2>3, <2>4 DEF Retiring
  <2> QED BY <2>1, <2>2, <2>5, WatchesCancelled
<1>10. CASE OnReset
  <2>1. UNCHANGED <<pc, mine, watch, listed, watchGen>> /\ Gathered("callback")
    BY <1>10 DEF OnReset, inits
  <2>2. \A g \in Generations : Retiring(g) =>
          Retiring(g)' \/ \A s \in Watched : watch[g][s] \in {"none", "done"}
    BY <2>1 DEF Retiring, Gathered
  <2> QED BY <2>1, <2>2, WatchesKept
<1>11. CASE OnReconnected
  <2>1. /\ UNCHANGED <<mine, awaited, watch, listed, watchGen>> /\ Head(calls) = "reconnected"
        /\ pc' = [pc EXCEPT !["resync"] = "init"]
    BY <1>11 DEF OnReconnected, inits, watches
  <2>2. pc'["close"] = pc["close"] /\ \A t \in Tasks : pc'[t] = "gather" => pc[t] = "gather"
    BY <1>0, <2>1
  <2>3. \A g \in Generations : Retiring(g) => Retiring(g)'
    BY <2>1, <2>2 DEF Retiring
  <2> QED BY <2>1, <2>2, <2>3, WatchesKept
<1>12. CASE Close
  <2>1. /\ UNCHANGED <<mine, watchGen>> /\ CancelWatches("close")
        /\ pc' = [start |-> "off", resync |-> "off", close |-> "gather"]
    BY <1>12 DEF Close, inits
  <2>2. pc'["close"] = "gather" /\ \A t \in Tasks : pc'[t] = "off"
    BY <2>1 DEF Tasks
  <2>3. \A g \in Generations : Retiring(g)'
    BY <2>2 DEF Retiring
  <2> QED BY <2>1, <2>2, <2>3, WatchesCancelled
<1>13. CASE Closed
  <2>1. /\ UNCHANGED <<calls, mine, watch, listed, watchGen>> /\ pc["close"] = "gather"
        /\ pc' = [pc EXCEPT !["close"] = "closed"]
    BY <1>13 DEF Closed, inits
  <2>2. pc'["close"] = "closed" /\ \A t \in Tasks : pc'[t] = pc[t]
    BY <1>0, <2>1
  <2>3. \A g \in Generations : Retiring(g)'
    BY <2>2 DEF Retiring
  <2> QED BY <2>1, <2>2, <2>3, WatchesKept
<1> QED BY <1>1, <1>2, <1>3, <1>4, <1>5, <1>6, <1>7, <1>8, <1>9, <1>10, <1>11, <1>12, <1>13
        DEF Next, InitStep, Callback

-----------------------------------------------------------------------------
(* Handles and marks *)

LEMMA HandlesStep ==
  ASSUME TypeOK, LocksHeld, HandlesCurrent, Next
  PROVE  HandlesCurrent'
<1>0. js \in [Stores -> Nat] /\ kv \in [Stores -> Nat]
  BY DEF TypeOK
<1>1. ASSUME UNCHANGED <<kv, epoch>> PROVE HandlesCurrent'
  BY <1>1 DEF HandlesCurrent
<1>2. ASSUME NEW s \in Stores, StoreStep(s) PROVE HandlesCurrent'
  <2>1. CASE Open(s)
    <3>1. epoch' = epoch /\ (kv' = kv \/ kv' = [kv EXCEPT ![s] = 0])
      BY <2>1 DEF Open
    <3>2. \A r \in Stores : kv'[r] = kv[r] \/ kv'[r] = 0
      BY <1>0, <3>1
    <3> QED BY <3>1, <3>2 DEF HandlesCurrent
  <2>2. CASE Create(s)
    <3>1. CASE StillMine(s)
      <4>1. epoch' = epoch /\ kv' = [kv EXCEPT ![s] = creating[s][2]]
        BY <2>2, <3>1 DEF Create
      <4>2. creating[s][2] = epoch
        BY <2>2, <3>1 DEF Create, StillMine, LocksHeld
      <4>3. \A r \in Stores : kv'[r] = kv[r] \/ kv'[r] = epoch
        BY <1>0, <4>1, <4>2
      <4> QED BY <4>1, <4>3 DEF HandlesCurrent
    <3>2. CASE ~StillMine(s)
      BY <1>1, <2>2, <3>2 DEF Create
    <3> QED BY <3>1, <3>2
  <2> QED BY <1>2, <2>1, <2>2 DEF StoreStep
<1>3. CASE OnReset \/ Closed
  <2>1. kv' = [s \in Stores |-> 0]
    BY <1>3 DEF OnReset, Closed, ResetStores
  <2> QED BY <2>1 DEF HandlesCurrent
<1>4. CASE StartStep \/ SubscribeFails \/ Drop \/ OnDisconnected \/ OnReconnected \/ Reconnect
             \/ Close
  BY <1>1, <1>4 DEF StartStep, Connect, Subscribe, LeaveConnection, SubscribeFails, Drop,
                    OnDisconnected, OnReconnected, Reconnect, Close, buckets
<1>5. ASSUME NEW t \in Tasks, InitStep(t) PROVE HandlesCurrent'
  BY <1>1, <1>5 DEF InitStep, InitStores, RetryStores, StartWatches, LaunchWatches, buckets
<1>6. ASSUME NEW s \in Stores, CreateFails(s) PROVE HandlesCurrent'
  BY <1>1, <1>6 DEF CreateFails
<1>7. ASSUME NEW g \in Generations, NEW s \in Watched, WatchStep(g, s) \/ WatchFails(g, s)
      PROVE  HandlesCurrent'
  BY <1>1, <1>7 DEF WatchStep, RunWatch, Replayed, Stopped, WatchFails, buckets
<1> QED BY <1>2, <1>3, <1>4, <1>5, <1>6, <1>7 DEF Next, Callback

LEMMA SyncedStep ==
  ASSUME TypeOK, LocksHeld, GenerationsLeft, WatchesListed, SyncedExactly, Next
  PROVE  SyncedExactly'
<1>0. /\ watch \in [Generations -> [Watched -> WatchStates]] /\ synced \subseteq Watched
      /\ watchGen \in Nat /\ Generations \subseteq Nat /\ 0 \notin Generations
      /\ watchGen # 0 => watchGen \in Generations
  <2>1. Generations \subseteq Nat /\ 0 \notin Generations
    BY ConstantFacts DEF Generations, Constants
  <2>2. watchGen \in Nat /\ (watchGen # 0 => watchGen \in Generations)
    BY GenerationFacts
  <2> QED BY <2>1, <2>2 DEF TypeOK
<1>1. ASSUME watchGen' = watchGen,
             \A s \in Watched : watchGen # 0 =>
               /\ s \in synced' => watch'[watchGen][s] \in {"live", "stop", "cancelled"}
               /\ watch'[watchGen][s] = "live" => s \in synced'
      PROVE  SyncedExactly'
  BY <1>1 DEF SyncedExactly
<1>2. ASSUME UNCHANGED <<watch, synced, watchGen>> PROVE SyncedExactly'
  BY <1>2 DEF SyncedExactly
<1>3. ASSUME NEW who \in Tasks \union {"callback", "close"}, CancelWatches(who),
             synced' = synced \ Interrupted, watchGen' = watchGen
      PROVE  SyncedExactly'
  <2> SUFFICES ASSUME NEW s \in Watched, watchGen # 0
               PROVE  /\ s \in synced' => watch'[watchGen][s] \in {"live", "stop", "cancelled"}
                      /\ watch'[watchGen][s] = "live" => s \in synced'
    BY <1>1, <1>3
  <2>1. /\ s \in synced => watch[watchGen][s] \in {"live", "stop", "cancelled"}
        /\ watch[watchGen][s] = "live" => s \in synced
    BY DEF SyncedExactly
  <2>2. watchGen \in Generations
          /\ watch'[watchGen][s] = IF watchGen \in listed THEN Cancelled(watch[watchGen][s])
                                                          ELSE watch[watchGen][s]
    BY <1>0, <1>3, CancelWatchesFacts
  <2>3. Interrupted = IF watchGen \in listed THEN {r \in Watched : watch[watchGen][r] = "stop"}
                                             ELSE {}
    BY <2>2 DEF Interrupted, Discarded
  <2>4. CASE watchGen \in listed
    <3>1. watch[watchGen][s] = "stop" => s \notin synced'
      BY <1>3, <2>3, <2>4
    <3>2. watch'[watchGen][s] # "live"
      BY <2>2, <2>4 DEF Cancelled
    <3>3. watch[watchGen][s] \in {"live", "cancelled"} => watch'[watchGen][s] = "cancelled"
      BY <2>2, <2>4 DEF Cancelled
    <3> QED BY <1>3, <2>1, <3>1, <3>2, <3>3
  <2>5. CASE watchGen \notin listed
    BY <1>3, <2>1, <2>2, <2>3, <2>5
  <2> QED BY <2>4, <2>5
<1>4. CASE OnDisconnected
  BY <1>3, <1>4 DEF OnDisconnected
<1>5. CASE Close
  BY <1>3, <1>5 DEF Close
<1>6. ASSUME NEW t \in Tasks, StartWatches(t) PROVE SyncedExactly'
  <2>1. watchGen' = watchGen + 1 /\ synced' = {} /\ CancelWatches(t) /\ pc[t] = "watches"
    BY <1>6 DEF StartWatches
  <2>2. watchGen + 1 \in Generations /\ watchGen + 1 > watchGen
    BY <1>0, <2>1, GenerationFacts
  <2>3. ASSUME NEW s \in Watched PROVE watch'[watchGen + 1][s] = "none"
    <3>1. watch[watchGen + 1][s] = "none"
      BY <2>2 DEF WatchesListed
    <3> QED BY <2>1, <2>2, <3>1, CancelWatchesFacts DEF Cancelled
  <2> QED BY <2>1, <2>3 DEF SyncedExactly
<1>7. ASSUME NEW t \in Tasks, LaunchWatches(t) PROVE SyncedExactly'
  <2>1. UNCHANGED <<synced, watchGen>> /\ pc[t] = "gather"
    BY <1>7 DEF LaunchWatches
  <2>2. CASE watchGen # mine[t]
    BY <1>2, <1>7, <2>1, <2>2 DEF LaunchWatches
  <2>3. CASE watchGen = mine[t]
    <3>0. mine[t] \in 1 .. watchGen
            /\ (mine[t] = watchGen => \A s \in Watched : watch[watchGen][s] = "none")
      BY <2>1 DEF WatchesListed
    <3>1. watchGen \in Generations /\ \A s \in Watched : watch[watchGen][s] = "none"
      BY <1>0, <2>3, <3>0
    <3>2. \A s \in Watched : s \notin synced
      BY <1>0, <3>1 DEF SyncedExactly
    <3>3. \A s \in Watched : watch'[watchGen][s] = "loop"
      BY <1>0, <1>7, <2>3, <3>1 DEF LaunchWatches
    <3> QED BY <1>1, <2>1, <3>2, <3>3
  <2> QED BY <2>2, <2>3
<1>8. ASSUME NEW g \in Generations, NEW s \in Watched, NEW x \in WatchStates,
             watchGen' = watchGen, watch' = [watch EXCEPT ![g][s] = x],
             g # watchGen => synced' = synced,
             g = watchGen => \A r \in Watched \ {s} : r \in synced' <=> r \in synced,
             g = watchGen /\ s \in synced' => x \in {"live", "stop", "cancelled"},
             g = watchGen /\ x = "live" => s \in synced'
      PROVE  SyncedExactly'
  <2>1. \A h \in Generations, r \in Watched :
          watch'[h][r] = IF h = g /\ r = s THEN x ELSE watch[h][r]
    BY <1>0, <1>8
  <2> SUFFICES ASSUME NEW r \in Watched, watchGen # 0
               PROVE  /\ r \in synced' => watch'[watchGen][r] \in {"live", "stop", "cancelled"}
                      /\ watch'[watchGen][r] = "live" => r \in synced'
    BY <1>1, <1>8
  <2>2. /\ r \in synced => watch[watchGen][r] \in {"live", "stop", "cancelled"}
        /\ watch[watchGen][r] = "live" => r \in synced
    BY DEF SyncedExactly
  <2> QED BY <1>0, <1>8, <2>1, <2>2
<1>9. ASSUME NEW s \in Stores, StoreStep(s) \/ CreateFails(s) PROVE SyncedExactly'
  <2>1. UNCHANGED <<synced, watchGen>> /\ WatchMoves(s)
    BY <1>9, StoreFacts
  <2>2. ASSUME NEW g \in Generations, NEW x \in {"replay", "sleep", "done"},
               s \in Watched, watch[g][s] = "open", watch' = [watch EXCEPT ![g][s] = x]
        PROVE  SyncedExactly'
    <3>1. g = watchGen => s \notin synced
      BY <1>0, <2>2 DEF SyncedExactly
    <3>2. x \in WatchStates /\ x # "live"
      BY DEF WatchStates
    <3> QED BY <1>8, <2>1, <2>2, <3>1, <3>2
  <2> QED BY <1>2, <2>1, <2>2 DEF WatchMoves
<1>10. ASSUME NEW g \in Generations, NEW s \in Watched, WatchStep(g, s) \/ WatchFails(g, s)
       PROVE  SyncedExactly'
  <2>0. watchGen' = watchGen
    BY <1>10 DEF WatchStep, RunWatch, Replayed, Stopped, WatchFails
  <2>1. CASE RunWatch(g, s)
    <3>1. g = watchGen => s \notin synced
      BY <1>0, <2>1 DEF RunWatch, SyncedExactly
    <3>2. UNCHANGED synced /\ \E x \in {"open", "done"} : watch' = [watch EXCEPT ![g][s] = x]
      BY <2>1 DEF RunWatch
    <3>3. {"open", "done"} \subseteq WatchStates
      BY DEF WatchStates
    <3> QED BY <1>8, <2>0, <3>1, <3>2, <3>3
  <2>2. CASE Replayed(g, s)
    <3>1. /\ watch' = [watch EXCEPT ![g][s] = "live"] /\ "live" \in WatchStates
          /\ synced' = IF g = watchGen THEN synced \union {s} ELSE synced
      BY <2>2 DEF Replayed, WatchStates
    <3> QED BY <1>8, <2>0, <3>1
  <2>3. CASE Stopped(g, s)
    <3>1. /\ synced' = IF g = watchGen THEN synced \ {s} ELSE synced
      BY <2>3 DEF Stopped, Discarded
    <3>2. \E x \in {"sleep", "done"} : watch' = [watch EXCEPT ![g][s] = x]
      BY <2>3 DEF Stopped
    <3>3. {"sleep", "done"} \subseteq WatchStates
      BY DEF WatchStates
    <3> QED BY <1>8, <2>0, <3>1, <3>2, <3>3
  <2>4. CASE WatchFails(g, s)
    <3>1. UNCHANGED synced /\ watch' = [watch EXCEPT ![g][s] = "stop"] /\ "stop" \in WatchStates
      BY <2>4 DEF WatchFails, WatchStates
    <3> QED BY <1>8, <2>0, <3>1
  <2> QED BY <1>10, <2>1, <2>2, <2>3, <2>4 DEF WatchStep
<1>11. CASE StartStep \/ SubscribeFails \/ Drop \/ OnReset \/ OnReconnected \/ Reconnect \/ Closed
  BY <1>2, <1>11 DEF StartStep, Connect, Subscribe, LeaveConnection, SubscribeFails, Drop,
                     OnReset, OnReconnected, Reconnect, Closed, watches
<1>12. ASSUME NEW t \in Tasks, InitStores(t) \/ RetryStores(t) PROVE SyncedExactly'
  BY <1>2, <1>12 DEF InitStores, RetryStores, watches
<1> QED BY <1>4, <1>5, <1>6, <1>7, <1>9, <1>10, <1>11, <1>12 DEF Next, InitStep, Callback

-----------------------------------------------------------------------------
(* Types, and the invariant *)

LEMMA QueuedType ==
  ASSUME TypeOK, NEW s \in Stores, NEW id \in Lockers, queue' = [queue EXCEPT ![s] = Append(@, id)]
  PROVE  queue' \in [Stores -> Seq(Lockers)]
<1>1. queue \in [Stores -> Seq(Lockers)] /\ queue[s] \in Seq(Lockers)
  BY DEF TypeOK
<1>2. Append(queue[s], id) \in Seq(Lockers)
  BY <1>1
<1> QED BY <1>1, <1>2

\* The types of what the connection and its callbacks, the stores, the opening tasks and the
\* watches keep.
LinkTypes == link \in {"none", "up", "lost", "closed"}
               /\ calls \in Seq({"disconnected", "resetting", "reconnected"})
BucketTypes ==
  /\ js \in [Stores -> Nat] /\ kv \in [Stores -> Nat]
  /\ queue \in [Stores -> Seq(Lockers)] /\ creating \in [Stores -> Nat \X Nat]
  /\ epoch \in Nat
InitTypes ==
  /\ storeGen \in Nat /\ pc \in [Tasks \union {"close"} -> Places]
  /\ mine \in [Tasks -> Nat] /\ at \in [Tasks -> Stores]
WatchTypes ==
  /\ watchGen \in Nat /\ watch \in [Generations -> [Watched -> WatchStates]]
  /\ listed \subseteq Generations
  /\ awaited \in [Tasks \union {"callback", "close"} -> SUBSET Generations]
  /\ synced \subseteq Watched
CountTypes == drops \in 0..MaxDrops /\ faults \in 0..MaxFaults

LEMMA TypeParts ==
  TypeOK <=> LinkTypes /\ BucketTypes /\ InitTypes /\ WatchTypes /\ CountTypes
BY DEF TypeOK, LinkTypes, BucketTypes, InitTypes, WatchTypes, CountTypes

LEMMA PartsKept ==
  /\ LinkTypes /\ UNCHANGED <<link, calls>> => LinkTypes'
  /\ BucketTypes /\ UNCHANGED buckets => BucketTypes'
  /\ InitTypes /\ UNCHANGED <<pc, inits>> => InitTypes'
  /\ WatchTypes /\ UNCHANGED watches => WatchTypes'
  /\ CountTypes /\ UNCHANGED counts => CountTypes'
<1>1. LinkTypes /\ UNCHANGED <<link, calls>> => LinkTypes'
  BY DEF LinkTypes
<1>2. BucketTypes /\ UNCHANGED buckets => BucketTypes'
  BY DEF BucketTypes, buckets
<1>3. InitTypes /\ UNCHANGED <<pc, inits>> => InitTypes'
  BY DEF InitTypes, inits
<1>4. WatchTypes /\ UNCHANGED watches => WatchTypes'
  BY DEF WatchTypes, watches
<1>5. CountTypes /\ UNCHANGED counts => CountTypes'
  BY DEF CountTypes, counts
<1> QED BY <1>1, <1>2, <1>3, <1>4, <1>5

LEMMA TypeStep ==
  ASSUME TypeOK, LocksHeld, GenerationsLeft, WatchesListed, Next
  PROVE  TypeOK'
<1>0. LinkTypes /\ BucketTypes /\ InitTypes /\ WatchTypes /\ CountTypes
  BY TypeParts
<1>1. "start" \in Tasks /\ "resync" \in Tasks /\ "close" \notin Tasks /\ "callback" \notin Tasks
  BY DEF Tasks
<1>2. ASSUME NEW t \in Tasks \union {"close"}, NEW x \in Places, pc' = [pc EXCEPT ![t] = x],
             UNCHANGED inits
      PROVE  InitTypes'
  BY <1>0, <1>2 DEF InitTypes, inits
<1>3. Fault => faults' \in 0..MaxFaults
  BY <1>0, ConstantFacts DEF Fault, CountTypes, Constants
<1>4. LinkTypes' /\ BucketTypes' /\ InitTypes' /\ WatchTypes' /\ CountTypes' => TypeOK'
  BY DEF TypeOK, LinkTypes, BucketTypes, InitTypes, WatchTypes, CountTypes
<1>5. calls' = Append(calls, "disconnected") =>
        calls' \in Seq({"disconnected", "resetting", "reconnected"})
  BY <1>0 DEF LinkTypes
<1>6. CASE StartStep
  <2>1. UNCHANGED <<calls, buckets, inits, watches, counts>> /\ link' \in {link, "up", "none"}
    BY <1>6 DEF StartStep, Connect, Subscribe, LeaveConnection
  <2>2. LinkTypes'
    BY <1>0, <2>1 DEF LinkTypes
  <2>3. \E x \in Places : pc' = [pc EXCEPT !["start"] = x]
    BY <1>6 DEF StartStep, Connect, Subscribe, LeaveConnection, Places
  <2>4. InitTypes'
    BY <1>1, <1>2, <2>1, <2>3
  <2> QED BY <1>0, <1>4, <2>1, <2>2, <2>4, PartsKept
<1>7. CASE SubscribeFails
  <2>1. /\ UNCHANGED <<buckets, inits, watches, drops>> /\ link' = "closed" /\ Fault
        /\ pc' = [pc EXCEPT !["start"] = "leaving"] /\ calls' = Append(calls, "disconnected")
    BY <1>7 DEF SubscribeFails
  <2>2. LinkTypes'
    BY <1>5, <2>1 DEF LinkTypes
  <2>3. CountTypes'
    BY <1>0, <1>3, <2>1 DEF CountTypes
  <2>4. InitTypes'
    BY <1>1, <1>2, <2>1 DEF Places
  <2> QED BY <1>0, <1>4, <2>1, <2>2, <2>3, <2>4, PartsKept
<1>8. ASSUME NEW t \in Tasks, InitStores(t) \/ RetryStores(t) PROVE TypeOK'
  <2>1. /\ UNCHANGED <<link, calls, js, kv, creating, epoch, watches, counts>>
        /\ queue' = queue \/ queue' = [queue EXCEPT ![1] = Append(@, Opener(t))]
        /\ at' = at \/ at' = [at EXCEPT ![t] = 1]
        /\ mine' = mine \/ mine' = [mine EXCEPT ![t] = storeGen + 1]
        /\ storeGen' \in {storeGen, storeGen + 1}
        /\ \E x \in Places : pc' = [pc EXCEPT ![t] = x]
    BY <1>8 DEF InitStores, RetryStores, Places, AfterInit
  <2>2. 1 \in Stores /\ Opener(t) \in Lockers
    BY ConstantFacts, LockerFacts DEF Constants
  <2>3. queue' \in [Stores -> Seq(Lockers)]
    BY <1>0, <2>1, <2>2, QueuedType DEF BucketTypes
  <2>4. BucketTypes'
    BY <1>0, <2>1, <2>3 DEF BucketTypes
  <2>5. /\ storeGen' \in Nat /\ storeGen + 1 \in Nat
        /\ pc' \in [Tasks \union {"close"} -> Places]
    BY <1>0, <2>1 DEF InitTypes
  <2>6. mine' \in [Tasks -> Nat] /\ at' \in [Tasks -> Stores]
    BY <1>0, <2>1, <2>2, <2>5 DEF InitTypes
  <2>7. InitTypes'
    BY <2>5, <2>6 DEF InitTypes
  <2> QED BY <1>0, <1>4, <2>1, <2>4, <2>7, PartsKept
<1>9. ASSUME NEW who \in Tasks \union {"callback", "close"}, CancelWatches(who), NEW ids,
             LeaveLocks(ids), synced' \subseteq synced, watchGen' \in {watchGen, watchGen + 1},
             UNCHANGED <<js, kv, epoch>>
      PROVE  WatchTypes' /\ BucketTypes'
  <2>1. WatchTypes'
    BY <1>0, <1>9, CancelWatchesFacts DEF WatchTypes
  <2>2. BucketTypes'
    BY <1>0, <1>9, LeaveLocksFacts DEF BucketTypes
  <2> QED BY <2>1, <2>2
<1>10. ASSUME NEW t \in Tasks, StartWatches(t) PROVE TypeOK'
  <2>1. /\ UNCHANGED <<link, calls, js, kv, epoch, at, storeGen, counts>>
        /\ CancelWatches(t) /\ LeaveLocks({Watcher(g) : g \in listed})
        /\ synced' = {} /\ watchGen' = watchGen + 1
        /\ mine' = [mine EXCEPT ![t] = watchGen + 1] /\ pc' = [pc EXCEPT ![t] = "gather"]
    BY <1>10 DEF StartWatches
  <2>2. WatchTypes' /\ BucketTypes'
    BY <1>9, <2>1
  <2>3. watchGen + 1 \in Nat /\ "gather" \in Places
    BY <1>0 DEF WatchTypes, Places
  <2>4. InitTypes'
    BY <1>0, <2>1, <2>3 DEF InitTypes
  <2> QED BY <1>0, <1>4, <2>1, <2>2, <2>4, PartsKept
<1>11. ASSUME NEW t \in Tasks, LaunchWatches(t) PROVE TypeOK'
  <2>1. /\ UNCHANGED <<link, calls, buckets, inits, synced, watchGen, counts>>
        /\ pc[t] = "gather" /\ pc' = [pc EXCEPT ![t] = "off"]
        /\ awaited' = [awaited EXCEPT ![t] = {}]
        /\ \/ UNCHANGED <<watch, listed>>
           \/ /\ watchGen = mine[t]
              /\ watch' = [watch EXCEPT ![watchGen] = [s \in Watched |-> "loop"]]
              /\ listed' = listed \union {watchGen}
    BY <1>11 DEF LaunchWatches
  <2>2. mine[t] \in 1 .. watchGen
    BY <2>1 DEF WatchesListed
  <2>3. watchGen = mine[t] => watchGen \in Generations
    BY <1>0, <2>2, GenerationFacts DEF WatchTypes
  <2>4. [s \in Watched |-> "loop"] \in [Watched -> WatchStates]
    BY DEF WatchStates
  <2>5. WatchTypes'
    BY <1>0, <2>1, <2>3, <2>4 DEF WatchTypes
  <2>6. InitTypes'
    BY <1>2, <2>1 DEF Places
  <2> QED BY <1>0, <1>4, <2>1, <2>5, <2>6, PartsKept
<1>12. ASSUME NEW s \in Stores, StoreStep(s) \/ CreateFails(s) PROVE TypeOK'
  <2>1. /\ UNCHANGED <<link, calls, epoch, mine, storeGen, listed, awaited, synced, watchGen,
                       drops>>
        /\ queue' \in [Stores -> Seq(Lockers)] /\ at' \in [Tasks -> Stores]
        /\ creating' \in [Stores -> Nat \X Nat] /\ js' \in [Stores -> Nat]
        /\ TaskMoves /\ WatchMoves(s)
    BY <1>12, StoreFacts
  <2>2. faults' = faults \/ Fault
    BY <1>12 DEF StoreStep, Open, Create, CreateFails, counts
  <2>3. CountTypes'
    BY <1>0, <1>3, <2>1, <2>2 DEF CountTypes
  <2>4. \E x \in Nat : kv' = kv \/ kv' = [kv EXCEPT ![s] = x]
    <3>1. creating[s][2] \in Nat
      BY <1>0 DEF BucketTypes
    <3>2. kv' = kv \/ kv' = [kv EXCEPT ![s] = 0] \/ kv' = [kv EXCEPT ![s] = creating[s][2]]
      BY <1>12 DEF StoreStep, Open, Create, CreateFails
    <3> QED BY <3>1, <3>2
  <2>5. kv' \in [Stores -> Nat]
    BY <1>0, <2>4 DEF BucketTypes
  <2>6. BucketTypes'
    BY <1>0, <2>1, <2>5 DEF BucketTypes
  <2>7. pc' \in [Tasks \union {"close"} -> Places]
    <3>1. {"sleep", "subscribe", "watches"} \subseteq Places
      BY DEF Places
    <3>2. pc \in [Tasks \union {"close"} -> Places]
      BY <1>0 DEF InitTypes
    <3>3. ASSUME NEW t \in Tasks, NEW x \in {"sleep", "subscribe", "watches"},
                 pc' = [pc EXCEPT ![t] = x]
          PROVE  pc' \in [Tasks \union {"close"} -> Places]
      BY <3>1, <3>2, <3>3
    <3> QED BY <2>1, <3>2, <3>3 DEF TaskMoves
  <2>8. InitTypes'
    BY <1>0, <2>1, <2>7 DEF InitTypes
  <2>9. watch' \in [Generations -> [Watched -> WatchStates]]
    <3>1. {"replay", "sleep", "done"} \subseteq WatchStates
      BY DEF WatchStates
    <3>2. watch \in [Generations -> [Watched -> WatchStates]]
      BY <1>0 DEF WatchTypes
    <3>3. ASSUME NEW g \in Generations, NEW x \in {"replay", "sleep", "done"}, s \in Watched,
                 watch' = [watch EXCEPT ![g][s] = x]
          PROVE  watch' \in [Generations -> [Watched -> WatchStates]]
      BY <3>1, <3>2, <3>3
    <3> QED BY <2>1, <3>2, <3>3 DEF WatchMoves
  <2>10. WatchTypes'
    BY <1>0, <2>1, <2>9 DEF WatchTypes
  <2> QED BY <1>0, <1>4, <2>1, <2>3, <2>6, <2>8, <2>10, PartsKept
<1>13. ASSUME NEW g \in Generations, NEW s \in Watched, WatchStep(g, s) \/ WatchFails(g, s)
       PROVE  TypeOK'
  <2>1. /\ UNCHANGED <<link, calls, js, kv, creating, epoch, pc, inits, listed, awaited, watchGen,
                       drops>>
        /\ synced' \subseteq synced \union {s}
        /\ queue' = queue \/ queue' = [queue EXCEPT ![s] = Append(@, Watcher(g))]
        /\ faults' = faults \/ Fault
    BY <1>13 DEF WatchStep, RunWatch, Replayed, Stopped, WatchFails, buckets, counts
  <2>2. \E x \in {"open", "done", "live", "sleep", "stop"} : watch' = [watch EXCEPT ![g][s] = x]
    BY <1>13 DEF WatchStep, RunWatch, Replayed, Stopped, WatchFails
  <2>3. {"open", "done", "live", "sleep", "stop"} \subseteq WatchStates
    BY DEF WatchStates
  <2>4. s \in Stores /\ Watcher(g) \in Lockers
    BY ConstantFacts, LockerFacts DEF Constants
  <2>5. BucketTypes'
    BY <1>0, <2>1, <2>4, QueuedType DEF BucketTypes
  <2>6. watch' \in [Generations -> [Watched -> WatchStates]]
    BY <1>0, <2>2, <2>3 DEF WatchTypes
  <2>7. WatchTypes'
    BY <1>0, <2>1, <2>6 DEF WatchTypes
  <2>8. CountTypes'
    BY <1>0, <1>3, <2>1 DEF CountTypes
  <2> QED BY <1>0, <1>4, <2>1, <2>5, <2>7, <2>8, PartsKept
<1>14. CASE Drop
  <2>1. /\ UNCHANGED <<buckets, pc, inits, watches, faults>> /\ link' = "lost"
        /\ calls' = Append(calls, "disconnected") /\ drops < MaxDrops /\ drops' = drops + 1
    BY <1>14 DEF Drop
  <2>2. LinkTypes'
    BY <1>5, <2>1 DEF LinkTypes
  <2>3. CountTypes'
    BY <1>0, <2>1, ConstantFacts DEF CountTypes, Constants
  <2> QED BY <1>0, <1>4, <2>1, <2>2, <2>3, PartsKept
<1>15. CASE Reconnect
  <2>1. UNCHANGED <<buckets, pc, inits, watches, counts>>
    BY <1>15 DEF Reconnect
  <2>2. link' = "up" /\ calls' = <<"reconnected">>
    BY <1>15 DEF Reconnect
  <2>3. LinkTypes'
    BY <2>2 DEF LinkTypes
  <2> QED BY <1>0, <1>4, <2>1, <2>3, PartsKept
<1>16. CASE OnDisconnected
  <2>1. /\ UNCHANGED <<link, js, kv, epoch, inits, watchGen, counts>>
        /\ CancelWatches("callback")
        /\ LeaveLocks({Opener("resync")} \union {Watcher(g) : g \in listed})
        /\ synced' = synced \ Interrupted /\ calls # <<>>
        /\ calls' = <<"resetting">> \o Tail(calls) /\ pc' = [pc EXCEPT !["resync"] = "off"]
    BY <1>16 DEF OnDisconnected
  <2>2. WatchTypes' /\ BucketTypes'
    BY <1>9, <2>1
  <2>3. LinkTypes'
    BY <1>0, <2>1 DEF LinkTypes
  <2>4. InitTypes'
    BY <1>1, <1>2, <2>1 DEF Places
  <2> QED BY <1>0, <1>4, <2>1, <2>2, <2>3, <2>4, PartsKept
<1>17. CASE OnReset
  <2>1. /\ UNCHANGED <<link, queue, creating, pc, inits, watch, listed, synced, watchGen, counts>>
        /\ calls # <<>> /\ calls' = Tail(calls)
        /\ awaited' = [awaited EXCEPT !["callback"] = {}] /\ ResetStores
    BY <1>17 DEF OnReset
  <2>2. BucketTypes'
    BY <1>0, <2>1 DEF BucketTypes, ResetStores
  <2>3. LinkTypes'
    BY <1>0, <2>1 DEF LinkTypes
  <2>4. WatchTypes'
    BY <1>0, <2>1 DEF WatchTypes
  <2> QED BY <1>0, <1>4, <2>1, <2>2, <2>3, <2>4, PartsKept
<1>18. CASE OnReconnected
  <2>1. /\ UNCHANGED <<link, js, kv, epoch, inits, watches, counts>>
        /\ LeaveLocks({Opener("resync")})
        /\ calls # <<>> /\ calls' = Tail(calls) /\ pc' = [pc EXCEPT !["resync"] = "init"]
    BY <1>18 DEF OnReconnected
  <2>2. BucketTypes'
    BY <1>0, <2>1, LeaveLocksFacts DEF BucketTypes
  <2>3. LinkTypes'
    BY <1>0, <2>1 DEF LinkTypes
  <2>4. InitTypes'
    BY <1>1, <1>2, <2>1 DEF Places
  <2> QED BY <1>0, <1>4, <2>1, <2>2, <2>3, <2>4, PartsKept
<1>19. CASE Close
  <2>1. /\ UNCHANGED <<calls, js, kv, epoch, inits, watchGen, counts>> /\ link' = "closed"
        /\ CancelWatches("close")
        /\ LeaveLocks({Opener(t) : t \in Tasks} \union {Watcher(g) : g \in listed})
        /\ synced' = synced \ Interrupted
        /\ pc' = [start |-> "off", resync |-> "off", close |-> "gather"]
    BY <1>19 DEF Close
  <2>2. WatchTypes' /\ BucketTypes'
    BY <1>9, <2>1
  <2>3. LinkTypes'
    BY <1>0, <2>1 DEF LinkTypes
  <2>4. pc' \in [Tasks \union {"close"} -> Places]
    BY <2>1 DEF Tasks, Places
  <2>5. InitTypes'
    BY <1>0, <2>1, <2>4 DEF InitTypes, inits
  <2> QED BY <1>0, <1>4, <2>1, <2>2, <2>3, <2>5, PartsKept
<1>20. CASE Closed
  <2>1. /\ UNCHANGED <<link, calls, queue, creating, inits, watch, listed, synced, watchGen, counts>>
        /\ pc' = [pc EXCEPT !["close"] = "closed"]
        /\ awaited' = [awaited EXCEPT !["close"] = {}] /\ ResetStores
    BY <1>20 DEF Closed
  <2>2. BucketTypes'
    BY <1>0, <2>1 DEF BucketTypes, ResetStores
  <2>3. WatchTypes'
    BY <1>0, <2>1 DEF WatchTypes
  <2>4. InitTypes'
    BY <1>2, <2>1 DEF Places
  <2> QED BY <1>0, <1>4, <2>1, <2>2, <2>3, <2>4, PartsKept
<1> QED BY <1>6, <1>7, <1>8, <1>10, <1>11, <1>12, <1>13, <1>14, <1>15, <1>16, <1>17, <1>18,
           <1>19, <1>20
        DEF Next, InitStep, Callback

LEMMA InvInit == Init => LifecycleInv
<1> SUFFICES ASSUME Init PROVE LifecycleInv
  OBVIOUS
<1>0. /\ "start" \in Tasks /\ "resync" \in Tasks /\ "close" \notin Tasks /\ Constants
      /\ 1 \in Stores
  BY ConstantFacts DEF Tasks, Constants
<1>1. TypeOK
  <2>1. LinkTypes
    BY DEF Init, LinkTypes
  <2>2. BucketTypes
    BY DEF Init, BucketTypes, NoCreate
  <2>3. InitTypes
    BY <1>0 DEF Init, InitTypes, Places
  <2>4. WatchTypes
    BY DEF Init, WatchTypes, WatchStates
  <2>5. CountTypes
    BY <1>0 DEF Init, CountTypes, Constants
  <2> QED BY <2>1, <2>2, <2>3, <2>4, <2>5, TypeParts
<1>2. CallsInOrder
  <2>1. pc["close"] = "off"
    BY <1>0 DEF Init
  <2> QED BY <2>1 DEF Init, CallsInOrder
<1>3. GenerationsLeft
  <2>1. Due("start") = 1 /\ Due("resync") = 0
    BY <1>0 DEF Init, Due
  <2>2. ReconnectsDue = 0
    BY DEF Init, ReconnectsDue
  <2> QED BY <1>0, <2>1, <2>2 DEF Init, GenerationsLeft, Constants
<1>4. LocksHeld
  BY DEF Init, LocksHeld, OnceEach, In, NoCreate
<1>5. WatchesListed
  <2>1. \A t \in Tasks : pc[t] # "gather"
    BY DEF Init
  <2>2. \A g \in Generations, s \in Watched : watch[g][s] = "none"
    BY DEF Init
  <2> QED BY <2>1, <2>2 DEF Init, WatchesListed
<1>6. HandlesCurrent /\ SyncedExactly
  BY DEF Init, HandlesCurrent, SyncedExactly
<1> QED BY <1>1, <1>2, <1>3, <1>4, <1>5, <1>6 DEF LifecycleInv

LEMMA InvStep ==
  ASSUME LifecycleInv, [Next]_vars
  PROVE  LifecycleInv'
<1>1. CASE Next
  BY <1>1, TypeStep, CallsStep, LeftStep, LocksStep, WatchesStep, HandlesStep, SyncedStep
     DEF LifecycleInv
<1>2. CASE UNCHANGED vars
  <2>1. TypeOK' /\ CallsInOrder' /\ GenerationsLeft'
    BY <1>2 DEF LifecycleInv, TypeOK, CallsInOrder, GenerationsLeft, Due, ReconnectsDue, vars
  <2>2. LocksHeld' /\ WatchesListed'
    BY <1>2 DEF LifecycleInv, LocksHeld, WatchesListed, Retiring, In, OnceEach, vars
  <2>3. HandlesCurrent' /\ SyncedExactly'
    BY <1>2 DEF LifecycleInv, HandlesCurrent, SyncedExactly, vars
  <2> QED BY <2>1, <2>2, <2>3 DEF LifecycleInv
<1> QED BY <1>1, <1>2

\* However disconnects, reconnects, cancels, failures and the closing of the bot overlap: the
\* queues of the locks, the callbacks, the watches and their generations stay consistent.
THEOREM LifecycleInductive == Spec => []LifecycleInv
<1>1. LifecycleInv /\ [Next]_vars => LifecycleInv'
  BY InvStep
<1> QED BY <1>1, InvInit, PTL DEF Spec

-----------------------------------------------------------------------------
(* The results *)

\* Every variable of the coordinator's life keeps its type; the number of reconnects bounds
\* the watch generations.
THEOREM TypeCorrect == Spec => []TypeOK
<1>1. LifecycleInv => TypeOK
  BY DEF LifecycleInv
<1> QED BY <1>1, LifecycleInductive, PTL

\* A bucket in use was opened after the stores were last reset: KVStore.open checks that the
\* context it opened with is the store's still, and no task is late enough to defeat that.
THEOREM HandlesCurrentHolds == Spec => []HandlesCurrent
<1>1. LifecycleInv => HandlesCurrent
  BY DEF LifecycleInv
<1> QED BY <1>1, LifecycleInductive, PTL

\* synced_watches says exactly which watches of the newest generation have replayed.
THEOREM SyncedExactlyHolds == Spec => []SyncedExactly
<1>1. LifecycleInv => SyncedExactly
  BY DEF LifecycleInv
<1> QED BY <1>1, LifecycleInductive, PTL

\* A bucket is delivered by at most one watch, also while cancelled tasks still clean up.
THEOREM OneWatcherHolds == Spec => []OneWatcher
<1>1. LifecycleInv => OneWatcher
  BY DEF LifecycleInv, WatchesListed, OneWatcher
<1> QED BY <1>1, LifecycleInductive, PTL

=============================================================================
