---------------------------- MODULE EndpointsProofs ----------------------------
(***************************************************************************)
(* What holds of the ends of a bot's connections: of IrcClient for any        *)
(* nicknames, servers, limits and faults; of EnvelopeReplay and RateLimiter    *)
(* for every number of envelopes, senders and buckets, and every window,       *)
(* limit and TTL that their assumptions admit; of GlobMatch for masks and      *)
(* values of any length; of ModeLines for any members, keys, masks and limits, *)
(* and lines of any length.                                                   *)
(***************************************************************************)
EXTENDS IrcClient, EnvelopeReplay, RateLimiter, GlobMatch, ModeLines, WellFoundedInduction,
        FiniteSetTheorems, SequenceTheorems, TLAPS

-----------------------------------------------------------------------------
(* Numbers and sequences *)

\* A set of naturals has a least element; its absence from a segment is induction.
LEMMA LeastNatural ==
  ASSUME NEW S \in SUBSET Nat, S # {}
  PROVE  \E x \in S : \A y \in S : x <= y
<1> DEFINE Segments == {0..x : x \in S}
<1>1. Segments \subseteq FiniteSubsetsOf(Nat) /\ Segments # {}
  <2>1. \A x \in S : 0..x \in SUBSET Nat /\ IsFiniteSet(0..x)
    BY FS_Interval
  <2> QED BY <2>1 DEF FiniteSubsetsOf
<1>2. \E I \in Segments : \A J \in Segments : <<J, I>> \notin StrictSubsetOrdering(Nat)
  <2> HIDE DEF Segments
  <2> QED BY <1>1, FS_StrictSubsetOrderingWellFounded, WFMin
<1>3. PICK x \in S : \A y \in S : <<0..y, 0..x>> \notin StrictSubsetOrdering(Nat)
  BY <1>2
<1>4. ASSUME NEW y \in S, y < x PROVE FALSE
  <2>1. 0..y \in SUBSET Nat /\ 0..x \in SUBSET Nat
    OBVIOUS
  <2>2. 0..y \subseteq 0..x /\ x \in 0..x /\ x \notin 0..y
    BY <1>4
  <2> QED BY <1>3, <2>1, <2>2 DEF StrictSubsetOrdering
<1> QED BY <1>4

LEMMA CatFacts ==
  ASSUME NEW S, NEW p \in Seq(S), NEW q \in Seq(S)
  PROVE  /\ p \o q \in Seq(S) /\ Len(p \o q) = Len(p) + Len(q)
         /\ Len(p) \in Nat /\ Len(q) \in Nat
         /\ DOMAIN p = 1 .. Len(p) /\ DOMAIN q = 1 .. Len(q)
         /\ DOMAIN (p \o q) = 1 .. Len(p) + Len(q)
         /\ \A i \in 1 .. Len(p) : (p \o q)[i] = p[i]
         /\ \A i \in 1 .. Len(q) : (p \o q)[Len(p) + i] = q[i]
OBVIOUS

LEMMA AppendIsCat ==
  ASSUME NEW S, NEW q \in Seq(S), NEW x \in S
  PROVE  <<x>> \in Seq(S) /\ Append(q, x) \in Seq(S) /\ Append(q, x) = q \o <<x>>
OBVIOUS

LEMMA HeadIsCat ==
  ASSUME NEW S, NEW q \in Seq(S), q # <<>>
  PROVE  /\ Head(q) \in S /\ Tail(q) \in Seq(S) /\ <<Head(q)>> \in Seq(S)
         /\ q = <<Head(q)>> \o Tail(q) /\ Len(q) = Len(Tail(q)) + 1
OBVIOUS

LEMMA EmptyCat ==
  ASSUME NEW S, NEW q \in Seq(S)
  PROVE  <<>> \in Seq(S) /\ <<>> \o q = q /\ q \o <<>> = q
OBVIOUS

LEMMA HasCat ==
  ASSUME NEW S, NEW p \in Seq(S), NEW q \in Seq(S), NEW cmd
  PROVE  Has(p \o q, cmd) <=> Has(p, cmd) \/ Has(q, cmd)
<1>1. ASSUME Has(p \o q, cmd) PROVE Has(p, cmd) \/ Has(q, cmd)
  <2>1. PICK i \in 1 .. Len(p) + Len(q) : (p \o q)[i].cmd = cmd
    BY <1>1, CatFacts DEF Has
  <2>2. CASE i <= Len(p)
    <3>1. i \in 1 .. Len(p)
      BY <2>2, CatFacts
    <3> QED BY <2>1, <3>1, CatFacts DEF Has
  <2>3. CASE ~(i <= Len(p))
    <3>1. i - Len(p) \in 1 .. Len(q) /\ Len(p) + (i - Len(p)) = i
      BY <2>3, CatFacts
    <3>2. q[i - Len(p)].cmd = cmd
      BY <2>1, <3>1, CatFacts
    <3> QED BY <3>1, <3>2, CatFacts DEF Has
  <2> QED BY <2>2, <2>3
<1>2. ASSUME Has(p, cmd) PROVE Has(p \o q, cmd)
  <2>1. PICK i \in 1 .. Len(p) : p[i].cmd = cmd
    BY <1>2, CatFacts DEF Has
  <2>2. i \in 1 .. Len(p) + Len(q)
    BY CatFacts
  <2> QED BY <2>1, <2>2, CatFacts DEF Has
<1>3. ASSUME Has(q, cmd) PROVE Has(p \o q, cmd)
  <2>1. PICK i \in 1 .. Len(q) : q[i].cmd = cmd
    BY <1>3, CatFacts DEF Has
  <2>2. Len(p) + i \in 1 .. Len(p) + Len(q)
    BY CatFacts
  <2> QED BY <2>1, <2>2, CatFacts DEF Has
<1> QED BY <1>1, <1>2, <1>3

LEMMA HasOne ==
  ASSUME NEW text, NEW cmd
  PROVE  Has(<<text>>, cmd) <=> text.cmd = cmd
<1>1. DOMAIN <<text>> = {1} /\ <<text>>[1] = text
  OBVIOUS
<1> QED BY <1>1 DEF Has

LEMMA HasNone ==
  ASSUME NEW cmd
  PROVE  ~Has(<<>>, cmd)
<1>1. DOMAIN <<>> = {}
  OBVIOUS
<1> QED BY <1>1 DEF Has

-----------------------------------------------------------------------------
(* WorkNumbers *)

\* f numbers the work among the first n lines, and among those of all shorter prefixes.
Prefixes(lines, n, f) ==
  f = [i \in 0..n |->
         IF i = 0 THEN <<>>
         ELSE IF IsWork(lines[i]) THEN Append(f[i - 1], lines[i].arg) ELSE f[i - 1]]

NextNumbers(lines, i, before) ==
  IF IsWork(lines[i]) THEN Append(before, lines[i].arg) ELSE before

\* The recursion of WorkNumbers is well-founded.
LEMMA PrefixesExist ==
  ASSUME NEW lines, NEW m \in Nat
  PROVE  \A n \in 0..m : \E f : Prefixes(lines, n, f)
<1> DEFINE Bad == {n \in Nat : n <= m /\ ~\E f : Prefixes(lines, n, f)}
<1>1. SUFFICES ASSUME Bad # {} PROVE FALSE
  OBVIOUS
<1>2. PICK n \in Bad : \A k \in Bad : n <= k
  <2>1. Bad \in SUBSET Nat
    OBVIOUS
  <2> HIDE DEF Bad
  <2> QED BY <1>1, <2>1, LeastNatural
<1>3. n # 0
  <2>1. Prefixes(lines, 0, [i \in 0..0 |-> <<>>])
    BY DEF Prefixes
  <2> QED BY <1>2, <2>1
<1>4. n \in Nat /\ n - 1 \in Nat /\ n - 1 <= m /\ n - 1 < n
  BY <1>2, <1>3
<1>5. PICK f : Prefixes(lines, n - 1, f)
  BY <1>2, <1>4
<1> DEFINE g == [i \in 0..n |-> IF i = n THEN NextNumbers(lines, n, f[n - 1]) ELSE f[i]]
<1>6. \A i \in 0 .. n - 1 : f[i] = IF i = 0 THEN <<>> ELSE NextNumbers(lines, i, f[i - 1])
  BY <1>4, <1>5 DEF Prefixes, NextNumbers
<1>7. ASSUME NEW i \in 0..n
      PROVE  g[i] = IF i = 0 THEN <<>> ELSE NextNumbers(lines, i, g[i - 1])
  <2>1. CASE i = n
    BY <1>3, <1>4, <2>1
  <2>2. CASE i # n
    <3>1. i \in 0 .. n - 1 /\ (i # 0 => i - 1 \in 0 .. n - 1 /\ i - 1 # n)
      BY <1>4, <2>2
    <3> QED BY <1>4, <1>6, <2>2, <3>1
  <2> QED BY <2>1, <2>2
<1>8. Prefixes(lines, n, g)
  <2>1. g = [i \in 0..n |-> g[i]]
    OBVIOUS
  <2> HIDE DEF g
  <2> QED BY <1>7, <2>1 DEF Prefixes, NextNumbers
<1> HIDE DEF g
<1> QED BY <1>2, <1>8

\* The recursion, unfolded once.
LEMMA NumbersByStep ==
  ASSUME NEW S, NEW q \in Seq(S)
  PROVE  \E h : /\ WorkNumbers(q) = h[Len(q)] /\ h[0] = <<>>
                /\ \A i \in 1 .. Len(q) : h[i] = NextNumbers(q, i, h[i - 1])
<1> DEFINE n == Len(q)
           h == CHOOSE F : Prefixes(q, n, F)
<1>1. n \in Nat /\ n \in 0..n
  OBVIOUS
<1>2. Prefixes(q, n, h)
  <2>1. PICK f : Prefixes(q, n, f)
    <3> HIDE DEF n
    <3> QED BY <1>1, PrefixesExist
  <2> QED BY <2>1
<1>3. WorkNumbers(q) = h[n]
  BY DEF WorkNumbers, Prefixes
<1> HIDE DEF h, n
<1>4. h[0] = <<>> /\ \A i \in 1..n : h[i] = NextNumbers(q, i, h[i - 1])
  <2>1. 0 \in 0..n /\ \A i \in 1..n : i \in 0..n /\ i # 0
    BY <1>1
  <2>2. h = [i \in 0..n |-> IF i = 0 THEN <<>> ELSE NextNumbers(q, i, h[i - 1])]
    BY <1>2 DEF Prefixes, NextNumbers
  <2> QED BY <2>1, <2>2
<1> QED BY <1>3, <1>4 DEF n

LEMMA NumbersEmpty == WorkNumbers(<<>>) = <<>>
<1>1. <<>> \in Seq(Nat) /\ Len(<<>>) = 0
  OBVIOUS
<1> QED BY <1>1, NumbersByStep

\* A line in front: the numbers of work behind it follow its own.
LEMMA NumbersInFront ==
  ASSUME NEW S, NEW T, NEW text \in S, NEW q \in Seq(S),
         \A x \in S : IsWork(x) => x.arg \in T
  PROVE  /\ WorkNumbers(q) \in Seq(T)
         /\ WorkNumbers(<<text>> \o q) =
              IF IsWork(text) THEN <<text.arg>> \o WorkNumbers(q) ELSE WorkNumbers(q)
<1> DEFINE p == <<text>> \o q
           n == Len(q)
           before == IF IsWork(text) THEN <<text.arg>> ELSE <<>>
<1>1. /\ p \in Seq(S) /\ Len(p) = n + 1 /\ n \in Nat /\ p[1] = text
      /\ \A i \in 1..n : p[i + 1] = q[i] /\ q[i] \in S
  OBVIOUS
<1>2. PICK h : /\ WorkNumbers(q) = h[n] /\ h[0] = <<>>
               /\ \A i \in 1..n : h[i] = NextNumbers(q, i, h[i - 1])
  BY NumbersByStep
<1>3. PICK g : /\ WorkNumbers(p) = g[Len(p)] /\ g[0] = <<>>
               /\ \A i \in 1 .. Len(p) : g[i] = NextNumbers(p, i, g[i - 1])
  BY <1>1, NumbersByStep
<1> HIDE DEF p, n
<1>4. g[1] = before /\ before \in Seq(T)
  <2>1. 1 \in 1 .. Len(p) /\ 1 - 1 = 0
    BY <1>1
  <2>2. g[1] = NextNumbers(p, 1, <<>>)
    BY <1>3, <2>1
  <2>3. \A x : Append(<<>>, x) = <<x>>
    OBVIOUS
  <2> QED BY <1>1, <2>2, <2>3 DEF NextNumbers
<1> HIDE DEF before
<1> DEFINE Good(i) == h[i] \in Seq(T) /\ g[i + 1] = before \o h[i]
           Bad == {i \in 0..n : ~Good(i)}
<1>5. \A i \in 0..n : Good(i)
  <2>1. SUFFICES ASSUME Bad # {} PROVE FALSE
    OBVIOUS
  <2>2. PICK i \in Bad : \A j \in Bad : i <= j
    <3>1. Bad \in SUBSET Nat
      BY <1>1
    <3> HIDE DEF Bad
    <3> QED BY <2>1, <3>1, LeastNatural
  <2>3. CASE i = 0
    <3>1. \A s \in Seq(T) : <<>> \in Seq(T) /\ s \o <<>> = s /\ 0 + 1 = 1
      OBVIOUS
    <3>2. Good(0)
      BY <1>2, <1>4, <3>1
    <3> QED BY <2>2, <2>3, <3>2
  <2>4. CASE i # 0
    <3>1. i \in 1..n /\ i - 1 \in 0..n /\ ~(i <= i - 1) /\ (i - 1) + 1 = i
            /\ i + 1 \in 1 .. Len(p) /\ (i + 1) - 1 = i
      BY <1>1, <2>2, <2>4
    <3>2. h[i - 1] \in Seq(T) /\ g[i] = before \o h[i - 1]
      BY <2>2, <3>1
    <3>3. h[i] = NextNumbers(q, i, h[i - 1]) /\ g[i + 1] = NextNumbers(p, i + 1, g[i])
      BY <1>2, <1>3, <3>1
    <3>4. p[i + 1] = q[i] /\ (IsWork(q[i]) => q[i].arg \in T)
      BY <1>1, <3>1
    <3>5. ASSUME NEW x \in T
          PROVE  /\ Append(h[i - 1], x) \in Seq(T)
                 /\ Append(before \o h[i - 1], x) = before \o Append(h[i - 1], x)
      <4> DEFINE r == h[i - 1]
      <4>1. r \in Seq(T) /\ <<x>> \in Seq(T)
        BY <3>2
      <4> HIDE DEF r
      <4>2. before \o r \in Seq(T) /\ Append(r, x) \in Seq(T)
        BY <1>4, <4>1, ConcatProperties, AppendProperties
      <4>3. Append(r, x) = r \o <<x>> /\ Append(before \o r, x) = (before \o r) \o <<x>>
        BY <4>1, <4>2, AppendIsConcat
      <4>4. (before \o r) \o <<x>> = before \o (r \o <<x>>)
        BY <1>4, <4>1, ConcatAssociative
      <4> QED BY <4>2, <4>3, <4>4 DEF r
    <3>6. Good(i)
      <4>1. CASE IsWork(q[i])
        <5>1. /\ h[i] = Append(h[i - 1], q[i].arg)
              /\ g[i + 1] = Append(before \o h[i - 1], q[i].arg)
          BY <3>2, <3>3, <3>4, <4>1 DEF NextNumbers
        <5> QED BY <3>4, <3>5, <4>1, <5>1
      <4>2. CASE ~IsWork(q[i])
        BY <3>2, <3>3, <3>4, <4>2 DEF NextNumbers
      <4> QED BY <4>1, <4>2
    <3> QED BY <2>2, <3>6
  <2> QED BY <2>3, <2>4
<1>6. WorkNumbers(q) \in Seq(T) /\ WorkNumbers(p) = before \o WorkNumbers(q)
  <2>1. n \in 0..n /\ Len(p) = n + 1
    BY <1>1
  <2>2. Good(n)
    BY <1>5, <2>1
  <2> QED BY <1>2, <1>3, <2>1, <2>2
<1>7. <<>> \o WorkNumbers(q) = WorkNumbers(q)
  BY <1>6, EmptyCat
<1> QED BY <1>6, <1>7 DEF p, before

\* A line behind: its number follows the others.
LEMMA NumbersBehind ==
  ASSUME NEW S, NEW text \in S, NEW q \in Seq(S)
  PROVE  WorkNumbers(Append(q, text)) =
           IF IsWork(text) THEN Append(WorkNumbers(q), text.arg) ELSE WorkNumbers(q)
<1> DEFINE p == Append(q, text)
           n == Len(q)
<1>1. /\ p \in Seq(S) /\ Len(p) = n + 1 /\ n \in Nat /\ p[n + 1] = text
      /\ \A i \in 1..n : p[i] = q[i]
  OBVIOUS
<1>2. PICK h : /\ WorkNumbers(q) = h[n] /\ h[0] = <<>>
               /\ \A i \in 1..n : h[i] = NextNumbers(q, i, h[i - 1])
  BY NumbersByStep
<1>3. PICK g : /\ WorkNumbers(p) = g[Len(p)] /\ g[0] = <<>>
               /\ \A i \in 1 .. Len(p) : g[i] = NextNumbers(p, i, g[i - 1])
  BY <1>1, NumbersByStep
<1> HIDE DEF p, n
<1> DEFINE Bad == {i \in 0..n : g[i] # h[i]}
<1>4. \A i \in 0..n : g[i] = h[i]
  <2>1. SUFFICES ASSUME Bad # {} PROVE FALSE
    OBVIOUS
  <2>2. PICK i \in Bad : \A j \in Bad : i <= j
    <3>1. Bad \in SUBSET Nat
      BY <1>1
    <3> HIDE DEF Bad
    <3> QED BY <2>1, <3>1, LeastNatural
  <2>3. i # 0
    BY <1>2, <1>3, <2>2
  <2>4. i \in 1..n /\ i - 1 \in 0..n /\ ~(i <= i - 1) /\ i \in 1 .. Len(p)
    BY <1>1, <2>2, <2>3
  <2>5. g[i - 1] = h[i - 1] /\ p[i] = q[i]
    BY <1>1, <2>2, <2>4
  <2> QED BY <1>2, <1>3, <2>2, <2>4, <2>5 DEF NextNumbers
<1>5. n \in 0..n /\ n + 1 \in 1 .. Len(p) /\ (n + 1) - 1 = n
  BY <1>1
<1>6. g[n + 1] = NextNumbers(p, n + 1, h[n])
  BY <1>3, <1>4, <1>5
<1> QED BY <1>1, <1>2, <1>3, <1>6 DEF NextNumbers, p

-----------------------------------------------------------------------------
(* Nicknames along the lines of a connection *)

Names == Nicks \union {None}

\* Lines that name nobody.
Plain(lines) == ~Has(lines, "001") /\ ~Has(lines, "NICK")

LEMMA LeadsPlain ==
  ASSUME NEW S, NEW lines \in Seq(S), Plain(lines), NEW name \in Names
  PROVE  Leads(lines, name, name)
<1> DEFINE names == [i \in 0 .. Len(lines) |-> name]
<1>1. Len(lines) \in Nat /\ DOMAIN lines = 1 .. Len(lines)
  OBVIOUS
<1>2. names \in [0 .. Len(lines) -> Names] /\ names[0] = name /\ names[Len(lines)] = name
  BY <1>1
<1>3. ASSUME NEW i \in 1 .. Len(lines) PROVE Renames(lines[i], names[i - 1], names[i])
  <2>1. names[i - 1] = name /\ names[i] = name
    BY <1>1
  <2>2. lines[i].cmd # "001" /\ lines[i].cmd # "NICK"
    BY <1>1 DEF Plain, Has
  <2> QED BY <2>1, <2>2 DEF Renames
<1> HIDE DEF names
<1> QED BY <1>2, <1>3 DEF Leads, Names

LEMMA LeadsOne ==
  ASSUME NEW text, NEW from \in Names, NEW to \in Names, Renames(text, from, to)
  PROVE  Leads(<<text>>, from, to)
<1> DEFINE names == [i \in 0..1 |-> IF i = 0 THEN from ELSE to]
<1>1. Len(<<text>>) = 1 /\ <<text>>[1] = text /\ \A i \in 1..1 : i = 1
  OBVIOUS
<1>2. names \in [0..1 -> Names] /\ names[0] = from /\ names[1] = to
  OBVIOUS
<1>3. \A i \in 1..1 : Renames(<<text>>[i], names[i - 1], names[i])
  <2>1. 1 - 1 = 0
    OBVIOUS
  <2> HIDE DEF names
  <2> QED BY <1>1, <1>2, <2>1
<1> HIDE DEF names
<1> QED BY <1>1, <1>2, <1>3 DEF Leads, Names

LEMMA LeadsCat ==
  ASSUME NEW S, NEW p \in Seq(S), NEW q \in Seq(S), NEW a, NEW b, NEW c,
         Leads(p, a, b), Leads(q, b, c)
  PROVE  Leads(p \o q, a, c)
<1> DEFINE m == Len(p)
           n == Len(q)
           r == p \o q
<1>1. /\ m \in Nat /\ n \in Nat /\ Len(r) = m + n
      /\ \A i \in 1..m : r[i] = p[i]
      /\ \A i \in 1..n : r[m + i] = q[i]
  BY CatFacts
<1>2. PICK f \in [0..m -> Names] :
        f[0] = a /\ f[m] = b /\ \A i \in 1..m : Renames(p[i], f[i - 1], f[i])
  BY DEF Leads, Names
<1>3. PICK g \in [0..n -> Names] :
        g[0] = b /\ g[n] = c /\ \A i \in 1..n : Renames(q[i], g[i - 1], g[i])
  BY DEF Leads, Names
<1> DEFINE h == [i \in 0 .. m + n |-> IF i <= m THEN f[i] ELSE g[i - m]]
<1> HIDE DEF m, n, r
<1>4. h \in [0 .. m + n -> Names]
  <2>1. ASSUME NEW i \in 0 .. m + n PROVE (IF i <= m THEN f[i] ELSE g[i - m]) \in Names
    <3>1. CASE i <= m
      <4>1. i \in 0..m
        BY <1>1, <3>1
      <4> QED BY <1>2, <3>1, <4>1
    <3>2. CASE ~(i <= m)
      <4>1. i - m \in 0..n
        BY <1>1, <3>2
      <4> QED BY <1>3, <3>2, <4>1
    <3> QED BY <3>1, <3>2
  <2> QED BY <2>1
<1>5. /\ \A i \in 0..m : h[i] = f[i]
      /\ \A i \in 0..n : h[m + i] = g[i]
  <2>1. ASSUME NEW i \in 0..m PROVE h[i] = f[i]
    BY <1>1
  <2>2. ASSUME NEW i \in 0..n PROVE h[m + i] = g[i]
    <3>1. m + i \in 0 .. m + n /\ (m + i) - m = i /\ (m + i <= m => i = 0 /\ m + i = m)
      BY <1>1
    <3>2. CASE m + i <= m
      <4>1. h[m + i] = f[m]
        BY <3>1, <3>2
      <4> QED BY <1>2, <1>3, <3>1, <3>2, <4>1
    <3>3. CASE ~(m + i <= m)
      BY <3>1, <3>3
    <3> QED BY <3>2, <3>3
  <2> QED BY <2>1, <2>2
<1> HIDE DEF h
<1>6. h[0] = a /\ h[m + n] = c
  <2>1. 0 \in 0..m /\ n \in 0..n
    BY <1>1
  <2> QED BY <1>2, <1>3, <1>5, <2>1
<1>7. ASSUME NEW i \in 1 .. m + n PROVE Renames(r[i], h[i - 1], h[i])
  <2>1. CASE i <= m
    <3>1. i \in 1..m /\ i \in 0..m /\ i - 1 \in 0..m
      BY <1>1, <2>1
    <3> QED BY <1>1, <1>2, <1>5, <3>1
  <2>2. CASE ~(i <= m)
    <3>1. PICK j \in 1..n : i = m + j
      <4>1. i - m \in 1..n /\ i = m + (i - m)
        BY <1>1, <2>2
      <4> QED BY <4>1
    <3>2. j \in 0..n /\ j - 1 \in 0..n /\ i - 1 = m + (j - 1)
      BY <1>1, <3>1
    <3>3. r[i] = q[j] /\ h[i] = g[j] /\ h[i - 1] = g[j - 1]
      BY <1>1, <1>5, <3>1, <3>2
    <3> QED BY <1>3, <3>3
  <2> QED BY <2>1, <2>2
<1>8. Leads(r, a, c)
  BY <1>1, <1>4, <1>6, <1>7 DEF Leads, Names
<1> QED BY <1>8 DEF r

LEMMA LeadsHead ==
  ASSUME NEW S, NEW q \in Seq(S), q # <<>>, NEW from, NEW to, Leads(q, from, to)
  PROVE  \E name \in Names : Renames(Head(q), from, name) /\ Leads(Tail(q), name, to)
<1> DEFINE n == Len(q) - 1
<1>1. /\ n \in Nat /\ Len(Tail(q)) = n /\ Len(q) = n + 1 /\ Head(q) = q[1]
      /\ \A i \in 1..n : Tail(q)[i] = q[i + 1]
  OBVIOUS
<1>2. PICK f \in [0 .. Len(q) -> Names] :
        f[0] = from /\ f[Len(q)] = to /\ \A i \in 1 .. Len(q) : Renames(q[i], f[i - 1], f[i])
  BY DEF Leads, Names
<1> DEFINE g == [i \in 0..n |-> f[i + 1]]
<1> HIDE DEF n
<1>3. \A i \in 0..n : i + 1 \in 0 .. Len(q) /\ i + 1 \in 1 .. Len(q) /\ (i + 1) - 1 = i
  BY <1>1
<1>4. g \in [0..n -> Names]
  BY <1>2, <1>3
<1>5. \A i \in 0..n : g[i] = f[i + 1]
  OBVIOUS
<1> HIDE DEF g
<1>6. 0 \in 0..n /\ n \in 0..n /\ 0 + 1 = 1 /\ 1 \in 0 .. Len(q) /\ 1 \in 1 .. Len(q) /\ 1 - 1 = 0
  BY <1>1
<1>7. f[1] \in Names /\ Renames(Head(q), from, f[1]) /\ g[0] = f[1] /\ g[n] = to
  BY <1>1, <1>2, <1>5, <1>6
<1>8. ASSUME NEW i \in 1..n PROVE Renames(Tail(q)[i], g[i - 1], g[i])
  <2>1. i \in 0..n /\ i - 1 \in 0..n /\ (i - 1) + 1 = i
    BY <1>1
  <2>2. Renames(q[i + 1], f[i], f[i + 1])
    BY <1>2, <1>3, <2>1
  <2> QED BY <1>1, <1>5, <2>1, <2>2
<1>9. Leads(Tail(q), f[1], to)
  BY <1>1, <1>4, <1>7, <1>8 DEF Leads, Names
<1> QED BY <1>7, <1>9

\* Only NICK changes the nickname of a bot that has one.
LEMMA LeadsNowhere ==
  ASSUME NEW S, NEW lines \in Seq(S), ~Has(lines, "NICK"), NEW from \in Nicks, NEW to,
         Leads(lines, from, to)
  PROVE  to = from
<1>1. Len(lines) \in Nat /\ DOMAIN lines = 1 .. Len(lines)
  OBVIOUS
<1>2. PICK f \in [0 .. Len(lines) -> Names] :
        /\ f[0] = from /\ f[Len(lines)] = to
        /\ \A i \in 1 .. Len(lines) : Renames(lines[i], f[i - 1], f[i])
  BY DEF Leads, Names
<1> DEFINE Bad == {i \in 0 .. Len(lines) : f[i] # from}
<1>3. ASSUME Bad # {} PROVE FALSE
  <2>1. PICK i \in Bad : \A j \in Bad : i <= j
    <3>1. Bad \in SUBSET Nat
      BY <1>1
    <3> HIDE DEF Bad
    <3> QED BY <1>3, <3>1, LeastNatural
  <2>2. i # 0
    BY <1>2, <2>1
  <2>3. i \in 1 .. Len(lines) /\ i - 1 \in 0 .. Len(lines) /\ ~(i <= i - 1)
    BY <1>1, <2>1, <2>2
  <2>4. f[i - 1] = from /\ lines[i].cmd # "NICK"
    BY <1>1, <2>1, <2>3 DEF Has
  <2>5. Renames(lines[i], from, f[i]) /\ from # None
    BY <1>2, <2>3, <2>4, ClientAssumption
  <2> QED BY <2>1, <2>4, <2>5 DEF Renames
<1>4. Len(lines) \in 0 .. Len(lines)
  BY <1>1
<1> QED BY <1>2, <1>3, <1>4

-----------------------------------------------------------------------------
(* What sending and the end of a connection make of a client *)

Waiting(c) == c.hand \o c.outbound

\* d is a client that c becomes by sending lines that are nobody's work.
Sends(c, d) ==
  /\ ClientOK(d) /\ d.phase \in {"read", "stop"}
  /\ d.nick = c.nick /\ d.registered = c.registered /\ d.closing = c.closing
  /\ d.phase = "read" => WorkNumbers(Waiting(d)) = WorkNumbers(Waiting(c))

LEMMA ClientQueues ==
  ASSUME NEW c, ClientOK(c)
  PROVE  /\ c.outbound \in Seq(ToServer) /\ c.hand \in Seq(ToServer)
         /\ Waiting(c) \in Seq(ToServer)
<1>1. c.outbound \in Seq(ToServer) /\ c.hand \in Seq(ToServer)
  BY DEF ClientOK, Clients
<1> QED BY <1>1, ConcatProperties DEF Waiting

LEMMA QueueAppend ==
  ASSUME NEW c, ClientOK(c), NEW text \in ToServer
  PROVE  /\ Append(c.outbound, text) \in Seq(ToServer)
         /\ Len(Append(c.outbound, text)) = Len(c.outbound) + 1 /\ Len(c.outbound) \in Nat
         /\ c.hand \o Append(c.outbound, text) = Append(Waiting(c), text)
         /\ \A cmd : Has(Append(c.outbound, text), cmd) => Has(c.outbound, cmd) \/ text.cmd = cmd
<1> DEFINE q == c.outbound
           h == c.hand
<1>1. q \in Seq(ToServer) /\ h \in Seq(ToServer) /\ h \o q \in Seq(ToServer)
  BY ClientQueues DEF Waiting
<1> HIDE DEF q, h
<1>2. /\ Append(q, text) \in Seq(ToServer) /\ Len(Append(q, text)) = Len(q) + 1 /\ Len(q) \in Nat
      /\ <<text>> \in Seq(ToServer) /\ Append(q, text) = q \o <<text>>
  BY <1>1, AppendProperties, AppendIsCat, LenProperties
<1>3. h \o (q \o <<text>>) = (h \o q) \o <<text>> /\ Append(h \o q, text) = (h \o q) \o <<text>>
  <2>1. h \o (q \o <<text>>) = (h \o q) \o <<text>>
    BY <1>1, <1>2, ConcatAssociative
  <2>2. Append(h \o q, text) = (h \o q) \o <<text>>
    BY <1>1, AppendIsCat
  <2> QED BY <2>1, <2>2
<1>4. ASSUME NEW cmd, Has(Append(q, text), cmd) PROVE Has(q, cmd) \/ text.cmd = cmd
  <2>1. Has(q \o <<text>>, cmd)
    BY <1>2, <1>4
  <2>2. Has(q \o <<text>>, cmd) <=> Has(q, cmd) \/ Has(<<text>>, cmd)
    BY <1>1, <1>2, HasCat
  <2> QED BY <2>1, <2>2, HasOne
<1> QED BY <1>2, <1>3, <1>4, Zenon DEF Waiting, q, h

LEMMA QueuedOK ==
  ASSUME NEW c, ClientOK(c), NEW cmd, NEW arg, Say(cmd, arg) \in ToServer,
         cmd = "USERHOST" => c.registered
  PROVE  ClientOK(Queued(c, cmd, arg))
<1> DEFINE text == Say(cmd, arg)
           q == Append(c.outbound, text)
<1>1. text.cmd = cmd
  BY DEF Say
<1>2. /\ q \in Seq(ToServer) /\ Len(q) = Len(c.outbound) + 1 /\ Len(c.outbound) \in Nat
      /\ \A x : Has(q, x) => Has(c.outbound, x) \/ x = cmd
  BY <1>1, QueueAppend
<1>3. CASE ~Accepts(c)
  BY <1>3 DEF Queued
<1>4. CASE Accepts(c)
  <2> DEFINE d == [c EXCEPT !.outbound = q]
  <2>1. Queued(c, cmd, arg) = d
    BY <1>4 DEF Queued
  <2> HIDE DEF q, text
  <2>2. c \in Clients /\ c.phase = "read" /\ OutboundLimit \in Nat
    BY <1>4, ClientAssumption DEF ClientOK, Accepts
  <2>3. d \in Clients
    BY <1>2, <2>2 DEF Clients
  <2>4. /\ d.outbound = q /\ d.hand = c.hand /\ d.phase = c.phase /\ d.registered = c.registered
        /\ d.ident = c.ident /\ d.nick = c.nick /\ d.discoveries = c.discoveries
    BY <2>2 DEF Clients
  <2>5. Len(q) <= OutboundLimit
    BY <1>2, <1>4, <2>2 DEF Accepts
  <2> HIDE DEF d
  <2>6. ClientOK(d)
    BY <1>2, <2>2, <2>3, <2>4, <2>5 DEF ClientOK
  <2> QED BY <2>1, <2>6
<1> QED BY <1>3, <1>4

LEMMA QueuedFrame ==
  ASSUME NEW c \in Clients, NEW cmd, NEW arg
  PROVE  LET d == Queued(c, cmd, arg) IN
         /\ d.phase = c.phase /\ d.nick = c.nick /\ d.registered = c.registered
         /\ d.closing = c.closing /\ d.hand = c.hand /\ d.ident = c.ident
         /\ d.discoveries = c.discoveries
         /\ d.outbound = IF Accepts(c) THEN Append(c.outbound, Say(cmd, arg)) ELSE c.outbound
<1>1. CASE Accepts(c)
  BY <1>1 DEF Queued, Clients
<1>2. CASE ~Accepts(c)
  BY <1>2 DEF Queued
<1> QED BY <1>1, <1>2

LEMMA QueuedSends ==
  ASSUME NEW c, ClientOK(c), c.phase = "read", NEW cmd, NEW arg, Say(cmd, arg) \in ToServer,
         cmd # "WORK", cmd = "USERHOST" => c.registered
  PROVE  Sends(c, Queued(c, cmd, arg)) /\ Queued(c, cmd, arg).phase = "read"
<1> DEFINE d == Queued(c, cmd, arg)
<1>1. ClientOK(d)
  BY QueuedOK
<1>2. c \in Clients
  BY DEF ClientOK
<1>3. /\ d.phase = c.phase /\ d.nick = c.nick /\ d.registered = c.registered
      /\ d.closing = c.closing /\ d.hand = c.hand
      /\ d.outbound = IF Accepts(c) THEN Append(c.outbound, Say(cmd, arg)) ELSE c.outbound
  BY <1>2, QueuedFrame
<1> HIDE DEF d
<1>4. WorkNumbers(Append(Waiting(c), Say(cmd, arg))) = WorkNumbers(Waiting(c))
  <2>1. ~IsWork(Say(cmd, arg))
    BY DEF IsWork, Say
  <2> QED BY <2>1, ClientQueues, NumbersBehind
<1>5. WorkNumbers(Waiting(d)) = WorkNumbers(Waiting(c))
  <2>1. CASE Accepts(c)
    <3>1. Waiting(d) = Append(Waiting(c), Say(cmd, arg))
      BY <1>3, <2>1, QueueAppend DEF Waiting
    <3> QED BY <1>4, <3>1
  <2>2. CASE ~Accepts(c)
    BY <1>3, <2>2 DEF Waiting
  <2> QED BY <2>1, <2>2
<1>6. Sends(c, d) /\ d.phase = "read"
  BY <1>1, <1>3, <1>5 DEF Sends
<1> QED BY <1>6 DEF d

LEMMA DisconnectedFrame ==
  ASSUME NEW c \in Clients
  PROVE  LET d == Disconnected(c) IN
         /\ d \in Clients /\ d.phase = "stop" /\ d.outbound = <<>> /\ d.hand = <<>>
         /\ d.ident = None /\ d.watching = FALSE /\ d.nick = c.nick
         /\ d.registered = c.registered /\ d.closing = c.closing
         /\ \A x \in d.discoveries : x.current = FALSE
<1> DEFINE D == [current : BOOLEAN, left : 0..IdentityAttempts]
<1>1. Older(c.discoveries) \in SUBSET D /\ \A x \in Older(c.discoveries) : x.current = FALSE
  <2>1. \A x \in c.discoveries : x \in D
    BY DEF Clients
  <2>2. \A x \in D : [x EXCEPT !.current = FALSE] \in D /\ [x EXCEPT !.current = FALSE].current = FALSE
    OBVIOUS
  <2>3. \A y \in Older(c.discoveries) : \E x \in c.discoveries : y = [x EXCEPT !.current = FALSE]
    BY DEF Older
  <2> HIDE DEF D
  <2>4. ASSUME NEW y \in Older(c.discoveries) PROVE y \in D /\ y.current = FALSE
    <3>1. PICK x \in c.discoveries : y = [x EXCEPT !.current = FALSE]
      BY <2>3
    <3> QED BY <2>1, <2>2, <3>1, Zenon
  <2> QED BY <2>4
<1>2. <<>> \in Seq(ToServer)
  OBVIOUS
<1> DEFINE older == Older(c.discoveries)
           d == [c EXCEPT !.outbound = <<>>, !.hand = <<>>, !.phase = "stop", !.ident = None,
                          !.watching = FALSE, !.monitor = FALSE, !.discoveries = older]
<1>3. Disconnected(c) = d
  BY DEF Disconnected, StopSender, Clients
<1> HIDE DEF older
<1>4. d \in Clients
  BY <1>1, <1>2 DEF Clients, older
<1>5. /\ d.phase = "stop" /\ d.outbound = <<>> /\ d.hand = <<>>
      /\ d.ident = None /\ d.watching = FALSE /\ d.nick = c.nick
      /\ d.registered = c.registered /\ d.closing = c.closing /\ d.discoveries = older
  BY DEF Clients
<1> HIDE DEF d
<1> QED BY <1>1, <1>3, <1>4, <1>5 DEF older

LEMMA DisconnectedSends ==
  ASSUME NEW c, ClientOK(c)
  PROVE  Sends(c, Disconnected(c)) /\ Disconnected(c).phase = "stop"
<1> DEFINE d == Disconnected(c)
<1>1. c \in Clients
  BY DEF ClientOK
<1>2. /\ d \in Clients /\ d.phase = "stop" /\ d.outbound = <<>> /\ d.hand = <<>>
      /\ d.ident = None /\ d.watching = FALSE /\ d.nick = c.nick
      /\ d.registered = c.registered /\ d.closing = c.closing
      /\ \A x \in d.discoveries : x.current = FALSE
  BY <1>1, DisconnectedFrame
<1> HIDE DEF d
<1>3. Len(<<>>) = 0 /\ OutboundLimit \in Nat /\ 0 <= OutboundLimit /\ \A cmd : ~Has(<<>>, cmd)
  BY ClientAssumption, HasNone
<1>4. ClientOK(d)
  <2>1. /\ Len(d.outbound) <= OutboundLimit /\ Len(d.hand) <= 1
        /\ ~Has(d.outbound, "USERHOST") /\ ~Has(d.hand, "USERHOST")
    BY <1>2, <1>3
  <2>2. \A x \in d.discoveries : ~x.current
    BY <1>2
  <2> QED BY <1>2, <2>1, <2>2 DEF ClientOK
<1>5. Sends(c, d) /\ d.phase = "stop"
  BY <1>2, <1>4 DEF Sends
<1> QED BY <1>5 DEF d

LEMMA RepliedSends ==
  ASSUME NEW c, ClientOK(c), c.phase = "read", NEW cmd, NEW arg, Say(cmd, arg) \in ToServer,
         cmd # "WORK", cmd = "USERHOST" => c.registered
  PROVE  Sends(c, Replied(c, cmd, arg))
BY QueuedSends, DisconnectedSends DEF Replied

LEMMA SendsNothing ==
  ASSUME NEW c, ClientOK(c), c.phase = "read"
  PROVE  Sends(c, c)
BY DEF Sends

LEMMA StartNickWatchSends ==
  ASSUME NEW c, ClientOK(c), c.phase = "read"
  PROVE  Sends(c, StartNickWatch(c)) /\ StartNickWatch(c).phase = "read"
<1> DEFINE on == c.nick # Desired /\ ~c.monitor
           d == [c EXCEPT !.watching = on]
<1>1. c \in Clients /\ on \in BOOLEAN
  BY DEF ClientOK
<1> HIDE DEF on
<1>2. d \in Clients
  BY <1>1 DEF Clients
<1>3. /\ d.phase = c.phase /\ d.nick = c.nick /\ d.registered = c.registered
      /\ d.hand = c.hand /\ d.outbound = c.outbound /\ d.ident = c.ident
      /\ d.discoveries = c.discoveries /\ d.closing = c.closing
  BY <1>1 DEF Clients
<1>4. StartNickWatch(c) = IF c.nick # Desired /\ c.monitor THEN Queued(d, "MONITOR+", None) ELSE d
  BY DEF StartNickWatch, on
<1> HIDE DEF d
<1>5. ClientOK(d)
  BY <1>2, <1>3 DEF ClientOK
<1>6. Say("MONITOR+", None) \in ToServer
  BY DEF Say, ToServer
<1>7. /\ Sends(d, d)
      /\ Sends(d, Queued(d, "MONITOR+", None)) /\ Queued(d, "MONITOR+", None).phase = "read"
  BY <1>3, <1>5, <1>6, SendsNothing, QueuedSends
<1>8. \A e : Sends(d, e) => Sends(c, e)
  BY <1>3 DEF Sends, Waiting
<1> QED BY <1>3, <1>4, <1>7, <1>8

LEMMA ReclaimedSends ==
  ASSUME NEW c, ClientOK(c), c.phase = "read"
  PROVE  Sends(c, Reclaimed(c))
<1>1. Say("NICK", Desired) \in ToServer
  BY ClientAssumption DEF Say, ToServer
<1> QED BY <1>1, SendsNothing, QueuedSends DEF Reclaimed

-----------------------------------------------------------------------------
(* Lines that the bot reads *)

LEMMA HeadFacts ==
  ASSUME ClientInv, NEW cmd, Reads(cmd)
  PROVE  /\ client.phase = "read" /\ ClientOK(client) /\ client \in Clients
         /\ wire.in \in Seq(FromServer) /\ wire.in # <<>> /\ wire \in Wires
         /\ Head(wire.in) \in FromServer /\ Head(wire.in).cmd = cmd /\ Has(wire.in, cmd)
<1>1. client.phase = "read" /\ wire.in # <<>> /\ Head(wire.in).cmd = cmd
  BY DEF Reads
<1>2. ClientOK(client) /\ client \in Clients /\ wire \in Wires
  BY DEF ClientInv, ClientOK, WireOK
<1>3. wire.in \in Seq(FromServer)
  BY <1>2 DEF Wires
<1>4. \A S : \A q \in Seq(S) : q # <<>> => Head(q) \in S /\ 1 \in DOMAIN q /\ Head(q) = q[1]
  OBVIOUS
<1>5. Head(wire.in) \in FromServer /\ 1 \in DOMAIN wire.in /\ Head(wire.in) = wire.in[1]
  BY <1>1, <1>3, <1>4
<1> QED BY <1>1, <1>2, <1>3, <1>5 DEF Has

\* d is what the bot becomes by the line it reads: it knows the nickname that the line tells.
Receives(d) ==
  /\ ClientOK(d) /\ d.phase \in {"read", "stop"} /\ d.closing = client.closing
  /\ d.phase = "read" => WorkNumbers(Waiting(d)) = WorkNumbers(Waiting(client))
  /\ client.registered => d.registered
  /\ d.registered => client.registered \/ Head(wire.in).cmd = "001"
  /\ \A name \in Names : Renames(Head(wire.in), Known(client), name) => Known(d) = name

Handled == \E d : Read(d) /\ Receives(d)

\* A line that names nobody: the bot's own fields change, and it sends.
LEMMA ReceivesPlain ==
  ASSUME NEW d, NEW c, Sends(c, d),
         Head(wire.in).cmd \notin {"001", "NICK"},
         c.registered = client.registered, c.registered => c.nick = client.nick,
         c.closing = client.closing, c.hand = client.hand, c.outbound = client.outbound
  PROVE  Receives(d)
<1>1. /\ ClientOK(d) /\ d.phase \in {"read", "stop"} /\ d.closing = client.closing
      /\ d.registered = client.registered
      /\ d.phase = "read" => WorkNumbers(Waiting(d)) = WorkNumbers(Waiting(client))
  BY DEF Sends, Waiting
<1>2. Known(d) = Known(client)
  BY DEF Sends, Known
<1>3. ASSUME NEW name, Renames(Head(wire.in), Known(client), name)
      PROVE  Known(d) = name
  BY <1>2, <1>3 DEF Renames
<1> QED BY <1>1, <1>3 DEF Receives

LEMMA CollisionReads ==
  ASSUME ClientInv, HandleCollision
  PROVE  Handled
<1>1. Reads("433")
  BY DEF HandleCollision
<1>2. /\ client.phase = "read" /\ ClientOK(client) /\ client \in Clients
      /\ Head(wire.in).cmd \notin {"001", "NICK"}
  BY <1>1, HeadFacts
<1>3. CASE client.registered /\ Read(client)
  BY <1>2, <1>3, SendsNothing, ReceivesPlain DEF Handled
<1>4. CASE Read(Disconnected(client))
  BY <1>2, <1>4, DisconnectedSends, ReceivesPlain DEF Handled
<1>5. CASE /\ ~client.registered /\ client.collisions < CollisionLimit
           /\ \E fallback \in Nicks \ {Desired} :
                Read(Replied([client EXCEPT !.nick = fallback, !.collisions = @ + 1], "NICK", fallback))
  <2>1. PICK fallback \in Nicks :
          Read(Replied([client EXCEPT !.nick = fallback, !.collisions = @ + 1], "NICK", fallback))
    BY <1>5
  <2> DEFINE c == [client EXCEPT !.nick = fallback, !.collisions = @ + 1]
  <2>2. client.collisions + 1 \in 0..CollisionLimit
    BY <1>2, <1>5, ClientAssumption DEF Clients
  <2>3. c \in Clients
    BY <1>2, <2>2 DEF Clients
  <2>4. /\ c.phase = client.phase /\ c.registered = client.registered
        /\ c.hand = client.hand /\ c.outbound = client.outbound /\ c.ident = client.ident
        /\ c.discoveries = client.discoveries /\ c.closing = client.closing
    BY <1>2 DEF Clients
  <2> HIDE DEF c
  <2>5. ClientOK(c)
    BY <1>2, <1>5, <2>3, <2>4 DEF ClientOK
  <2>6. Say("NICK", fallback) \in ToServer
    BY DEF Say, ToServer
  <2>7. Sends(c, Replied(c, "NICK", fallback))
    BY <1>2, <2>4, <2>5, <2>6, RepliedSends
  <2>8. Receives(Replied(c, "NICK", fallback))
    BY <1>2, <1>5, <2>4, <2>7, ReceivesPlain
  <2> QED BY <2>1, <2>8 DEF Handled, c
<1> QED BY <1>3, <1>4, <1>5 DEF HandleCollision

CapStates == {"off", "ls", "asked"}

\* The fields that a line changes, if it names nobody, and then what is sent.
LEMMA FieldsRead ==
  ASSUME ClientOK(client), client.phase = "read", Head(wire.in).cmd \notin {"001", "NICK"},
         NEW cap \in CapStates, NEW wanted \in BOOLEAN, NEW pinging \in BOOLEAN,
         NEW monitor \in BOOLEAN
  PROVE  LET c == [client EXCEPT !.cap = cap, !.wanted = wanted, !.pinging = pinging,
                                 !.monitor = monitor] IN
         /\ ClientOK(c) /\ c.phase = "read"
         /\ \A d : Sends(c, d) => Receives(d)
<1> DEFINE c == [client EXCEPT !.cap = cap, !.wanted = wanted, !.pinging = pinging,
                               !.monitor = monitor]
<1>1. client \in Clients
  BY DEF ClientOK
<1>2. c \in Clients
  BY <1>1 DEF Clients, CapStates
<1>3. /\ c.phase = client.phase /\ c.registered = client.registered /\ c.nick = client.nick
      /\ c.hand = client.hand /\ c.outbound = client.outbound /\ c.ident = client.ident
      /\ c.discoveries = client.discoveries /\ c.closing = client.closing
      /\ c.watching = client.watching
  BY <1>1 DEF Clients, CapStates
<1> HIDE DEF c
<1>4. ClientOK(c)
  BY <1>2, <1>3 DEF ClientOK
<1>5. ASSUME NEW d, Sends(c, d) PROVE Receives(d)
  BY <1>3, <1>5, ReceivesPlain
<1>6. ClientOK(c) /\ c.phase = "read" /\ \A d : Sends(c, d) => Receives(d)
  BY <1>3, <1>4, <1>5
<1> QED BY <1>6 DEF c

LEMMA CapRequests ==
  {Say("CAP REQ", None), Say("CAP END", None), Say("PING", None), Say("MONITOR-", None),
   Say("ISON", None)} \subseteq ToServer
BY DEF Say, ToServer

LEMMA CapListReads ==
  ASSUME ClientInv, NEW cmd \in {"LS*", "LS"}, HandleCapList(cmd)
  PROVE  Handled
<1>1. Reads(cmd)
  BY DEF HandleCapList
<1>2. /\ client.phase = "read" /\ ClientOK(client) /\ client \in Clients
      /\ Head(wire.in).cmd = cmd /\ Head(wire.in).cmd \notin {"001", "NICK"}
      /\ Head(wire.in) \in FromServer
  BY <1>1, HeadFacts
<1>3. Got \in BOOLEAN
  BY <1>2 DEF Got, FromServer
<1> DEFINE wants == client.wanted \/ Got
           c == [client EXCEPT !.wanted = wants]
           asks == [c EXCEPT !.cap = "asked"]
           ends == [c EXCEPT !.cap = "off"]
<1>4. /\ wants \in BOOLEAN /\ client.cap \in CapStates
      /\ client.pinging \in BOOLEAN /\ client.monitor \in BOOLEAN
  BY <1>2, <1>3 DEF Clients, CapStates
<1>5. \/ Read(client) \/ Read(c)
      \/ Read(Replied(asks, "CAP REQ", None)) \/ Read(Replied(ends, "CAP END", None))
  BY DEF HandleCapList
<1> HIDE DEF wants
<1> DEFINE at(x) == [client EXCEPT !.cap = x, !.wanted = wants, !.pinging = client.pinging,
                                     !.monitor = client.monitor]
<1>6. /\ {"asked", "off", client.cap} \subseteq CapStates
      /\ c = at(client.cap) /\ asks = at("asked") /\ ends = at("off")
  BY <1>2 DEF Clients, CapStates
<1>7. ASSUME NEW x \in CapStates
      PROVE  /\ ClientOK(at(x)) /\ at(x).phase = "read"
             /\ \A d : Sends(at(x), d) => Receives(d)
  <2> HIDE DEF c
  <2>1. wants \in BOOLEAN /\ client.pinging \in BOOLEAN /\ client.monitor \in BOOLEAN
    BY <1>4
  <2>2. PICK e : e = [client EXCEPT !.cap = x, !.wanted = wants,
                                    !.pinging = client.pinging, !.monitor = client.monitor]
    OBVIOUS
  <2>3. /\ x \in CapStates /\ ClientOK(client) /\ client.phase = "read"
        /\ Head(wire.in).cmd \notin {"001", "NICK"}
    BY <1>2
  <2>4. ClientOK(e) /\ e.phase = "read" /\ \A d : Sends(e, d) => Receives(d)
    BY <2>1, <2>2, <2>3, FieldsRead, ZenonT(40)
  <2>5. e = at(x)
    BY <2>2
  <2> HIDE DEF at
  <2> QED BY <2>4, <2>5
<1> HIDE DEF at, c, asks, ends
<1>8. CASE Read(client)
  BY <1>2, <1>8, SendsNothing, ReceivesPlain DEF Handled
<1>9. CASE Read(c)
  <2>1. Sends(c, c) /\ \A d : Sends(c, d) => Receives(d)
    BY <1>4, <1>6, <1>7, SendsNothing
  <2> QED BY <1>9, <2>1 DEF Handled
<1>10. CASE Read(Replied(asks, "CAP REQ", None))
  <2>1. ClientOK(asks) /\ asks.phase = "read" /\ \A d : Sends(asks, d) => Receives(d)
    BY <1>6, <1>7
  <2>2. Sends(asks, Replied(asks, "CAP REQ", None))
    BY <2>1, CapRequests, RepliedSends
  <2> QED BY <1>10, <2>1, <2>2 DEF Handled
<1>11. CASE Read(Replied(ends, "CAP END", None))
  <2>1. ClientOK(ends) /\ ends.phase = "read" /\ \A d : Sends(ends, d) => Receives(d)
    BY <1>6, <1>7
  <2>2. Sends(ends, Replied(ends, "CAP END", None))
    BY <2>1, CapRequests, RepliedSends
  <2> QED BY <1>11, <2>1, <2>2 DEF Handled
<1> QED BY <1>5, <1>8, <1>9, <1>10, <1>11

LEMMA CapReads ==
  ASSUME ClientInv, HandleCapNew \/ HandleCapAck
  PROVE  Handled
<1>1. PICK cmd \in {"NEW", "ACK"} : Reads(cmd)
  BY DEF HandleCapNew, HandleCapAck
<1>2. /\ client.phase = "read" /\ ClientOK(client) /\ client \in Clients
      /\ Head(wire.in).cmd \notin {"001", "NICK"}
  BY <1>1, HeadFacts
<1> DEFINE ends == [client EXCEPT !.cap = "off"]
<1>3. \/ Read(client) \/ Read(Replied(client, "CAP REQ", None))
      \/ Read(Replied(ends, "CAP END", None))
  BY DEF HandleCapNew, HandleCapAck
<1>4. /\ ClientOK(ends) /\ ends.phase = "read" /\ \A d : Sends(ends, d) => Receives(d)
  <2>1. /\ client.wanted \in BOOLEAN /\ client.pinging \in BOOLEAN /\ client.monitor \in BOOLEAN
        /\ "off" \in CapStates
    BY <1>2 DEF Clients, CapStates
  <2>2. ends = [client EXCEPT !.cap = "off", !.wanted = client.wanted,
                              !.pinging = client.pinging, !.monitor = client.monitor]
    BY <1>2 DEF Clients, CapStates
  <2> HIDE DEF ends
  <2> QED BY <1>2, <2>1, <2>2, FieldsRead, Zenon
<1> HIDE DEF ends
<1>5. CASE Read(client)
  BY <1>2, <1>5, SendsNothing, ReceivesPlain DEF Handled
<1>6. CASE Read(Replied(client, "CAP REQ", None))
  <2>1. Sends(client, Replied(client, "CAP REQ", None))
    BY <1>2, CapRequests, RepliedSends
  <2> QED BY <1>2, <1>6, <2>1, ReceivesPlain DEF Handled
<1>7. CASE Read(Replied(ends, "CAP END", None))
  <2>1. Sends(ends, Replied(ends, "CAP END", None))
    BY <1>4, CapRequests, RepliedSends
  <2> QED BY <1>4, <1>7, <2>1 DEF Handled
<1> QED BY <1>3, <1>5, <1>6, <1>7

LEMMA IsupportPongReads ==
  ASSUME ClientInv, HandleIsupport \/ HandlePong
  PROVE  Handled
<1>1. PICK cmd \in {"005", "PONG"} : Reads(cmd)
  BY DEF HandleIsupport, HandlePong
<1>2. /\ client.phase = "read" /\ ClientOK(client) /\ client \in Clients
      /\ Head(wire.in).cmd \notin {"001", "NICK"}
  BY <1>1, HeadFacts
<1>3. /\ client.wanted \in BOOLEAN /\ client.pinging \in BOOLEAN /\ client.monitor \in BOOLEAN
      /\ client.cap \in CapStates /\ TRUE \in BOOLEAN /\ FALSE \in BOOLEAN
  BY <1>2 DEF Clients, CapStates
<1>4. CASE HandleIsupport
  <2> DEFINE c == [client EXCEPT !.monitor = TRUE]
  <2>1. Read(StartNickWatch(c))
    BY <1>4 DEF HandleIsupport
  <2>2. c = [client EXCEPT !.cap = client.cap, !.wanted = client.wanted,
                           !.pinging = client.pinging, !.monitor = TRUE]
    BY <1>2 DEF Clients, CapStates
  <2> HIDE DEF c
  <2>3. ClientOK(c) /\ c.phase = "read" /\ \A d : Sends(c, d) => Receives(d)
    BY <1>2, <1>3, <2>2, FieldsRead, Zenon
  <2> QED BY <2>1, <2>3, StartNickWatchSends DEF Handled
<1>5. CASE HandlePong
  <2> DEFINE c == [client EXCEPT !.pinging = FALSE]
  <2>1. Read(c)
    BY <1>5 DEF HandlePong
  <2>2. c = [client EXCEPT !.cap = client.cap, !.wanted = client.wanted,
                           !.pinging = FALSE, !.monitor = client.monitor]
    BY <1>2 DEF Clients, CapStates
  <2> HIDE DEF c
  <2>3. ClientOK(c) /\ c.phase = "read" /\ \A d : Sends(c, d) => Receives(d)
    BY <1>2, <1>3, <2>2, FieldsRead, Zenon
  <2> QED BY <2>1, <2>3, SendsNothing DEF Handled
<1> QED BY <1>4, <1>5

LEMMA OfflineReads ==
  ASSUME ClientInv, HandleOffline
  PROVE  Handled
<1>1. PICK cmd \in {"303", "731"} : Reads(cmd)
  BY DEF HandleOffline
<1>2. /\ client.phase = "read" /\ ClientOK(client) /\ Head(wire.in).cmd \notin {"001", "NICK"}
  BY <1>1, HeadFacts
<1>3. Read(client) \/ Read(Reclaimed(client))
  BY DEF HandleOffline
<1>4. Sends(client, client) /\ Sends(client, Reclaimed(client))
  BY <1>2, SendsNothing, ReclaimedSends
<1> QED BY <1>2, <1>3, <1>4, ReceivesPlain DEF Handled

\* A line that does name somebody, or brings an identity.
LEMMA ReceivesNamed ==
  ASSUME NEW d, NEW c, Sends(c, d), c.closing = client.closing,
         c.hand = client.hand, c.outbound = client.outbound,
         client.registered => c.registered,
         c.registered => client.registered \/ Head(wire.in).cmd = "001",
         \A name \in Names : Renames(Head(wire.in), Known(client), name) => Known(c) = name
  PROVE  Receives(d)
<1>1. Known(d) = Known(c) /\ d.registered = c.registered
  BY DEF Sends, Known
<1>2. /\ ClientOK(d) /\ d.phase \in {"read", "stop"} /\ d.closing = client.closing
      /\ d.phase = "read" => WorkNumbers(Waiting(d)) = WorkNumbers(Waiting(client))
  BY DEF Sends, Waiting
<1> QED BY <1>1, <1>2 DEF Receives

LEMMA WelcomeReads ==
  ASSUME ClientInv, HandleWelcome
  PROVE  Handled
<1>1. Reads("001")
  BY DEF HandleWelcome
<1>2. /\ client.phase = "read" /\ ClientOK(client) /\ client \in Clients
      /\ Head(wire.in).cmd = "001" /\ Head(wire.in) \in FromServer
  BY <1>1, HeadFacts
<1>3. Got \in Nicks
  BY <1>2 DEF Got, FromServer
<1> DEFINE new == [current |-> TRUE, left |-> IdentityAttempts]
           discoveries == Older(client.discoveries) \union {new}
           c == [client EXCEPT !.cap = "off", !.registered = TRUE, !.collisions = 0,
                   !.nick = Got, !.ident = None, !.discoveries = discoveries]
<1>4. Read(StartNickWatch(c))
  BY DEF HandleWelcome
<1>5. discoveries \in SUBSET [current : BOOLEAN, left : 0..IdentityAttempts]
  <2>1. Older(client.discoveries) \in SUBSET [current : BOOLEAN, left : 0..IdentityAttempts]
    <3>1. Disconnected(client) \in Clients
            /\ Disconnected(client).discoveries = Older(client.discoveries)
      <4>1. Disconnected(client).discoveries = Older(client.discoveries)
        BY <1>2 DEF Disconnected, StopSender, Clients
      <4> QED BY <1>2, <4>1, DisconnectedFrame
    <3>2. Disconnected(client).discoveries \in SUBSET [current : BOOLEAN, left : 0..IdentityAttempts]
      BY <3>1 DEF Clients
    <3> QED BY <3>1, <3>2
  <2>2. new \in [current : BOOLEAN, left : 0..IdentityAttempts]
    <3>1. IdentityAttempts \in 0..IdentityAttempts
      BY ClientAssumption
    <3> QED BY <3>1
  <2> HIDE DEF new
  <2> QED BY <2>1, <2>2
<1> HIDE DEF discoveries
<1>6. 0 \in 0..CollisionLimit
  BY ClientAssumption
<1>7. c \in Clients
  BY <1>2, <1>3, <1>5, <1>6 DEF Clients
<1>8. /\ c.phase = client.phase /\ c.registered = TRUE /\ c.nick = Got
      /\ c.hand = client.hand /\ c.outbound = client.outbound /\ c.ident = None
      /\ c.closing = client.closing
  BY <1>2 DEF Clients
<1> HIDE DEF c
<1>9. ClientOK(c)
  BY <1>2, <1>7, <1>8 DEF ClientOK
<1>10. \A name \in Names : Renames(Head(wire.in), Known(client), name) => Known(c) = name
  BY <1>2, <1>8 DEF Renames, Known, Got
<1>11. Sends(c, StartNickWatch(c))
  BY <1>2, <1>8, <1>9, StartNickWatchSends
<1>12. Receives(StartNickWatch(c))
  BY <1>2, <1>8, <1>10, <1>11, ReceivesNamed
<1> QED BY <1>4, <1>12 DEF Handled

LEMMA UserhostReads ==
  ASSUME ClientInv, HandleUserhost
  PROVE  Handled
<1>1. Reads("302")
  BY DEF HandleUserhost
<1>2. /\ client.phase = "read" /\ ClientOK(client) /\ client \in Clients
      /\ Head(wire.in).cmd \notin {"001", "NICK"} /\ client.registered
  BY <1>1, HeadFacts DEF ClientInv, WireOK
<1> DEFINE c == [client EXCEPT !.ident = client.nick]
<1>3. Read(c) \/ Read(client)
  BY DEF HandleUserhost
<1>4. c \in Clients
  BY <1>2 DEF Clients
<1>5. /\ c.phase = client.phase /\ c.registered = client.registered /\ c.nick = client.nick
      /\ c.hand = client.hand /\ c.outbound = client.outbound /\ c.ident = client.nick
      /\ c.closing = client.closing /\ c.discoveries = client.discoveries
  BY <1>2 DEF Clients
<1> HIDE DEF c
<1>6. ClientOK(c)
  BY <1>2, <1>4, <1>5 DEF ClientOK
<1>7. Sends(c, c) /\ Sends(client, client)
  BY <1>2, <1>5, <1>6, SendsNothing
<1>8. Receives(c) /\ Receives(client)
  BY <1>2, <1>5, <1>7, ReceivesPlain
<1> QED BY <1>3, <1>8 DEF Handled

LEMMA NickReads ==
  ASSUME ClientInv, HandleNick
  PROVE  Handled
<1>1. Reads("NICK")
  BY DEF HandleNick
<1>2. /\ client.phase = "read" /\ ClientOK(client) /\ client \in Clients
      /\ Head(wire.in).cmd = "NICK" /\ Head(wire.in) \in FromServer
  BY <1>1, HeadFacts
<1> DEFINE old == Got[1]
           new == Got[2]
<1>3. old \in Nicks /\ new \in Nicks /\ Got = <<old, new>>
  BY <1>2 DEF Got, FromServer
<1> DEFINE ident == IF client.ident = old THEN new ELSE client.ident
           nick == IF client.nick = old THEN new ELSE client.nick
           c == [client EXCEPT !.nick = nick, !.ident = ident]
           off == [c EXCEPT !.watching = FALSE]
<1>4. [Renamed(client, old, new) EXCEPT !.ident = IF @ = old THEN new ELSE @] = c
  <2> HIDE DEF old, new
  <2> QED BY <1>2 DEF Renamed, Clients
<1>5. /\ Read(c) \/ Read(StartNickWatch(c)) \/ Read(off) \/ Read(Queued(off, "MONITOR-", None))
  BY <1>4 DEF HandleNick
<1> HIDE DEF old, new
<1>6. /\ nick \in Nicks /\ ident \in Nicks \union {None}
      /\ ident # None => client.registered /\ ident = nick
  BY <1>2, <1>3, ClientAssumption DEF ClientOK, Clients
<1> HIDE DEF ident
<1>7. ASSUME Renames(Head(wire.in), Known(client), new) PROVE client.registered /\ nick = new
  <2>1. Known(client) # None /\ Got = <<Known(client), new>>
    BY <1>2, <1>7 DEF Renames, Got
  <2>2. client.registered /\ Known(client) = client.nick
    BY <2>1 DEF Known
  <2>3. client.nick = old
    BY <1>3, <2>1, <2>2
  <2> QED BY <2>2, <2>3
<1>8. ASSUME NEW name, Renames(Head(wire.in), Known(client), name) PROVE name = new
  <2>1. Got = <<Known(client), name>>
    BY <1>2, <1>8 DEF Renames, Got
  <2> QED BY <1>3, <2>1
<1> HIDE DEF nick
<1>9. c \in Clients /\ off \in Clients
  BY <1>2, <1>6 DEF Clients
<1>10. /\ c.phase = client.phase /\ c.registered = client.registered /\ c.nick = nick
       /\ c.hand = client.hand /\ c.outbound = client.outbound /\ c.ident = ident
       /\ c.closing = client.closing /\ c.discoveries = client.discoveries
       /\ off.phase = client.phase /\ off.registered = client.registered /\ off.nick = nick
       /\ off.hand = client.hand /\ off.outbound = client.outbound /\ off.ident = ident
       /\ off.closing = client.closing /\ off.discoveries = client.discoveries
  BY <1>2 DEF Clients
<1> HIDE DEF c, off
<1>11. ClientOK(c) /\ ClientOK(off)
  BY <1>2, <1>6, <1>9, <1>10 DEF ClientOK
<1>12. \A name \in Names : Renames(Head(wire.in), Known(client), name) =>
         Known(c) = name /\ Known(off) = name
  BY <1>7, <1>8, <1>10 DEF Known
<1>13. /\ Sends(c, c) /\ Sends(c, StartNickWatch(c)) /\ Sends(off, off)
       /\ Sends(off, Queued(off, "MONITOR-", None))
  BY <1>2, <1>10, <1>11, SendsNothing, StartNickWatchSends, QueuedSends, CapRequests
<1>14. \A d : Sends(c, d) \/ Sends(off, d) => Receives(d)
  BY <1>10, <1>12, ReceivesNamed
<1> QED BY <1>5, <1>13, <1>14 DEF Handled

\* Every line that the bot reads is handled so.
LEMMA ServerLineReads ==
  ASSUME ClientInv, HandleServerLine
  PROVE  Handled
BY CollisionReads, CapListReads, CapReads, WelcomeReads, IsupportPongReads, UserhostReads,
   NickReads, OfflineReads DEF HandleServerLine

-----------------------------------------------------------------------------
(* The wire *)

LEMMA KnownType ==
  /\ \A c \in Clients : Known(c) \in Names
  /\ \A s \in ServerStates : Told(s) \in Names
BY DEF Known, Told, Names, Clients, ServerStates

\* The bot reads.
LEMMA ReadKeeps ==
  ASSUME ClientInv, client.phase = "read", wire.in # <<>>, NEW d, Read(d), Receives(d)
  PROVE  ClientInv' /\ client' = d /\ wire'.state = wire.state
<1> DEFINE text == Head(wire.in)
           rest == Tail(wire.in)
<1>1. /\ wire \in Wires /\ wire.in \in Seq(FromServer) /\ server \in ServerStates
      /\ WireOK(wire, server, client)
  BY DEF ClientInv, WireOK, Wires
<1>2. /\ text \in FromServer /\ rest \in Seq(FromServer) /\ <<text>> \in Seq(FromServer)
      /\ wire.in = <<text>> \o rest
  BY <1>1, HeadIsCat
<1>3. /\ client' = d /\ wire' = [wire EXCEPT !.in = rest]
      /\ UNCHANGED <<server, taken, work, served, troubles>>
  BY DEF Read
<1>4. wire' \in Wires /\ wire'.in = rest /\ wire'.state = wire.state
  BY <1>1, <1>2, <1>3 DEF Wires
<1>5. ASSUME NEW cmd, Has(rest, cmd) \/ text.cmd = cmd PROVE Has(wire.in, cmd)
  <2> HIDE DEF text, rest
  <2>1. Has(rest, cmd) \/ Has(<<text>>, cmd)
    BY <1>5, HasOne
  <2>2. Has(<<text>> \o rest, cmd)
    BY <1>2, <2>1, HasCat
  <2> QED BY <1>2, <2>2, Zenon
<1>6. /\ ClientOK(d) /\ d.phase \in {"read", "stop"}
      /\ client.registered => d.registered
      /\ d.registered => client.registered \/ text.cmd = "001"
      /\ \A name \in Names : Renames(text, Known(client), name) => Known(d) = name
  BY DEF Receives
<1> HIDE DEF text, rest
<1>7. WireOK(wire', server, d)
  <2>1. Has(rest, "302") => d.registered
    BY <1>1, <1>5, <1>6 DEF WireOK
  <2>2. ASSUME wire.state = "open", d.registered \/ Has(rest, "001") PROVE server.welcomed
    BY <1>1, <1>5, <1>6, <2>2 DEF WireOK
  <2>3. ASSUME wire.state = "open" PROVE Leads(rest, Known(d), Told(server))
    <3>1. Leads(wire.in, Known(client), Told(server))
      BY <1>1, <2>3 DEF WireOK
    <3>2. PICK name \in Names :
            Renames(text, Known(client), name) /\ Leads(rest, name, Told(server))
      BY <1>1, <3>1, LeadsHead DEF text, rest
    <3> QED BY <1>6, <3>2
  <2>4. d.phase \notin {"connect", "wait", "closed"}
    BY <1>6
  <2> QED BY <1>1, <1>4, <2>1, <2>2, <2>3, <2>4 DEF WireOK
<1>8. ClientInv'
  BY <1>3, <1>6, <1>7 DEF ClientInv
<1> QED BY <1>3, <1>4, <1>8

\* The server says something, and what it has of the connection agrees with that.
LEMMA WireGrows ==
  ASSUME NEW w, NEW s, NEW c \in Clients, WireOK(w, s, c), w.state = "open",
         NEW lines \in Seq(FromServer), NEW t \in ServerStates, t.welcomed => t.nick # None,
         s.welcomed => t.welcomed, Has(lines, "001") => t.welcomed,
         Has(lines, "302") => c.registered, Leads(lines, Told(s), Told(t))
  PROVE  WireOK([w EXCEPT !.in = @ \o lines], t, c)
<1>1. w \in Wires /\ w.in \in Seq(FromServer)
  BY DEF WireOK, Wires
<1> DEFINE all == w.in \o lines
           v == [w EXCEPT !.in = @ \o lines]
<1>2. all \in Seq(FromServer)
  BY <1>1, ConcatProperties
<1>3. ASSUME NEW cmd, Has(all, cmd) PROVE Has(w.in, cmd) \/ Has(lines, cmd)
  BY <1>1, <1>3, HasCat
<1>4. Leads(all, Known(c), Told(t))
  <2>1. Leads(w.in, Known(c), Told(s))
    BY DEF WireOK
  <2> QED BY <1>1, <2>1, LeadsCat
<1>5. v \in Wires /\ v.in = all /\ v.state = "open"
  BY <1>1, <1>2 DEF Wires
<1>6. c.phase \notin {"connect", "wait", "closed"}
  BY DEF WireOK, NoWire
<1>7. (c.registered \/ Has(w.in, "001") => s.welcomed) /\ (Has(w.in, "302") => c.registered)
  BY DEF WireOK
<1> HIDE DEF all, v
<1>8. Has(v.in, "302") => c.registered
  BY <1>3, <1>5, <1>7
<1>9. c.registered \/ Has(v.in, "001") => t.welcomed
  BY <1>3, <1>5, <1>7
<1>10. WireOK(v, t, c)
  BY <1>4, <1>5, <1>6, <1>8, <1>9 DEF WireOK
<1> QED BY <1>10 DEF v

LEMMA LinesFacts ==
  /\ <<>> \in Seq(FromServer) /\ Plain(<<>>) /\ ~Has(<<>>, "302")
  /\ \A text \in FromServer :
       /\ <<text>> \in Seq(FromServer)
       /\ \A cmd : Has(<<text>>, cmd) <=> text.cmd = cmd
  /\ \A one \in FromServer, two \in FromServer :
       /\ <<one, two>> \in Seq(FromServer)
       /\ \A cmd : Has(<<one, two>>, cmd) <=> one.cmd = cmd \/ two.cmd = cmd
<1>1. <<>> \in Seq(FromServer)
  OBVIOUS
<1>2. \A text \in FromServer : <<text>> \in Seq(FromServer)
  OBVIOUS
<1>3. ASSUME NEW one \in FromServer, NEW two \in FromServer
      PROVE  /\ <<one, two>> \in Seq(FromServer)
             /\ \A cmd : Has(<<one, two>>, cmd) <=> one.cmd = cmd \/ two.cmd = cmd
  <2>1. /\ <<one, two>> \in Seq(FromServer) /\ DOMAIN <<one, two>> = {1, 2}
        /\ <<one, two>>[1] = one /\ <<one, two>>[2] = two
    OBVIOUS
  <2> QED BY <2>1 DEF Has
<1>4. \A text, cmd : Has(<<text>>, cmd) <=> text.cmd = cmd
  BY HasOne
<1>5. \A cmd : ~Has(<<>>, cmd)
  BY HasNone
<1> QED BY <1>1, <1>2, <1>3, <1>4, <1>5, Zenon DEF Plain

\* Registration ends with the answer, if nothing is missing for it.
LEMMA AnswerKeeps ==
  ASSUME NEW c \in Clients, WireOK(wire, server, c), wire.state = "open",
         NEW s \in ServerStates, s.welcomed = server.welcomed, s.welcomed => s.nick # None,
         NEW replies \in Seq(FromServer), Leads(replies, Told(server), Told(s)),
         Has(replies, "302") => c.registered, ~Has(replies, "001"), Answer(s, replies)
  PROVE  WireOK(wire', server', c) /\ wire'.state = "open"
<1>1. wire \in Wires /\ wire.in \in Seq(FromServer)
  BY DEF WireOK, Wires
<1>2. CASE ~Welcomed(s)
  <2>1. server' = s /\ wire' = [wire EXCEPT !.in = @ \o replies]
    BY <1>2 DEF Answer
  <2>2. WireOK(wire', server', c)
    BY <2>1, WireGrows
  <2> QED BY <1>1, <2>1, <2>2 DEF Wires
<1>3. CASE Welcomed(s)
  <2> DEFINE t == [s EXCEPT !.welcomed = TRUE]
             hello == <<Say("001", s.nick)>>
             more == IF "monitor" \in s.offer THEN <<Say("005", None)>> ELSE <<>>
             lines == (replies \o hello) \o more
  <2>1. s.nick \in Nicks /\ ~s.welcomed
    BY <1>3 DEF Welcomed, ServerStates
  <2>2. t \in ServerStates /\ t.welcomed /\ t.nick = s.nick
    BY DEF ServerStates
  <2>3. /\ Say("001", s.nick) \in FromServer /\ Say("001", s.nick).cmd = "001"
        /\ Say("001", s.nick).arg = s.nick
        /\ Say("005", None) \in FromServer /\ Say("005", None).cmd = "005"
    BY <2>1 DEF Say, FromServer
  <2>4. /\ hello \in Seq(FromServer) /\ more \in Seq(FromServer)
        /\ ~Has(hello, "302") /\ ~Has(more, "302") /\ Plain(more)
    <3>1. hello \in Seq(FromServer) /\ ~Has(hello, "302")
      BY <2>3, LinesFacts
    <3>2. CASE more = <<>>
      BY <3>1, <3>2, LinesFacts
    <3>3. CASE more = <<Say("005", None)>>
      <4>1. more \in Seq(FromServer) /\ \A cmd : Has(more, cmd) <=> cmd = "005"
        BY <2>3, <3>3, LinesFacts
      <4> QED BY <3>1, <4>1 DEF Plain
    <3> QED BY <3>2, <3>3
  <2>5. Leads(hello, Told(s), s.nick)
    <3>1. Told(s) = None /\ None \in Names /\ s.nick \in Names
      BY <2>1 DEF Told, Names
    <3>2. Renames(Say("001", s.nick), Told(s), s.nick)
      BY <2>3, <3>1 DEF Renames
    <3> QED BY <3>1, <3>2, LeadsOne
  <2>6. server' = t /\ wire' = [wire EXCEPT !.in = ((@ \o replies) \o hello) \o more]
    BY <1>3 DEF Answer
  <2> HIDE DEF hello, more
  <2>7. Leads(more, s.nick, s.nick) /\ Told(t) = s.nick
    <3>1. s.nick \in Names
      BY <2>1 DEF Names
    <3> QED BY <2>2, <2>4, <3>1, LeadsPlain DEF Told
  <2>8. replies \o hello \in Seq(FromServer) /\ lines \in Seq(FromServer)
    BY <2>4, ConcatProperties
  <2>9. Leads(lines, Told(server), Told(t))
    <3>1. Leads(replies \o hello, Told(server), s.nick)
      BY <2>4, <2>5, LeadsCat
    <3> QED BY <2>4, <2>7, <2>8, <3>1, LeadsCat
  <2>10. Has(lines, "302") => c.registered
    <3>1. Has(lines, "302") <=> Has(replies \o hello, "302") \/ Has(more, "302")
      BY <2>4, <2>8, HasCat
    <3>2. Has(replies \o hello, "302") <=> Has(replies, "302") \/ Has(hello, "302")
      BY <2>4, HasCat
    <3> QED BY <2>4, <3>1, <3>2
  <2>11. ((wire.in \o replies) \o hello) \o more = wire.in \o lines
    <3>1. /\ wire.in \in Seq(FromServer) /\ replies \in Seq(FromServer)
          /\ hello \in Seq(FromServer) /\ more \in Seq(FromServer)
      BY <1>1, <2>4
    <3>2. PICK p \in Seq(FromServer) : p = wire.in
      BY <3>1
    <3> DEFINE both == replies \o hello
    <3>3. both \in Seq(FromServer) /\ (p \o replies) \o hello = p \o both
      <4>1. both \in Seq(FromServer)
        BY <3>1, ConcatProperties
      <4>2. (p \o replies) \o hello = p \o (replies \o hello)
        BY <3>1, ConcatAssociative
      <4> QED BY <4>1, <4>2
    <3> HIDE DEF both
    <3>4. (p \o both) \o more = p \o (both \o more)
      <4>1. more \in Seq(FromServer) /\ both \in Seq(FromServer)
        BY <3>1, <3>3
      <4> QED BY <4>1, ConcatAssociative
    <3>5. ((p \o replies) \o hello) \o more = p \o (both \o more)
      BY <3>3, <3>4, Zenon
    <3> QED BY <3>2, <3>5 DEF both
  <2> HIDE DEF lines, t
  <2>12. wire' = [wire EXCEPT !.in = @ \o lines]
    BY <2>6, <2>11
  <2>13. WireOK([wire EXCEPT !.in = @ \o lines], t, c)
    <3>1. t.welcomed => t.nick # None
      BY <2>1, <2>2, ClientAssumption
    <3> QED BY <2>2, <2>8, <2>9, <2>10, <3>1, WireGrows
  <2>14. WireOK(wire', server', c)
    BY <2>6, <2>12, <2>13, Zenon
  <2> QED BY <1>1, <2>12, <2>14 DEF Wires
<1> QED BY <1>2, <1>3

\* Replies that name nobody, from a server whose nickname for the bot is what it was.
LEMMA AnswerPlain ==
  ASSUME NEW c \in Clients, WireOK(wire, server, c), wire.state = "open",
         NEW s \in ServerStates, s.welcomed = server.welcomed, s.welcomed => s.nick = server.nick,
         NEW replies \in Seq(FromServer), Plain(replies), Has(replies, "302") => c.registered,
         Answer(s, replies)
  PROVE  WireOK(wire', server', c) /\ wire'.state = "open"
<1>1. server \in ServerStates /\ (server.welcomed => server.nick # None)
  BY DEF WireOK
<1>2. Told(s) = Told(server) /\ Told(s) \in Names
  BY KnownType DEF Told
<1>3. Leads(replies, Told(server), Told(s))
  BY <1>2, LeadsPlain
<1>4. s.welcomed => s.nick # None
  BY <1>1
<1> QED BY <1>3, <1>4, AnswerKeeps DEF Plain

LEMMA ServeNickKeeps ==
  ASSUME NEW c \in Clients, WireOK(wire, server, c), wire.state = "open",
         NEW nick \in Nicks, ServeNick(nick)
  PROVE  WireOK(wire', server', c) /\ wire'.state = "open"
<1>1. server \in ServerStates /\ (server.welcomed => server.nick # None) /\ nick # None
  BY ClientAssumption DEF WireOK
<1> DEFINE s == [server EXCEPT !.nick = nick]
<1>2. /\ s \in ServerStates /\ s.welcomed = server.welcomed /\ s.nick = nick
  BY <1>1 DEF ServerStates
<1>3. Say("433", nick) \in FromServer /\ Say("433", nick).cmd = "433"
  BY DEF Say, FromServer
<1>4. CASE nick \in taken
  <2>1. Answer(server, <<Say("433", nick)>>)
    BY <1>4 DEF ServeNick
  <2>2. /\ <<Say("433", nick)>> \in Seq(FromServer) /\ Plain(<<Say("433", nick)>>)
        /\ ~Has(<<Say("433", nick)>>, "302")
    BY <1>3, LinesFacts DEF Plain
  <2> QED BY <1>1, <2>1, <2>2, AnswerPlain
<1>5. CASE nick \notin taken /\ ~(server.welcomed /\ server.nick # nick)
  <2>1. Answer(s, <<>>)
    BY <1>5 DEF ServeNick
  <2> HIDE DEF s
  <2>2. s.welcomed => s.nick = server.nick
    BY <1>2, <1>5
  <2> QED BY <1>2, <2>1, <2>2, LinesFacts, AnswerPlain
<1>6. CASE nick \notin taken /\ server.welcomed /\ server.nick # nick
  <2> DEFINE text == Say("NICK", <<server.nick, nick>>)
  <2>1. Answer(s, <<text>>)
    BY <1>6 DEF ServeNick
  <2>2. server.nick \in Nicks
    BY <1>1, <1>6 DEF ServerStates
  <2>3. text \in FromServer /\ text.cmd = "NICK" /\ text.arg = <<server.nick, nick>>
    BY <2>2 DEF Say, FromServer
  <2>4. Told(server) = server.nick /\ Told(s) = nick
    BY <1>2, <1>6 DEF Told
  <2> HIDE DEF s, text
  <2>5. Renames(text, server.nick, nick)
    BY <1>1, <1>6, <2>3 DEF Renames
  <2>6. Leads(<<text>>, Told(server), Told(s))
    BY <2>2, <2>4, <2>5, LeadsOne DEF Names
  <2>7. /\ <<text>> \in Seq(FromServer) /\ ~Has(<<text>>, "302") /\ ~Has(<<text>>, "001")
    BY <2>3, LinesFacts
  <2>8. s.welcomed => s.nick # None
    BY <1>1, <1>2
  <2> QED BY <1>2, <2>1, <2>6, <2>7, <2>8, AnswerKeeps
<1> QED BY <1>4, <1>5, <1>6

\* A line that the server answers without naming anybody.
LEMMA ServePlain ==
  ASSUME NEW cmd, NEW arg, arg # None => cmd \in {"USERHOST", "WORK"},
         cmd # "NICK", server \in ServerStates, server.nick # None => server.nick \in Nicks,
         cmd = "USERHOST" => arg \in Nicks, Serve(cmd, arg)
  PROVE  \E s \in ServerStates, replies \in Seq(FromServer) :
           /\ Answer(s, replies) /\ s.welcomed = server.welcomed /\ s.nick = server.nick
           /\ Plain(replies) /\ (Has(replies, "302") => cmd = "USERHOST")
<1> DEFINE Good(s, replies) ==
      /\ s \in ServerStates /\ replies \in Seq(FromServer)
      /\ s.welcomed = server.welcomed /\ s.nick = server.nick
      /\ Plain(replies) /\ (Has(replies, "302") => cmd = "USERHOST")
           capped == [server EXCEPT !.cap = TRUE]
           uncapped == [server EXCEPT !.cap = FALSE]
           user == [server EXCEPT !.user = TRUE]
           on == [server EXCEPT !.monitors = TRUE]
           off == [server EXCEPT !.monitors = FALSE]
<1>1. \A s \in {server, capped, uncapped, user, on, off} :
        s \in ServerStates /\ s.welcomed = server.welcomed /\ s.nick = server.nick
  BY DEF ServerStates
<1> HIDE DEF capped, uncapped, user, on, off
<1>2. /\ Say("ACK", None) \in FromServer /\ Say("PONG", None) \in FromServer
      /\ Say("LS*", "wanted" \in server.offer) \in FromServer /\ Say("LS", FALSE) \in FromServer
      /\ Say("303", ~Free(Desired)) \in FromServer /\ Say("731", FALSE) \in FromServer
      /\ cmd = "USERHOST" => Say("302", IF arg = server.nick THEN arg ELSE None) \in FromServer
  BY DEF Say, FromServer
<1>3. \A x, y : Say(x, y).cmd = x
  BY DEF Say
<1>4. \A s \in {server, uncapped, user, on, off} : Good(s, <<>>)
  BY <1>1, LinesFacts
<1>5. \A s \in {server, on} : \A text \in FromServer :
        text.cmd \notin {"001", "NICK"} /\ (text.cmd = "302" => cmd = "USERHOST")
          => Good(s, <<text>>)
  BY <1>1, LinesFacts DEF Plain
<1>6. Good(capped, <<Say("LS*", "wanted" \in server.offer), Say("LS", FALSE)>>)
  <2> DEFINE one == Say("LS*", "wanted" \in server.offer)
             two == Say("LS", FALSE)
  <2>1. one \in FromServer /\ two \in FromServer /\ one.cmd = "LS*" /\ two.cmd = "LS"
    BY <1>2, <1>3
  <2> HIDE DEF one, two
  <2>2. /\ <<one, two>> \in Seq(FromServer) /\ Plain(<<one, two>>) /\ ~Has(<<one, two>>, "302")
    BY <2>1, LinesFacts DEF Plain
  <2> QED BY <1>1, <2>2 DEF one, two
<1>7. CASE cmd = "CAP LS" /\ "cap" \in server.offer
  <2>1. Answer(capped, <<Say("LS*", "wanted" \in server.offer), Say("LS", FALSE)>>)
    BY <1>7 DEF Serve, capped
  <2> QED BY <1>6, <2>1
<1>8. CASE cmd = "CAP REQ"
  <2>1. Answer(server, <<Say("ACK", None)>>)
    BY <1>8 DEF Serve
  <2>2. Good(server, <<Say("ACK", None)>>)
    BY <1>2, <1>3, <1>5
  <2> QED BY <2>1, <2>2
<1>9. CASE cmd = "CAP END"
  <2>1. Answer(uncapped, <<>>)
    BY <1>9 DEF Serve, uncapped
  <2> QED BY <1>4, <2>1
<1>10. CASE cmd = "USER"
  <2>1. Answer(user, <<>>)
    BY <1>10 DEF Serve, user
  <2> QED BY <1>4, <2>1
<1>11. CASE cmd = "USERHOST"
  <2> DEFINE text == Say("302", IF arg = server.nick THEN arg ELSE None)
  <2>1. Answer(server, <<text>>)
    BY <1>11 DEF Serve
  <2>2. text \in FromServer /\ text.cmd = "302"
    BY <1>2, <1>3, <1>11
  <2> HIDE DEF text
  <2>3. Good(server, <<text>>)
    BY <1>5, <1>11, <2>2
  <2> QED BY <2>1, <2>3
<1>12. CASE cmd = "ISON"
  <2>1. Answer(server, <<Say("303", ~Free(Desired))>>)
    BY <1>12 DEF Serve
  <2>2. Good(server, <<Say("303", ~Free(Desired))>>)
    BY <1>2, <1>3, <1>5
  <2> QED BY <2>1, <2>2
<1>13. CASE cmd = "MONITOR+"
  <2>1. Answer(on, <<>>) \/ Answer(on, <<Say("731", FALSE)>>)
    BY <1>13 DEF Serve, on
  <2>2. Good(on, <<>>) /\ Good(on, <<Say("731", FALSE)>>)
    BY <1>2, <1>3, <1>4, <1>5
  <2> QED BY <2>1, <2>2
<1>14. CASE cmd = "MONITOR-"
  <2>1. Answer(off, <<>>)
    BY <1>14 DEF Serve, off
  <2> QED BY <1>4, <2>1
<1>15. CASE cmd = "PING"
  <2>1. Answer(server, <<Say("PONG", None)>>)
    BY <1>15 DEF Serve
  <2>2. Good(server, <<Say("PONG", None)>>)
    BY <1>2, <1>3, <1>5
  <2> QED BY <2>1, <2>2
<1>16. CASE /\ ~(cmd = "CAP LS" /\ "cap" \in server.offer)
            /\ cmd \notin {"CAP REQ", "CAP END", "USER", "USERHOST", "ISON", "MONITOR+",
                           "MONITOR-", "PING", "NICK"}
  <2>1. Answer(server, <<>>)
    BY <1>16 DEF Serve
  <2> QED BY <1>4, <2>1
<1> QED
  BY <1>7, <1>8, <1>9, <1>10, <1>11, <1>12, <1>13, <1>14, <1>15, <1>16

LEMMA WriteKeeps ==
  ASSUME NEW c \in Clients, WireOK(wire, server, c), NEW cmd, NEW arg,
         Say(cmd, arg) \in ToServer, cmd = "USERHOST" => c.registered, Write(cmd, arg)
  PROVE  WireOK(wire', server', c) /\ wire'.state = wire.state
<1>1. CASE wire.state # "open"
  <2>1. wire' = wire /\ server' = server
    BY <1>1 DEF Write
  <2> QED BY <2>1
<1>2. CASE wire.state = "open" /\ cmd = "NICK"
  <2>1. arg \in Nicks
    BY <1>2 DEF Say, ToServer
  <2>2. Serve(cmd, arg)
    BY <1>2 DEF Write
  <2>3. ServeNick(arg)
    BY <1>2, <2>2 DEF Serve
  <2> QED BY <1>2, <2>1, <2>3, ServeNickKeeps
<1>3. CASE wire.state = "open" /\ cmd # "NICK"
  <2>1. /\ arg # None => cmd \in {"USERHOST", "WORK"}
        /\ cmd = "USERHOST" => arg \in Nicks
    BY <1>3 DEF Say, ToServer
  <2>2. Serve(cmd, arg)
    BY <1>3 DEF Write
  <2>3. server \in ServerStates /\ (server.nick # None => server.nick \in Nicks)
    BY DEF WireOK, ServerStates
  <2>4. PICK s \in ServerStates, replies \in Seq(FromServer) :
          /\ Answer(s, replies) /\ s.welcomed = server.welcomed /\ s.nick = server.nick
          /\ Plain(replies) /\ (Has(replies, "302") => cmd = "USERHOST")
    BY <1>3, <2>1, <2>2, <2>3, ServePlain
  <2> QED BY <1>3, <2>4, AnswerPlain
<1> QED BY <1>1, <1>2, <1>3

-----------------------------------------------------------------------------
(* The steps keep the invariant *)

LEMMA InvFacts ==
  ASSUME ClientInv
  PROVE  /\ ClientOK(client) /\ client \in Clients /\ WireOK(wire, server, client)
         /\ wire \in Wires /\ wire.in \in Seq(FromServer) /\ server \in ServerStates
         /\ taken \subseteq Nicks /\ work \in 0..MaxWork /\ served \in Seq(1..MaxWork)
         /\ client.outbound \in Seq(ToServer) /\ client.hand \in Seq(ToServer)
BY ClientQueues DEF ClientInv, ClientOK, WireOK, Wires

\* A connection that is not open, or whose bot and server have the nicknames they had.
LEMMA WireSame ==
  ASSUME NEW w, NEW s, NEW c, WireOK(w, s, c), NEW d,
         d.registered = c.registered, d.nick = c.nick,
         d.phase \in {"connect", "wait", "closed"} => w = NoWire
  PROVE  WireOK(w, s, d)
<1>1. Known(d) = Known(c)
  BY DEF Known
<1> QED BY <1>1 DEF WireOK

LEMMA NoWireOK ==
  ASSUME NEW s \in ServerStates, s.welcomed => s.nick # None, NEW c
  PROVE  WireOK(NoWire, s, c)
<1>1. NoWire \in Wires /\ NoWire.in = <<>> /\ NoWire.state = "none"
  BY DEF NoWire, Wires
<1>2. ~Has(<<>>, "302")
  BY HasNone
<1> QED BY <1>1, <1>2 DEF WireOK

LEMMA NoServerOK == NoServer \in ServerStates /\ ~NoServer.welcomed /\ NoServer.nick = None
BY DEF NoServer, ServerStates

LEMMA CloseSocketKeeps ==
  ASSUME ClientInv, NEW state \in {"none", "ended"}, CloseSocket(state), NEW c,
         c.registered = client.registered, c.phase \in {"connect", "wait", "closed"} => state = "none"
  PROVE  WireOK(wire', server', c) /\ taken' \subseteq Nicks
<1>1. /\ wire \in Wires /\ server \in ServerStates /\ taken \subseteq Nicks
      /\ WireOK(wire, server, client)
  BY InvFacts
<1>2. taken' \subseteq Nicks
  BY <1>1 DEF CloseSocket, ServerStates
<1>3. server' \in ServerStates /\ ~server'.welcomed
  BY NoServerOK DEF CloseSocket
<1>4. CASE state = "none"
  <2>1. wire' = NoWire
    BY <1>4 DEF CloseSocket, NoWire
  <2> QED BY <1>2, <1>3, <2>1, NoWireOK
<1>5. CASE state = "ended"
  <2>1. wire' \in Wires /\ wire'.state = "ended" /\ wire'.in = wire.in
    BY <1>1, <1>5 DEF CloseSocket, Wires
  <2>2. Has(wire.in, "302") => c.registered
    BY <1>1 DEF WireOK
  <2> QED BY <1>2, <1>3, <1>5, <2>1, <2>2 DEF WireOK
<1> QED BY <1>4, <1>5

LEMMA ReadStep ==
  ASSUME ClientInv, HandleServerLine
  PROVE  \E d : Receives(d) /\ ClientInv' /\ client' = d /\ wire'.state = wire.state
                 /\ client.phase = "read" /\ served' = served
<1>1. PICK d : Read(d) /\ Receives(d)
  BY ServerLineReads DEF Handled
<1>2. client.phase = "read" /\ wire.in # <<>>
  BY DEF HandleServerLine, HandleCollision, HandleCapList, HandleCapNew, HandleCapAck,
         HandleWelcome, HandleIsupport, HandleUserhost, HandleNick, HandleOffline, HandlePong, Reads
<1>3. ClientInv' /\ client' = d /\ wire'.state = wire.state
  BY <1>1, <1>2, ReadKeeps
<1>4. served' = served
  BY <1>1 DEF Read
<1> QED BY <1>1, <1>2, <1>3, <1>4

\* What establish queues.
Registration == <<Say("CAP LS", None), Say("NICK", Desired), Say("USER", None)>>

LEMMA ThreeLines ==
  ASSUME NEW S, NEW x \in S, NEW y \in S, NEW z \in S
  PROVE  /\ <<x, y, z>> \in Seq(S) /\ Len(<<x, y, z>>) = 3
         /\ \A i \in DOMAIN <<x, y, z>> : <<x, y, z>>[i] \in {x, y, z}
         /\ <<x, y, z>> = Append(Append(Append(<<>>, x), y), z)
         /\ Append(<<>>, x) \in Seq(S) /\ Append(Append(<<>>, x), y) \in Seq(S)
OBVIOUS

LEMMA RegistrationLines ==
  /\ Registration \in Seq(ToServer) /\ Len(Registration) = 3 /\ ~Has(Registration, "USERHOST")
  /\ WorkNumbers(Registration) = <<>>
<1> DEFINE a == Say("CAP LS", None)
           b == Say("NICK", Desired)
           c == Say("USER", None)
<1>1. /\ a \in ToServer /\ b \in ToServer /\ c \in ToServer
      /\ a.cmd = "CAP LS" /\ b.cmd = "NICK" /\ c.cmd = "USER"
  BY ClientAssumption DEF Say, ToServer
<1> HIDE DEF a, b, c
<1> DEFINE q == <<a, b, c>>
<1>3. /\ q \in Seq(ToServer) /\ Len(q) = 3 /\ \A i \in DOMAIN q : q[i] \in {a, b, c}
      /\ q = Append(Append(Append(<<>>, a), b), c)
      /\ Append(<<>>, a) \in Seq(ToServer) /\ Append(Append(<<>>, a), b) \in Seq(ToServer)
  <2> HIDE DEF q
  <2>1. q = <<a, b, c>>
    BY DEF q
  <2>2. /\ <<a, b, c>> \in Seq(ToServer) /\ Len(<<a, b, c>>) = 3
        /\ \A i \in DOMAIN <<a, b, c>> : <<a, b, c>>[i] \in {a, b, c}
    BY <1>1, ThreeLines, Zenon
  <2>3. <<a, b, c>> = Append(Append(Append(<<>>, a), b), c)
    OBVIOUS
  <2>4. Append(<<>>, a) \in Seq(ToServer)
    <3>1. <<>> \in Seq(ToServer)
      OBVIOUS
    <3> QED BY <1>1, <3>1, AppendProperties
  <2>5. Append(Append(<<>>, a), b) \in Seq(ToServer)
    BY <1>1, <2>4, AppendProperties
  <2> QED BY <2>1, <2>2, <2>3, <2>4, <2>5
<1> HIDE DEF q
<1>4. ASSUME Has(q, "USERHOST") PROVE FALSE
  <2>1. PICK i \in DOMAIN q : q[i].cmd = "USERHOST"
    BY <1>4 DEF Has
  <2> QED BY <1>1, <1>3, <2>1
<1>5. ~IsWork(a) /\ ~IsWork(b) /\ ~IsWork(c)
  BY <1>1 DEF IsWork
<1>6. WorkNumbers(q) = <<>>
  <2>1. <<>> \in Seq(ToServer)
    OBVIOUS
  <2>2. WorkNumbers(Append(<<>>, a)) = <<>>
    BY <1>1, <1>5, <2>1, NumbersBehind, NumbersEmpty
  <2>3. WorkNumbers(Append(Append(<<>>, a), b)) = <<>>
    BY <1>1, <1>3, <1>5, <2>2, NumbersBehind
  <2>4. WorkNumbers(Append(Append(Append(<<>>, a), b), c)) = <<>>
    BY <1>1, <1>3, <1>5, <2>3, NumbersBehind
  <2> QED BY <1>3, <2>4
<1> QED BY <1>3, <1>4, <1>6 DEF q, a, b, c, Registration

LEMMA EstablishKeeps ==
  ASSUME ClientInv, NEW offer \in Offers, Establish(offer)
  PROVE  ClientInv'
<1> DEFINE queue == <<Say("CAP LS", None), Say("NICK", Desired), Say("USER", None)>>
           s == [NoServer EXCEPT !.offer = offer]
           w == [NoWire EXCEPT !.state = "open"]
<1>1. /\ client' = [client EXCEPT !.phase = "read", !.closing = FALSE, !.registered = FALSE,
           !.nick = Desired, !.collisions = 0, !.cap = "ls", !.wanted = FALSE, !.pinging = FALSE,
           !.outbound = queue]
      /\ wire' = w /\ server' = s /\ client.phase = "connect"
      /\ UNCHANGED <<taken, work, served>>
  BY DEF Establish
<1>2. /\ queue \in Seq(ToServer) /\ Len(queue) = 3 /\ ~Has(queue, "USERHOST")
  BY RegistrationLines DEF Registration
<1> HIDE DEF queue
<1>3. client \in Clients /\ ClientOK(client) /\ Desired \in Nicks /\ 0 \in 0..CollisionLimit
        /\ Desired # None /\ OutboundLimit \in Nat /\ OutboundLimit >= 3
  BY InvFacts, ClientAssumption
<1>4. client' \in Clients
  BY <1>1, <1>2, <1>3 DEF Clients
<1>5. /\ client'.phase = "read" /\ client'.registered = FALSE /\ client'.outbound = queue
      /\ client'.hand = client.hand /\ client'.ident = client.ident
      /\ client'.discoveries = client.discoveries
  BY <1>1, <1>3 DEF Clients
<1>6. ClientOK(client')
  <2>1. client'.hand = <<>> /\ client'.ident = None /\ Len(<<>>) = 0 /\ ~Has(<<>>, "USERHOST")
    BY <1>1, <1>3, <1>5, HasNone DEF ClientOK
  <2>2. \A d \in client'.discoveries : ~d.current
    BY <1>1, <1>3, <1>5 DEF ClientOK
  <2> QED BY <1>2, <1>3, <1>4, <1>5, <2>1, <2>2 DEF ClientOK
<1>7. WireOK(wire', server', client')
  <2>1. /\ w \in Wires /\ w.in = <<>> /\ w.state = "open"
        /\ s \in ServerStates /\ ~s.welcomed
    <3>1. offer \in SUBSET Features /\ <<>> \in Seq(FromServer)
      BY ClientAssumption, LinesFacts
    <3>2. w \in Wires /\ w.in = <<>> /\ w.state = "open"
      BY <3>1 DEF NoWire, Wires
    <3>3. s \in ServerStates /\ ~s.welcomed
      BY <3>1 DEF NoServer, ServerStates
    <3> QED BY <3>2, <3>3
  <2>2. Known(client') = None /\ Told(s) = None
    BY <1>5, <2>1 DEF Known, Told
  <2>3. <<>> \in Seq(FromServer) /\ Plain(<<>>) /\ ~Has(<<>>, "302") /\ ~Has(<<>>, "001")
    BY LinesFacts DEF Plain
  <2>4. Leads(<<>>, None, None)
    BY <2>3, LeadsPlain DEF Names
  <2> QED BY <1>1, <1>5, <2>1, <2>2, <2>3, <2>4 DEF WireOK
<1> QED BY <1>1, <1>6, <1>7, InvFacts DEF ClientInv

LEMMA EndingKeeps ==
  ASSUME ClientInv, EstablishFails \/ ConnectionEnds
  PROVE  ClientInv'
<1>1. /\ ClientOK(client) /\ client \in Clients /\ WireOK(wire, server, client)
      /\ UNCHANGED <<wire, server, taken, work, served>>
  BY InvFacts DEF EstablishFails, ConnectionEnds
<1> DEFINE d == Disconnected(client)
<1>2. /\ d \in Clients /\ d.phase = "stop" /\ d.outbound = <<>> /\ d.hand = <<>>
      /\ d.ident = None /\ d.watching = FALSE /\ d.nick = client.nick
      /\ d.registered = client.registered
      /\ \A x \in d.discoveries : x.current = FALSE
  BY <1>1, DisconnectedFrame
<1>3. ClientOK(d)
  BY <1>1, DisconnectedSends DEF Sends
<1> HIDE DEF d
<1>4. CASE client' = d
  <2>1. WireOK(wire, server, d)
    BY <1>1, <1>2, WireSame
  <2> QED BY <1>1, <1>3, <1>4, <2>1, InvFacts DEF ClientInv
<1>5. CASE client.phase = "connect" /\ client' = [d EXCEPT !.registered = FALSE]
  <2> DEFINE e == [d EXCEPT !.registered = FALSE]
  <2>1. e \in Clients /\ e.registered = FALSE /\ e.phase = "stop" /\ e.outbound = <<>>
          /\ e.hand = <<>> /\ e.ident = None /\ e.watching = FALSE
          /\ e.discoveries = d.discoveries
    BY <1>2 DEF Clients
  <2> HIDE DEF e
  <2>2. ClientOK(e)
    <3>1. Len(<<>>) = 0 /\ OutboundLimit \in Nat /\ ~Has(<<>>, "USERHOST")
      BY ClientAssumption, HasNone
    <3>2. \A x \in e.discoveries : ~x.current
      BY <1>2, <2>1
    <3>3. Len(e.outbound) <= OutboundLimit /\ Len(e.hand) <= 1
            /\ ~Has(e.outbound, "USERHOST") /\ ~Has(e.hand, "USERHOST")
      BY <2>1, <3>1
    <3> QED BY <2>1, <3>2, <3>3 DEF ClientOK
  <2>3. WireOK(wire, server, e)
    <3>1. wire = NoWire /\ server \in ServerStates /\ (server.welcomed => server.nick # None)
      BY <1>1, <1>5 DEF WireOK
    <3>2. WireOK(NoWire, server, e)
      BY <3>1, NoWireOK
    <3> QED BY <3>1, <3>2, Zenon
  <2>4. client' = e
    BY <1>5 DEF e
  <2> QED BY <1>1, <2>2, <2>3, <2>4, InvFacts DEF ClientInv
<1> QED BY <1>4, <1>5 DEF EstablishFails, ConnectionEnds, d

\* A step of the bot alone.
LEMMA ClientMoves ==
  ASSUME ClientInv, ClientOK(client'), client'.registered = client.registered,
         client'.nick = client.nick, client'.phase \in {"connect", "wait", "closed"} => wire = NoWire,
         UNCHANGED <<wire, server, taken, served>>, work' \in 0..MaxWork
  PROVE  ClientInv'
<1>1. WireOK(wire, server, client)
  BY InvFacts
<1>2. WireOK(wire, server, client')
  BY <1>1, WireSame
<1> QED BY <1>2, InvFacts DEF ClientInv

\* WorkNumbers of lines to the server.
LEMMA WorkTypes ==
  ASSUME NEW lines \in Seq(ToServer)
  PROVE  /\ WorkNumbers(lines) \in Seq(1..MaxWork)
         /\ \A text \in ToServer :
              WorkNumbers(<<text>> \o lines) =
                IF IsWork(text) THEN <<text.arg>> \o WorkNumbers(lines) ELSE WorkNumbers(lines)
<1> DEFINE T == 1..MaxWork
<1>1. \A text \in ToServer : IsWork(text) => text.arg \in T
  BY DEF IsWork, ToServer
<1>2. Say("USER", None) \in ToServer
  BY DEF Say, ToServer
<1> HIDE DEF T
<1>3. ASSUME NEW text \in ToServer
      PROVE  /\ WorkNumbers(lines) \in Seq(T)
             /\ WorkNumbers(<<text>> \o lines) =
                  IF IsWork(text) THEN <<text.arg>> \o WorkNumbers(lines) ELSE WorkNumbers(lines)
  <2>1. WorkNumbers(lines) \in Seq(T)
    BY <1>1, NumbersInFront
  <2>2. WorkNumbers(<<text>> \o lines) =
          IF IsWork(text) THEN <<text.arg>> \o WorkNumbers(lines) ELSE WorkNumbers(lines)
    BY <1>1, <2>1, NumbersInFront
  <2> QED BY <2>1, <2>2
<1> QED BY <1>2, <1>3 DEF T

LEMMA SendWorkKeeps ==
  ASSUME ClientInv, SendWork
  PROVE  ClientInv'
<1>1. /\ client' = Queued(client, "WORK", work + 1) /\ work' = work + 1 /\ work < MaxWork
      /\ client.phase = "read" /\ UNCHANGED <<wire, server, taken, served>>
  BY DEF SendWork
<1>2. work + 1 \in 1..MaxWork /\ work' \in 0..MaxWork
  BY <1>1, InvFacts, ClientAssumption
<1>3. Say("WORK", work + 1) \in ToServer
  BY <1>2 DEF Say, ToServer
<1>4. ClientOK(client) /\ client \in Clients
  BY InvFacts
<1>5. ClientOK(client')
  BY <1>1, <1>3, <1>4, QueuedOK
<1>6. /\ client'.registered = client.registered /\ client'.nick = client.nick
      /\ client'.phase = "read"
  BY <1>1, <1>4, QueuedFrame
<1> QED BY <1>1, <1>2, <1>5, <1>6, ClientMoves

LEMMA TakeLineKeeps ==
  ASSUME ClientInv, TakeLine
  PROVE  /\ ClientInv' /\ client'.phase = "read" /\ client.phase = "read"
         /\ Waiting(client') = Waiting(client)
<1> DEFINE text == Head(client.outbound)
           rest == Tail(client.outbound)
<1>1. /\ client.outbound # <<>> /\ client.hand = <<>>
      /\ client' = [client EXCEPT !.hand = <<text>>, !.outbound = rest]
      /\ UNCHANGED <<wire, server, taken, work, served>>
  BY DEF TakeLine
<1>2. /\ ClientOK(client) /\ client \in Clients /\ client.outbound \in Seq(ToServer)
      /\ work \in 0..MaxWork /\ OutboundLimit \in Nat
  BY InvFacts, ClientAssumption
<1>3. /\ text \in ToServer /\ rest \in Seq(ToServer) /\ <<text>> \in Seq(ToServer)
      /\ client.outbound = <<text>> \o rest /\ Len(client.outbound) = Len(rest) + 1
      /\ Len(rest) \in Nat /\ Len(<<text>>) = 1
  BY <1>1, <1>2, HeadIsCat, LenProperties
<1>4. \A cmd : Has(rest, cmd) \/ Has(<<text>>, cmd) => Has(client.outbound, cmd)
  <2> HIDE DEF text, rest
  <2>1. \A cmd : Has(<<text>> \o rest, cmd) <=> Has(<<text>>, cmd) \/ Has(rest, cmd)
    BY <1>3, HasCat
  <2> QED BY <1>3, <2>1, Zenon
<1>5. <<>> \o client.outbound = client.outbound
  BY <1>2, EmptyCat
<1> HIDE DEF text, rest
<1>6. client' \in Clients
  BY <1>1, <1>2, <1>3 DEF Clients
<1>7. /\ client'.hand = <<text>> /\ client'.outbound = rest /\ client'.phase = client.phase
      /\ client'.registered = client.registered /\ client'.nick = client.nick
      /\ client'.ident = client.ident /\ client'.discoveries = client.discoveries
  BY <1>1, <1>2 DEF Clients
<1>8. client.phase = "read"
  BY <1>1, <1>2 DEF ClientOK
<1>9. ClientOK(client')
  <2>1. Len(client'.outbound) <= OutboundLimit /\ Len(client'.hand) <= 1
    BY <1>2, <1>3, <1>7 DEF ClientOK
  <2>2. Has(client'.outbound, "USERHOST") \/ Has(client'.hand, "USERHOST") => client'.registered
    BY <1>2, <1>4, <1>7 DEF ClientOK
  <2> QED BY <1>2, <1>6, <1>7, <1>8, <2>1, <2>2 DEF ClientOK
<1>10. ClientInv'
  BY <1>1, <1>2, <1>7, <1>8, <1>9, ClientMoves
<1>11. Waiting(client') = Waiting(client)
  BY <1>1, <1>3, <1>5, <1>7 DEF Waiting
<1> QED BY <1>7, <1>8, <1>10, <1>11

LEMMA PollKeeps ==
  ASSUME ClientInv, PollNick
  PROVE  /\ ClientInv' /\ client'.phase = "read" /\ client.phase = "read"
         /\ WorkNumbers(Waiting(client')) = WorkNumbers(Waiting(client))
<1>1. ClientOK(client) /\ client \in Clients /\ work \in 0..MaxWork
  BY InvFacts
<1>2. client.phase = "read" /\ UNCHANGED <<wire, server, taken, work, served>>
  BY <1>1 DEF PollNick, ClientOK
<1> DEFINE off == [client EXCEPT !.watching = FALSE]
<1>3. off \in Clients
  BY <1>1 DEF Clients
<1>4. /\ off.hand = client.hand /\ off.outbound = client.outbound /\ off.phase = client.phase
      /\ off.registered = client.registered /\ off.nick = client.nick
      /\ off.ident = client.ident /\ off.discoveries = client.discoveries
      /\ off.closing = client.closing
  BY <1>1 DEF Clients
<1>5. client' = off \/ client' = Queued(client, "ISON", None)
  BY DEF PollNick
<1> HIDE DEF off
<1>6. ClientOK(off)
  BY <1>1, <1>2, <1>3, <1>4 DEF ClientOK
<1>7. Sends(client, off) /\ off.phase = "read"
  BY <1>2, <1>4, <1>6 DEF Sends, Waiting
<1>8. Sends(client, Queued(client, "ISON", None)) /\ Queued(client, "ISON", None).phase = "read"
  BY <1>1, <1>2, QueuedSends, CapRequests
<1>9. Sends(client, client') /\ client'.phase = "read"
  <2>1. CASE client' = off
    BY <1>7, <2>1
  <2>2. CASE client' = Queued(client, "ISON", None)
    BY <1>8, <2>2
  <2> QED BY <1>5, <2>1, <2>2
<1> QED BY <1>1, <1>2, <1>9, ClientMoves DEF Sends

LEMMA BackOffKeeps ==
  ASSUME ClientInv, NEW stable, BackOff(stable)
  PROVE  ClientInv'
<1>1. ClientOK(client) /\ client \in Clients /\ work \in 0..MaxWork
      /\ WireOK(wire, server, client) /\ client.phase = "wait"
      /\ UNCHANGED <<wire, server, taken, work, served>>
      /\ client' = [client EXCEPT !.phase = "connect", !.index = NextServer(stable)]
  BY InvFacts DEF BackOff
<1>2. NextServer(stable) \in 0 .. Servers - 1
  <2>1. client.index \in 0 .. Servers - 1 /\ Servers \in Nat \ {0}
    BY <1>1, ClientAssumption DEF Clients
  <2>2. (client.index + 1) % Servers \in 0 .. Servers - 1
    BY <2>1
  <2> QED BY <2>1, <2>2 DEF NextServer
<1> DEFINE n == NextServer(stable)
<1> HIDE DEF n
<1>3. client' = [client EXCEPT !.phase = "connect", !.index = n] /\ n \in 0 .. Servers - 1
  BY <1>1, <1>2 DEF n
<1>4. client' \in Clients
  BY <1>1, <1>3 DEF Clients
<1>5. /\ client'.hand = client.hand /\ client'.outbound = client.outbound
      /\ client'.phase = "connect"
      /\ client'.registered = client.registered /\ client'.nick = client.nick
      /\ client'.ident = client.ident /\ client'.discoveries = client.discoveries
      /\ client'.watching = client.watching
  BY <1>1, <1>3 DEF Clients
<1>6. ClientOK(client')
  BY <1>1, <1>4, <1>5 DEF ClientOK
<1>7. wire = NoWire
  BY <1>1 DEF WireOK
<1> QED BY <1>1, <1>5, <1>6, <1>7, ClientMoves

\* A step that writes.
LEMMA WriteMoves ==
  ASSUME ClientInv, NEW cmd, NEW arg, Say(cmd, arg) \in ToServer,
         cmd = "USERHOST" => client.registered, Write(cmd, arg),
         ClientOK(client'), client'.registered = client.registered,
         client'.nick = client.nick, client'.phase = "read",
         UNCHANGED <<taken, work>>, served' \in Seq(1..MaxWork)
  PROVE  ClientInv' /\ wire'.state = wire.state
<1>1. WireOK(wire, server, client) /\ client \in Clients
  BY InvFacts
<1>2. WireOK(wire', server', client) /\ wire'.state = wire.state
  BY <1>1, WriteKeeps
<1>3. WireOK(wire', server', client')
  BY <1>2, WireSame
<1> QED BY <1>2, <1>3, InvFacts DEF ClientInv

LEMMA IdlePingKeeps ==
  ASSUME ClientInv, IdlePing
  PROVE  /\ ClientInv' /\ wire'.state = wire.state /\ client.phase = "read"
         /\ client'.phase = "read" /\ Waiting(client') = Waiting(client)
<1>1. /\ ClientOK(client) /\ client \in Clients /\ client.phase = "read"
      /\ client' = [client EXCEPT !.pinging = TRUE] /\ Write("PING", None)
      /\ UNCHANGED <<taken, work, served>> /\ served \in Seq(1..MaxWork)
  BY InvFacts DEF IdlePing, Quiet
<1>2. client' \in Clients
  BY <1>1 DEF Clients
<1>3. /\ client'.hand = client.hand /\ client'.outbound = client.outbound
      /\ client'.phase = client.phase
      /\ client'.registered = client.registered /\ client'.nick = client.nick
      /\ client'.ident = client.ident /\ client'.discoveries = client.discoveries
  BY <1>1 DEF Clients
<1>4. ClientOK(client')
  BY <1>1, <1>2, <1>3 DEF ClientOK
<1>5. Say("PING", None) \in ToServer
  BY CapRequests
<1>6. ClientInv' /\ wire'.state = wire.state
  BY <1>1, <1>3, <1>4, <1>5, WriteMoves
<1> QED BY <1>1, <1>3, <1>6 DEF Waiting

\* The hand holds the line that is written.
LEMMA HandFacts ==
  ASSUME ClientInv, client.hand # <<>>
  PROVE  /\ client.phase = "read" /\ client.hand[1] \in ToServer
         /\ client.hand = <<client.hand[1]>> /\ Has(client.hand, client.hand[1].cmd)
         /\ client.hand[1] = Say(client.hand[1].cmd, client.hand[1].arg)
<1>1. ClientOK(client) /\ client.hand \in Seq(ToServer) /\ Len(client.hand) <= 1
  BY InvFacts DEF ClientOK
<1>2. client.phase = "read"
  BY <1>1 DEF ClientOK
<1>3. Len(client.hand) = 1 /\ client.hand[1] \in ToServer /\ 1 \in DOMAIN client.hand
  <2> DEFINE q == client.hand
  <2>1. q \in Seq(ToServer) /\ q # <<>> /\ Len(q) <= 1
    BY <1>1
  <2> HIDE DEF q
  <2>2. Len(q) \in Nat \ {0} /\ DOMAIN q = 1 .. Len(q)
    BY <2>1, EmptySeq, LenProperties
  <2>3. Len(q) = 1 /\ 1 \in DOMAIN q
    BY <2>1, <2>2
  <2>4. q[1] \in ToServer
    BY <2>1, <2>3, ElementOfSeq
  <2> QED BY <2>3, <2>4 DEF q
<1>4. client.hand = <<client.hand[1]>>
  <2> DEFINE q == client.hand
             x == q[1]
  <2> HIDE DEF q, x
  <2>1. <<x>> \in Seq(ToServer) /\ Len(<<x>>) = 1 /\ <<x>>[1] = x
    BY <1>3 DEF q, x
  <2>2. q \in Seq(ToServer) /\ Len(q) = 1 /\ q[1] = x
    BY <1>1, <1>3 DEF q, x
  <2>3. \A i \in 1 .. Len(q) : q[i] = <<x>>[i]
    BY <2>1, <2>2
  <2>4. q = <<x>>
    BY <2>1, <2>2, <2>3, SeqEqual
  <2> QED BY <2>4 DEF q, x
<1>5. ASSUME NEW text \in ToServer PROVE text = Say(text.cmd, text.arg)
  <2>1. PICK A, B : text \in [cmd : A, arg : B]
    BY DEF ToServer
  <2> QED BY <2>1 DEF Say
<1> QED BY <1>2, <1>3, <1>4, <1>5 DEF Has

\* The hand is empty, and the queue is as it was.
LEMMA HandEmpty ==
  ASSUME ClientInv, client.hand # <<>>, NEW closing \in BOOLEAN,
         client' = [client EXCEPT !.hand = <<>>, !.closing = closing]
  PROVE  /\ ClientOK(client') /\ client'.phase = "read"
         /\ client'.registered = client.registered /\ client'.nick = client.nick
         /\ client'.hand = <<>> /\ client'.outbound = client.outbound
         /\ client'.ident = client.ident
<1>1. ClientOK(client) /\ client \in Clients /\ client.phase = "read"
  BY InvFacts, HandFacts
<1>2. <<>> \in Seq(ToServer) /\ Len(<<>>) <= 1 /\ ~Has(<<>>, "USERHOST")
  BY HasNone
<1>3. client' \in Clients
  BY <1>1, <1>2 DEF Clients
<1>4. /\ client'.hand = <<>> /\ client'.outbound = client.outbound
      /\ client'.phase = client.phase
      /\ client'.registered = client.registered /\ client'.nick = client.nick
      /\ client'.ident = client.ident /\ client'.discoveries = client.discoveries
  BY <1>1 DEF Clients
<1>5. Len(client'.hand) <= 1 /\ ~Has(client'.hand, "USERHOST")
  BY <1>2, <1>4
<1>6. ClientOK(client')
  BY <1>1, <1>3, <1>4, <1>5 DEF ClientOK
<1> QED BY <1>1, <1>4, <1>6

LEMMA WriteLineKeeps ==
  ASSUME ClientInv, WriteLine
  PROVE  ClientInv' /\ wire'.state = wire.state
<1> DEFINE text == client.hand[1]
<1>1. /\ client.hand # <<>> /\ client' = [client EXCEPT !.hand = <<>>]
      /\ Write(text.cmd, text.arg) /\ UNCHANGED <<taken, work>>
      /\ served' = IF wire.state = "open" THEN served \o WorkNumbers(client.hand) ELSE served
  BY DEF WriteLine
<1>2. /\ text \in ToServer /\ Has(client.hand, text.cmd) /\ Say(text.cmd, text.arg) \in ToServer
  BY <1>1, HandFacts
<1>3. text.cmd = "USERHOST" => client.registered
  <2>1. ClientOK(client)
    BY InvFacts
  <2> HIDE DEF text
  <2> QED BY <1>2, <2>1 DEF ClientOK
<1>4. client' = [client EXCEPT !.hand = <<>>, !.closing = client.closing]
        /\ client.closing \in BOOLEAN
  BY <1>1, InvFacts DEF Clients
<1>5. /\ ClientOK(client') /\ client'.phase = "read"
      /\ client'.registered = client.registered /\ client'.nick = client.nick
  BY <1>1, <1>4, HandEmpty
<1>6. served' \in Seq(1..MaxWork)
  <2>1. served \in Seq(1..MaxWork) /\ WorkNumbers(client.hand) \in Seq(1..MaxWork)
    BY InvFacts, WorkTypes
  <2> QED BY <1>1, <2>1, ConcatProperties
<1> HIDE DEF text
<1> QED BY <1>1, <1>2, <1>3, <1>5, <1>6, WriteMoves

LEMMA WriteFailsKeeps ==
  ASSUME ClientInv, WriteFails
  PROVE  ClientInv'
<1>1. /\ client.hand # <<>> /\ client' = [client EXCEPT !.hand = <<>>, !.closing = TRUE]
      /\ CloseSocket("ended") /\ UNCHANGED <<work, served>>
  BY DEF WriteFails
<1>2. /\ ClientOK(client') /\ client'.phase = "read"
      /\ client'.registered = client.registered
  BY <1>1, HandEmpty
<1>3. WireOK(wire', server', client') /\ taken' \subseteq Nicks
  BY <1>1, <1>2, CloseSocketKeeps
<1> QED BY <1>1, <1>2, <1>3, InvFacts DEF ClientInv

LEMMA CloseWriterKeeps ==
  ASSUME ClientInv, CloseWriter
  PROVE  ClientInv'
<1>1. /\ ClientOK(client) /\ client \in Clients /\ client.phase = "stop"
      /\ client' = [client EXCEPT !.phase = "wait"]
      /\ CloseSocket("none") /\ UNCHANGED <<work, served>>
  BY InvFacts DEF CloseWriter
<1>2. client' \in Clients
  BY <1>1 DEF Clients
<1>3. /\ client'.hand = client.hand /\ client'.outbound = client.outbound
      /\ client'.phase = "wait" /\ client'.watching = client.watching
      /\ client'.registered = client.registered /\ client'.nick = client.nick
      /\ client'.ident = client.ident /\ client'.discoveries = client.discoveries
  BY <1>1 DEF Clients
<1>4. ClientOK(client')
  BY <1>1, <1>2, <1>3 DEF ClientOK
<1>5. WireOK(wire', server', client') /\ taken' \subseteq Nicks
  BY <1>1, <1>3, CloseSocketKeeps
<1> QED BY <1>1, <1>4, <1>5, InvFacts DEF ClientInv

\* A client without a connection, before the first or after the last.
LEMMA IdleClientOK ==
  ASSUME NEW c, c = NoClient \/ c = ClosedClient
  PROVE  ClientOK(c) /\ (c = ClosedClient => c.phase = "closed")
<1>1. /\ 0 \in 0 .. Servers - 1 /\ 0 \in 0..CollisionLimit /\ Desired \in Nicks
      /\ <<>> \in Seq(ToServer) /\ Len(<<>>) = 0 /\ OutboundLimit \in Nat
      /\ ~Has(<<>>, "USERHOST")
  BY ClientAssumption, HasNone
<1>2. c \in Clients
  <2>1. NoClient \in Clients
    BY <1>1 DEF NoClient, Clients
  <2>2. [NoClient EXCEPT !.phase = "closed"] \in Clients
    BY <2>1 DEF Clients
  <2> QED BY <2>1, <2>2 DEF ClosedClient
<1>3. /\ c.registered = FALSE /\ c.hand = <<>> /\ c.outbound = <<>>
      /\ c.ident = None /\ c.watching = FALSE /\ c.discoveries = {}
      /\ c = ClosedClient => c.phase = "closed"
  BY DEF NoClient, ClosedClient
<1>4. /\ Len(c.outbound) <= OutboundLimit /\ Len(c.hand) <= 1
      /\ ~Has(c.outbound, "USERHOST") /\ ~Has(c.hand, "USERHOST")
  BY <1>1, <1>3
<1>5. ClientOK(c)
  BY <1>2, <1>3, <1>4 DEF ClientOK
<1> QED BY <1>3, <1>5

LEMMA CloseClientKeeps ==
  ASSUME ClientInv, CloseClient
  PROVE  ClientInv' /\ client'.phase = "closed"
<1>1. ClientOK(client') /\ client'.phase = "closed"
  BY IdleClientOK DEF CloseClient
<1>2. WireOK(wire', server', client')
  BY NoServerOK, NoWireOK DEF CloseClient
<1> QED BY <1>1, <1>2, InvFacts DEF ClientInv, CloseClient

Discoveries == [current : BOOLEAN, left : 0..IdentityAttempts]

LEMMA DiscoveriesOK ==
  ASSUME ClientInv, NEW ds \in SUBSET Discoveries, NEW closing \in BOOLEAN,
         \A x \in ds : x.current => client.phase = "read" /\ client.registered,
         NEW c, c = [client EXCEPT !.discoveries = ds, !.closing = closing]
  PROVE  /\ ClientOK(c) /\ c.phase = client.phase /\ c.registered = client.registered
         /\ c.nick = client.nick /\ c.closing = closing /\ c.ident = client.ident
         /\ Waiting(c) = Waiting(client)
<1>1. ClientOK(client) /\ client \in Clients
  BY InvFacts
<1>2. c \in Clients
  BY <1>1 DEF Clients, Discoveries
<1>3. /\ c.phase = client.phase /\ c.registered = client.registered
      /\ c.nick = client.nick /\ c.closing = closing /\ c.ident = client.ident
      /\ c.hand = client.hand /\ c.outbound = client.outbound /\ c.discoveries = ds
      /\ c.watching = client.watching
  BY <1>1 DEF Clients
<1>4. ClientOK(c)
  BY <1>1, <1>2, <1>3 DEF ClientOK
<1> QED BY <1>3, <1>4 DEF Waiting

\* A discovery asks or stops, or it closes the socket of the connection that it belongs to.
LEMMA DiscoverKeeps ==
  ASSUME ClientInv, NEW d, Discover(d)
  PROVE  /\ ClientInv' /\ served' = served
         /\ \/ /\ wire' = wire /\ client'.phase = client.phase /\ client'.closing = client.closing
               /\ client.phase = "read" =>
                    WorkNumbers(Waiting(client')) = WorkNumbers(Waiting(client))
            \/ wire'.state = "ended" /\ client.registered /\ client.ident = None
<1>1. /\ ClientOK(client) /\ client \in Clients /\ d \in client.discoveries
      /\ client.discoveries \in SUBSET Discoveries /\ work \in 0..MaxWork
      /\ WireOK(wire, server, client) /\ UNCHANGED <<work, served>>
  BY InvFacts DEF Discover, Clients, Discoveries
<1>2. /\ \A x \in client.discoveries : x.current => client.phase = "read" /\ client.registered
      /\ d \in Discoveries
  BY <1>1 DEF ClientOK
<1> DEFINE left == client.discoveries \ {d}
           rest == [client EXCEPT !.discoveries = left]
           next == [d EXCEPT !.left = @ - 1]
           more == left \union {next}
           again == [client EXCEPT !.discoveries = more]
<1>3. rest = [client EXCEPT !.discoveries = left, !.closing = client.closing]
        /\ client.closing \in BOOLEAN /\ left \in SUBSET Discoveries
        /\ \A x \in left : x.current => client.phase = "read" /\ client.registered
  <2> HIDE DEF left
  <2>1. rest = [client EXCEPT !.discoveries = left, !.closing = client.closing]
          /\ client.closing \in BOOLEAN
    BY <1>1 DEF Clients
  <2> QED BY <1>1, <1>2, <2>1 DEF left
<1>4. /\ ClientOK(rest) /\ rest.phase = client.phase /\ rest.registered = client.registered
      /\ rest.nick = client.nick /\ rest.closing = client.closing
      /\ Waiting(rest) = Waiting(client)
  <2> HIDE DEF left, rest
  <2> QED BY <1>3, DiscoveriesOK
<1>5. CASE client' = rest /\ UNCHANGED <<wire, server, taken>>
  <2>1. client'.phase \in {"connect", "wait", "closed"} => wire = NoWire
    BY <1>1, <1>4, <1>5 DEF WireOK
  <2> HIDE DEF rest
  <2> QED BY <1>1, <1>4, <1>5, <2>1, ClientMoves
<1>6. CASE /\ ~Over(d) /\ d.left > 0 /\ Accepts(client)
           /\ client' = Queued(again, "USERHOST", client.nick) /\ UNCHANGED <<wire, server, taken>>
  <2>1. next \in Discoveries /\ next.current = d.current
    BY <1>2, <1>6, ClientAssumption DEF Discoveries
  <2> HIDE DEF next
  <2>2. more \in SUBSET Discoveries
          /\ \A x \in more : x.current => client.phase = "read" /\ client.registered
    BY <1>1, <1>2, <1>3, <2>1
  <2> HIDE DEF left, more
  <2>3. again = [client EXCEPT !.discoveries = more, !.closing = client.closing]
          /\ client.closing \in BOOLEAN
    BY <1>1 DEF Clients
  <2> HIDE DEF again
  <2>4. /\ ClientOK(again) /\ again.phase = client.phase /\ again.registered = client.registered
        /\ again.nick = client.nick /\ again.closing = client.closing
        /\ Waiting(again) = Waiting(client)
    BY <2>2, <2>3, DiscoveriesOK
  <2>5. client.phase = "read" /\ client.registered
    BY <1>1, <1>2, <1>6 DEF Over
  <2>6. Say("USERHOST", client.nick) \in ToServer
    BY <1>1 DEF Say, ToServer, Clients
  <2>7. Sends(again, client') /\ client'.phase = "read"
    BY <1>6, <2>4, <2>5, <2>6, QueuedSends
  <2>8. /\ ClientOK(client') /\ client'.nick = client.nick
        /\ client'.registered = client.registered /\ client'.closing = client.closing
        /\ WorkNumbers(Waiting(client')) = WorkNumbers(Waiting(client))
    BY <2>4, <2>7 DEF Sends
  <2>9. ClientInv'
    BY <1>1, <1>6, <2>7, <2>8, ClientMoves
  <2> QED BY <1>1, <1>6, <2>5, <2>7, <2>8, <2>9
<1>7. CASE ~Over(d) /\ client' = [rest EXCEPT !.closing = TRUE] /\ CloseSocket("ended")
  <2> HIDE DEF left
  <2>1. client' = [client EXCEPT !.discoveries = left, !.closing = TRUE]
    BY <1>1, <1>7 DEF Clients
  <2>2. /\ ClientOK(client') /\ client'.phase = client.phase
        /\ client'.registered = client.registered
    BY <1>3, <2>1, DiscoveriesOK
  <2>3. d.current /\ client.ident = None
    BY <1>2, <1>7 DEF Over, Discoveries
  <2>4. client.phase = "read" /\ client.registered
    BY <1>1, <1>2, <2>3
  <2>5. WireOK(wire', server', client') /\ taken' \subseteq Nicks
    BY <1>7, <2>2, <2>4, CloseSocketKeeps
  <2>6. ClientInv'
    BY <1>1, <2>2, <2>5, InvFacts DEF ClientInv
  <2>7. wire'.state = "ended"
    BY <1>7 DEF CloseSocket
  <2> QED BY <1>1, <2>3, <2>4, <2>6, <2>7
<1> QED BY <1>5, <1>6, <1>7 DEF Discover

\* The network and the others: what the server says is all that the bot sees of them.
LEMMA CutKeeps ==
  ASSUME ClientInv, Cut \/ Hang
  PROVE  ClientInv' /\ wire'.state # "open"
<1>1. /\ WireOK(wire, server, client) /\ wire \in Wires /\ wire.in \in Seq(FromServer)
      /\ wire.state = "open" /\ UNCHANGED <<client, taken, work, served>>
  BY InvFacts DEF Cut, Hang
<1>2. client.phase \notin {"connect", "wait", "closed"} /\ (Has(wire.in, "302") => client.registered)
  BY <1>1 DEF WireOK, NoWire
<1>3. CASE Hang
  <2>1. wire' \in Wires /\ wire'.in = wire.in /\ wire'.state = "hung" /\ server' = server
    BY <1>1, <1>3 DEF Hang, Wires
  <2>2. WireOK(wire', server', client')
    BY <1>1, <1>2, <2>1 DEF WireOK
  <2> QED BY <1>1, <2>1, <2>2, InvFacts DEF ClientInv
<1>4. CASE Cut
  <2>1. PICK n \in 0 .. Len(wire.in) :
          wire' = [state |-> "ended", in |-> SubSeq(wire.in, 1, n)]
    BY <1>4 DEF Cut
  <2> DEFINE q == wire.in
             r == SubSeq(q, 1, n)
  <2>2. r \in Seq(FromServer) /\ \A i \in DOMAIN r : i \in DOMAIN q /\ r[i] = q[i]
    <3>1. \A S : \A s \in Seq(S) : \A m \in 0 .. Len(s) :
            /\ SubSeq(s, 1, m) \in Seq(S)
            /\ \A i \in DOMAIN SubSeq(s, 1, m) : i \in DOMAIN s /\ SubSeq(s, 1, m)[i] = s[i]
      OBVIOUS
    <3> QED BY <1>1, <3>1
  <2>3. wire' = [state |-> "ended", in |-> r]
    BY <2>1
  <2> HIDE DEF q, r
  <2>4. Has(r, "302") => Has(q, "302")
    BY <2>2 DEF Has
  <2>5. wire' \in Wires /\ wire'.in = r /\ wire'.state = "ended"
    BY <2>2, <2>3 DEF Wires
  <2>6. server' \in ServerStates /\ ~server'.welcomed
    BY <1>4, NoServerOK DEF Cut
  <2>7. WireOK(wire', server', client')
    BY <1>1, <1>2, <2>4, <2>5, <2>6 DEF WireOK, q
  <2> QED BY <1>1, <2>5, <2>7, InvFacts DEF ClientInv
<1> QED BY <1>3, <1>4

\* The server says one line of its own.
LEMMA SaysKeeps ==
  ASSUME ClientInv, wire.state = "open", NEW text \in FromServer, NEW t \in ServerStates,
         wire' = [wire EXCEPT !.in = Append(@, text)], server' = t,
         t.welcomed = server.welcomed, t.welcomed => t.nick # None,
         text.cmd \notin {"001", "302"}, Renames(text, Told(server), Told(t)),
         client' = client, taken' \subseteq Nicks, UNCHANGED <<work, served>>
  PROVE  ClientInv' /\ wire'.state = wire.state
<1>1. /\ WireOK(wire, server, client) /\ wire \in Wires /\ wire.in \in Seq(FromServer)
      /\ client \in Clients /\ server \in ServerStates
  BY InvFacts
<1>2. <<text>> \in Seq(FromServer) /\ Append(wire.in, text) = wire.in \o <<text>>
  BY <1>1, AppendIsCat
<1>3. wire' = [wire EXCEPT !.in = @ \o <<text>>]
  BY <1>2
<1>4. ~Has(<<text>>, "001") /\ ~Has(<<text>>, "302")
  BY HasOne
<1>5. Leads(<<text>>, Told(server), Told(t))
  BY <1>1, KnownType, LeadsOne
<1> DEFINE lines == <<text>>
<1> HIDE DEF lines
<1>6. WireOK(wire', server', client)
  <2>1. lines \in Seq(FromServer) /\ ~Has(lines, "001") /\ ~Has(lines, "302")
          /\ Leads(lines, Told(server), Told(t))
    BY <1>2, <1>4, <1>5 DEF lines
  <2>2. WireOK([wire EXCEPT !.in = @ \o lines], t, client)
    BY <1>1, <2>1, WireGrows
  <2>3. wire' = [wire EXCEPT !.in = @ \o lines]
    BY <1>3 DEF lines
  <2> QED BY <2>2, <2>3
<1>7. wire'.state = wire.state
  BY <1>1 DEF Wires
<1> QED BY <1>6, <1>7, InvFacts DEF ClientInv

LEMMA OthersKeep ==
  ASSUME ClientInv,
         Announce \/ ReleaseNick \/ \E nick \in Nicks : Rename(nick) \/ TakeNick(nick)
  PROVE  ClientInv' /\ wire'.state = wire.state /\ client' = client /\ served' = served
<1>1. /\ WireOK(wire, server, client) /\ server \in ServerStates /\ taken \subseteq Nicks
      /\ server.welcomed => server.nick # None
  BY InvFacts DEF WireOK
<1>2. CASE Announce
  <2>1. Say("NEW", None) \in FromServer /\ Say("NEW", None).cmd = "NEW"
    BY DEF Say, FromServer
  <2>2. Renames(Say("NEW", None), Told(server), Told(server))
    BY <2>1 DEF Renames
  <2> QED BY <1>1, <1>2, <2>1, <2>2, SaysKeeps DEF Announce
<1>3. CASE ReleaseNick
  <2>1. taken' \subseteq Nicks /\ UNCHANGED <<client, server, work, served>>
    BY <1>1, <1>3 DEF ReleaseNick
  <2>2. CASE wire' = wire
    BY <1>1, <2>1, <2>2, InvFacts DEF ClientInv
  <2>3. CASE wire.state = "open" /\ wire' = [wire EXCEPT !.in = Append(@, Say("731", FALSE))]
    <3>1. Say("731", FALSE) \in FromServer /\ Say("731", FALSE).cmd = "731"
      BY DEF Say, FromServer
    <3>2. Renames(Say("731", FALSE), Told(server), Told(server))
      BY <3>1 DEF Renames
    <3> QED BY <1>1, <2>1, <2>3, <3>1, <3>2, SaysKeeps
  <2> QED BY <1>3, <2>2, <2>3 DEF ReleaseNick
<1>4. ASSUME NEW nick \in Nicks, Rename(nick)
      PROVE  ClientInv' /\ wire'.state = wire.state /\ client' = client /\ served' = served
  <2> DEFINE text == Say("NICK", <<server.nick, nick>>)
             t == [server EXCEPT !.nick = nick]
  <2>1. /\ wire.state = "open" /\ server.welcomed /\ server' = t
        /\ wire' = [wire EXCEPT !.in = Append(@, text)]
        /\ UNCHANGED <<client, taken, work, served>>
    BY <1>4 DEF Rename
  <2>2. t \in ServerStates /\ t.welcomed = server.welcomed /\ t.nick = nick /\ nick # None
    BY <1>1, ClientAssumption DEF ServerStates
  <2>3. server.nick \in Nicks /\ server.nick # None
    BY <1>1, <2>1 DEF ServerStates
  <2>4. /\ text \in FromServer /\ text.cmd = "NICK" /\ text.arg = <<server.nick, nick>>
    BY <2>3 DEF Say, FromServer
  <2> HIDE DEF text, t
  <2>5. Told(server) = server.nick /\ Told(t) = nick
    BY <2>1, <2>2 DEF Told
  <2>6. Renames(text, Told(server), Told(t))
    BY <2>3, <2>4, <2>5 DEF Renames
  <2> QED BY <1>1, <2>1, <2>2, <2>4, <2>6, SaysKeeps
<1>5. ASSUME NEW nick \in Nicks, TakeNick(nick)
      PROVE  ClientInv' /\ wire'.state = wire.state /\ client' = client /\ served' = served
  <2>1. taken' \subseteq Nicks /\ UNCHANGED <<client, wire, server, work, served>>
    BY <1>1, <1>5 DEF TakeNick
  <2> QED BY <1>1, <2>1, InvFacts DEF ClientInv
<1> QED BY <1>2, <1>3, <1>4, <1>5 DEF Announce, ReleaseNick

-----------------------------------------------------------------------------
(* The invariant *)

LEMMA ClientStarts == ClientInit => ClientInv
<1> SUFFICES ASSUME ClientInit PROVE ClientInv
  OBVIOUS
<1>2. ClientOK(client)
  BY IdleClientOK DEF ClientInit
<1>3. WireOK(wire, server, client)
  BY NoServerOK, NoWireOK DEF ClientInit
<1>4. 0 \in 0..MaxWork /\ <<>> \in Seq(1..MaxWork)
  BY ClientAssumption
<1> QED BY <1>2, <1>3, <1>4 DEF ClientInit, ClientInv

LEMMA ClientStep ==
  ASSUME ClientInv, [ClientNext]_clientVars
  PROVE  ClientInv'
<1>1. ASSUME NEW offer \in Offers, Establish(offer) PROVE ClientInv'
  BY <1>1, EstablishKeeps
<1>2. CASE EstablishFails \/ ConnectionEnds
  BY <1>2, EndingKeeps
<1>3. CASE IdlePing
  BY <1>3, IdlePingKeeps
<1>4. CASE CloseWriter
  BY <1>4, CloseWriterKeeps
<1>5. ASSUME NEW stable \in BOOLEAN, BackOff(stable) PROVE ClientInv'
  BY <1>5, BackOffKeeps
<1>6. CASE HandleServerLine
  BY <1>6, ReadStep
<1>7. CASE TakeLine
  BY <1>7, TakeLineKeeps
<1>8. CASE WriteLine
  BY <1>8, WriteLineKeeps
<1>9. CASE WriteFails
  BY <1>9, WriteFailsKeeps
<1>10. CASE SendWork
  BY <1>10, SendWorkKeeps
<1>11. CASE PollNick
  BY <1>11, PollKeeps
<1>12. CASE CloseClient
  BY <1>12, CloseClientKeeps
<1>13. ASSUME NEW d \in client.discoveries, Discover(d) PROVE ClientInv'
  BY <1>13, DiscoverKeeps
<1>14. CASE Cut \/ Hang
  BY <1>14, CutKeeps
<1>15. CASE Announce \/ ReleaseNick \/ \E nick \in Nicks : Rename(nick) \/ TakeNick(nick)
  BY <1>15, OthersKeep
<1>16. CASE UNCHANGED clientVars
  BY <1>16 DEF clientVars, ClientInv
<1> QED
  BY <1>1, <1>2, <1>3, <1>4, <1>5, <1>6, <1>7, <1>8, <1>9, <1>10, <1>11, <1>12, <1>13,
     <1>14, <1>15, <1>16 DEF ClientNext, MainStep, SenderStep

\* What the bot has queued, asked for and believes belongs to its present connection, and the
\* lines on an open connection lead from the nickname the bot has to the one the server has
\* given it: in every reachable state, for any nicknames, servers, limits and faults.
THEOREM ClientInductive == ClientSpec => []ClientInv
<1>1. ClientInv /\ [ClientNext]_clientVars => ClientInv'
  BY ClientStep
<1> QED BY <1>1, ClientStarts, PTL DEF ClientSpec

\* The queue of the sender keeps its limit across every reply, poll and discovery, and nothing
\* of a connection, its queue, its identity or its nickname watch, outlives it.
THEOREM ClientTypeCorrect == ClientSpec => []ClientTypeOK
<1>1. ASSUME ClientInv PROVE ClientTypeOK
  <2>1. ClientOK(client) /\ client \in Clients /\ wire \in Wires
    BY <1>1, InvFacts
  <2>2. wire.state \in {"none", "open", "hung", "ended"}
    BY <2>1 DEF Wires
  <2>3. <<>> \o <<>> = <<>>
    OBVIOUS
  <2> QED BY <1>1, <2>1, <2>2, <2>3 DEF ClientInv, ClientOK, ClientTypeOK
<1> QED BY <1>1, ClientInductive, PTL

\* Once no NICK line is on its way, the nickname that the bot has is the one the server has
\* given it, whatever collisions, reclaims and renames crossed on the connection.
THEOREM NickAgreesHolds == ClientSpec => []NickAgrees
<1>1. ASSUME ClientInv PROVE NickAgrees
  <2>1. SUFFICES ASSUME client.registered, wire.state = "open", server.welcomed,
                        \A i \in DOMAIN wire.in : wire.in[i].cmd # "NICK"
                 PROVE  client.nick = server.nick
    BY DEF NickAgrees
  <2>2. wire.in \in Seq(FromServer) /\ client.nick \in Nicks /\ ~Has(wire.in, "NICK")
    BY <1>1, <2>1, InvFacts DEF Clients, Has
  <2>3. Leads(wire.in, client.nick, server.nick)
    BY <1>1, <2>1, InvFacts DEF WireOK, Known, Told
  <2> QED BY <2>2, <2>3, LeadsNowhere
<1> QED BY <1>1, ClientInductive, PTL

-----------------------------------------------------------------------------
(* Who closes a connection *)

LEMMA ClosingStep ==
  ASSUME ClientInv, [ClientNext]_clientVars, wire.state = "open", ~client.closing, client'.closing
  PROVE  server.welcomed /\ client.ident = None
<1>1. /\ client \in Clients /\ WireOK(wire, server, client)
  BY InvFacts
<1>2. CASE \E d \in client.discoveries : Discover(d)
  <2>1. client.registered /\ client.ident = None
    BY <1>2, DiscoverKeeps
  <2> QED BY <1>1, <2>1 DEF WireOK
<1>3. CASE HandleServerLine
  BY <1>3, ReadStep DEF Receives
<1>4. CASE \/ \E offer \in Offers : Establish(offer)
           \/ EstablishFails
           \/ \E stable \in BOOLEAN : BackOff(stable)
  <2>1. client.phase \in {"connect", "wait", "closed"}
    BY <1>4 DEF Establish, EstablishFails, BackOff
  <2>2. wire = NoWire
    BY <1>1, <2>1 DEF WireOK
  <2> QED BY <2>2 DEF NoWire
<1>5. CASE ConnectionEnds
  BY <1>1, <1>5, DisconnectedFrame DEF ConnectionEnds
<1>6. CASE IdlePing \/ CloseWriter \/ TakeLine \/ WriteLine
  BY <1>1, <1>6 DEF IdlePing, CloseWriter, TakeLine, WriteLine, Clients
<1>7. CASE SendWork
  BY <1>1, <1>7, QueuedFrame DEF SendWork
<1>8. CASE PollNick
  <2>1. CASE client' = [client EXCEPT !.watching = FALSE]
    BY <1>1, <2>1 DEF Clients
  <2>2. CASE client' = Queued(client, "ISON", None)
    BY <1>1, <2>2, QueuedFrame
  <2> QED BY <1>8, <2>1, <2>2 DEF PollNick
<1>9. CASE CloseClient
  BY <1>9 DEF CloseClient, ClosedClient, NoClient
<1>10. CASE WriteFails
  BY <1>10 DEF WriteFails
<1>11. CASE \/ Cut \/ Hang \/ Announce \/ ReleaseNick \/ UNCHANGED clientVars
            \/ \E nick \in Nicks : Rename(nick) \/ TakeNick(nick)
  BY <1>11 DEF Cut, Hang, Announce, ReleaseNick, Rename, TakeNick, clientVars
<1> QED
  BY <1>2, <1>3, <1>4, <1>5, <1>6, <1>7, <1>8, <1>9, <1>10, <1>11
     DEF ClientNext, MainStep, SenderStep

\* Only a discovery that found no identity closes an open connection, and only the one on
\* which the server has welcomed the bot: never one of an earlier connection.
THEOREM LiveNeverClosedHolds == ClientSpec => LiveNeverClosed
<1>1. ASSUME ClientInv, [ClientNext]_clientVars
      PROVE  [wire.state = "open" /\ ~client.closing /\ client'.closing =>
                server.welcomed /\ client.ident = None]_clientVars
  BY <1>1, ClosingStep
<1> QED BY <1>1, ClientInductive, PTL DEF ClientSpec, LiveNeverClosed

-----------------------------------------------------------------------------
(* LinePipe *)

PipeLines == IF Up THEN WorkNumbers(Waiting(client)) ELSE <<>>

PipeStep == [Pipe!PipeOpen \/ Pipe!Put \/ Pipe!Get \/ Pipe!PipeClose]_(Pipe!pipeVars)

LEMMA PipeStays ==
  ASSUME Up' = Up, Up => WorkNumbers(Waiting(client')) = WorkNumbers(Waiting(client)),
         served' = served
  PROVE  PipeStep
<1>1. PipeLines' = PipeLines
  BY DEF PipeLines
<1> QED BY <1>1 DEF PipeStep, Pipe!pipeVars, PipeLines, Waiting

\* A connection that is over takes its lines with it.
LEMMA PipeEnds ==
  ASSUME ~Up', served' = served
  PROVE  PipeStep
<1>1. PipeLines' = <<>>
  BY DEF PipeLines
<1>2. CASE Up
  BY <1>1, <1>2 DEF PipeStep, Pipe!PipeClose, PipeLines, Waiting
<1>3. CASE ~Up
  <2>1. PipeLines = <<>>
    BY <1>3 DEF PipeLines
  <2>2. Up' = Up
    BY <1>3 DEF Up
  <2> QED BY <1>1, <2>1, <2>2 DEF PipeStep, Pipe!pipeVars, PipeLines, Waiting
<1> QED BY <1>2, <1>3

LEMMA EstablishOpens ==
  ASSUME ClientInv, NEW offer \in Offers, Establish(offer)
  PROVE  PipeStep
<1>1. /\ client \in Clients /\ ClientOK(client) /\ client.phase = "connect" /\ served' = served
      /\ client'.phase = "read" /\ client'.outbound = Registration
      /\ client'.hand = client.hand /\ wire'.state = "open"
  BY InvFacts DEF Establish, Clients, Registration, NoWire
<1>2. ~Up /\ Up'
  BY <1>1 DEF Up
<1>3. client'.hand = <<>> /\ Registration \in Seq(ToServer) /\ WorkNumbers(Registration) = <<>>
  BY <1>1, RegistrationLines DEF ClientOK
<1>4. Waiting(client') = Registration
  BY <1>1, <1>3, EmptyCat DEF Waiting
<1>5. PipeLines' = <<>>
  BY <1>2, <1>3, <1>4 DEF PipeLines
<1> QED BY <1>1, <1>2, <1>5 DEF PipeStep, Pipe!PipeOpen, PipeLines, Waiting

\* A handler's line joins the pipe, if the bot can take it.
LEMMA SendWorkPuts ==
  ASSUME ClientInv, SendWork
  PROVE  PipeStep
<1>1. /\ client \in Clients /\ ClientOK(client) /\ wire' = wire /\ served' = served
      /\ client' = Queued(client, "WORK", work + 1) /\ client.phase = "read"
      /\ work < MaxWork /\ work \in 0..MaxWork
  BY InvFacts DEF SendWork
<1>2. work + 1 \in 1..MaxWork
  BY <1>1, ClientAssumption
<1> DEFINE text == Say("WORK", work + 1)
<1>3. text \in ToServer /\ IsWork(text) /\ text.arg = work + 1
  BY <1>2 DEF Say, ToServer, IsWork
<1>4. /\ client'.phase = "read" /\ client'.hand = client.hand
      /\ client'.outbound = IF Accepts(client) THEN Append(client.outbound, text)
                                               ELSE client.outbound
  BY <1>1, QueuedFrame
<1> HIDE DEF text
<1>5. Up' = Up
  BY <1>1, <1>4 DEF Up
<1>6. CASE Up /\ Accepts(client)
  <2>1. Waiting(client') = Append(Waiting(client), text) /\ Waiting(client) \in Seq(ToServer)
    BY <1>1, <1>3, <1>4, <1>6, QueueAppend, ClientQueues DEF Waiting
  <2>2. WorkNumbers(Waiting(client')) = Append(WorkNumbers(Waiting(client)), work + 1)
    BY <1>3, <2>1, NumbersBehind
  <2>3. PipeLines' = Append(PipeLines, work + 1)
    BY <1>5, <1>6, <2>2 DEF PipeLines
  <2> QED BY <1>1, <1>2, <1>5, <1>6, <2>3 DEF PipeStep, Pipe!Put, PipeLines, Waiting
<1>7. CASE ~(Up /\ Accepts(client))
  <2>1. Up => Waiting(client') = Waiting(client)
    BY <1>4, <1>7 DEF Waiting
  <2> QED BY <1>1, <1>5, <2>1, PipeStays
<1> QED BY <1>6, <1>7

\* The line that is written is the first of the pipe.
LEMMA WriteLineGets ==
  ASSUME ClientInv, WriteLine
  PROVE  PipeStep
<1> DEFINE text == client.hand[1]
           rest == WorkNumbers(client.outbound)
<1>1. /\ client.hand # <<>> /\ client \in Clients /\ client' = [client EXCEPT !.hand = <<>>]
      /\ served' = IF wire.state = "open" THEN served \o WorkNumbers(client.hand) ELSE served
  BY InvFacts DEF WriteLine
<1>2. text \in ToServer /\ client.hand = <<text>> /\ client.phase = "read"
  BY <1>1, HandFacts
<1>3. wire'.state = wire.state
  BY WriteLineKeeps
<1>4. /\ client'.hand = <<>> /\ client'.outbound = client.outbound
      /\ client'.phase = client.phase
  BY <1>1 DEF Clients
<1>5. client.outbound \in Seq(ToServer) /\ <<>> \in Seq(ToServer) /\ served \in Seq(1..MaxWork)
  BY InvFacts
<1>6. Up' = Up
  BY <1>3, <1>4 DEF Up
<1>7. Waiting(client') = client.outbound /\ Waiting(client) = <<text>> \o client.outbound
  BY <1>2, <1>4, <1>5, EmptyCat DEF Waiting
<1>8. /\ rest \in Seq(1..MaxWork)
      /\ WorkNumbers(<<text>> \o client.outbound) = IF IsWork(text) THEN <<text.arg>> \o rest ELSE rest
      /\ WorkNumbers(<<text>> \o <<>>) = IF IsWork(text) THEN <<text.arg>> \o <<>> ELSE <<>>
  BY <1>2, <1>5, WorkTypes, NumbersEmpty
<1> HIDE DEF text
<1>9. <<text>> \o <<>> = <<text>> /\ <<text.arg>> \o <<>> = <<text.arg>>
  OBVIOUS
<1>10. CASE ~Up
  <2>1. served' = served
    BY <1>1, <1>2, <1>10 DEF Up
  <2> QED BY <1>6, <1>10, <2>1, PipeStays
<1>11. CASE Up /\ ~IsWork(text)
  <2>1. WorkNumbers(client.hand) = <<>>
    BY <1>2, <1>8, <1>9, <1>11
  <2>2. served' = served
    BY <1>1, <1>5, <1>11, <2>1, EmptyCat DEF Up
  <2>3. WorkNumbers(Waiting(client')) = WorkNumbers(Waiting(client))
    BY <1>7, <1>8, <1>11
  <2> QED BY <1>6, <2>2, <2>3, PipeStays
<1>12. CASE Up /\ IsWork(text)
  <2>1. text.arg \in 1..MaxWork
    BY <1>2, <1>12 DEF IsWork, ToServer
  <2>2. WorkNumbers(client.hand) = <<text.arg>>
    BY <1>2, <1>8, <1>9, <1>12
  <2>3. served' = Append(served, text.arg)
    BY <1>1, <1>5, <1>12, <2>1, <2>2, AppendIsCat DEF Up
  <2>4. PipeLines = <<text.arg>> \o rest /\ PipeLines' = rest
    BY <1>6, <1>7, <1>8, <1>12 DEF PipeLines
  <2> HIDE DEF rest
  <2>5. \A S : \A x \in S : \A q \in Seq(S) :
          /\ <<x>> \o q # <<>> /\ Head(<<x>> \o q) = x /\ Tail(<<x>> \o q) = q
    OBVIOUS
  <2>6. PipeLines # <<>> /\ PipeLines' = Tail(PipeLines) /\ served' = Append(served, Head(PipeLines))
    BY <1>8, <2>1, <2>3, <2>4, <2>5
  <2> QED BY <1>6, <1>12, <2>6 DEF PipeStep, Pipe!Get, PipeLines, Waiting
<1> QED BY <1>10, <1>11, <1>12

LEMMA PipeSteps ==
  ASSUME ClientInv, [ClientNext]_clientVars
  PROVE  PipeStep
<1>1. /\ client \in Clients /\ ClientOK(client) /\ WireOK(wire, server, client)
      /\ (client.phase \in {"connect", "wait", "closed"} => wire = NoWire)
      /\ served \in Seq(1..MaxWork) /\ wire \in Wires
  BY InvFacts DEF WireOK
<1>2. ASSUME NEW offer \in Offers, Establish(offer) PROVE PipeStep
  BY <1>2, EstablishOpens
<1>3. CASE EstablishFails \/ ConnectionEnds \/ CloseWriter \/ WriteFails \/ CloseClient
  <2>1. CASE EstablishFails
    <3>1. wire = NoWire /\ wire' = wire /\ served' = served
      BY <1>1, <2>1 DEF EstablishFails
    <3> QED BY <3>1, PipeEnds DEF Up, NoWire
  <2>2. CASE ConnectionEnds
    <3>1. client'.phase = "stop" /\ served' = served
      BY <1>1, <2>2, DisconnectedFrame DEF ConnectionEnds
    <3> QED BY <3>1, PipeEnds DEF Up
  <2>3. CASE CloseWriter \/ WriteFails
    <3>1. wire'.state # "open" /\ served' = served
      BY <2>3 DEF CloseWriter, WriteFails, CloseSocket
    <3> QED BY <3>1, PipeEnds DEF Up
  <2>4. CASE CloseClient
    <3>1. wire' = NoWire /\ served' = served
      BY <2>4 DEF CloseClient
    <3> QED BY <3>1, PipeEnds DEF Up, NoWire
  <2> QED BY <1>3, <2>1, <2>2, <2>3, <2>4
<1>4. CASE IdlePing
  BY <1>4, IdlePingKeeps, PipeStays DEF IdlePing, Up
<1>5. ASSUME NEW stable, BackOff(stable) PROVE PipeStep
  <2>1. wire = NoWire /\ wire' = wire /\ served' = served
    BY <1>1, <1>5 DEF BackOff
  <2> QED BY <2>1, PipeEnds DEF Up, NoWire
<1>6. CASE HandleServerLine
  <2>1. PICK d : /\ Receives(d) /\ client' = d /\ wire'.state = wire.state
                 /\ client.phase = "read" /\ served' = served
    BY <1>6, ReadStep
  <2>2. CASE d.phase = "read"
    BY <2>1, <2>2, PipeStays DEF Up, Receives
  <2>3. CASE d.phase = "stop"
    BY <2>1, <2>3, PipeEnds DEF Up
  <2> QED BY <2>1, <2>2, <2>3 DEF Receives
<1>7. CASE TakeLine
  BY <1>7, TakeLineKeeps, PipeStays DEF TakeLine, Up
<1>8. CASE WriteLine
  BY <1>8, WriteLineGets
<1>9. CASE SendWork
  BY <1>9, SendWorkPuts
<1>10. CASE PollNick
  BY <1>10, PollKeeps, PipeStays DEF PollNick, Up
<1>11. ASSUME NEW d, Discover(d) PROVE PipeStep
  <2>1. served' = served
    BY <1>11, DiscoverKeeps
  <2>2. CASE wire'.state = "ended"
    BY <2>1, <2>2, PipeEnds DEF Up
  <2>3. CASE wire'.state # "ended"
    BY <1>11, <2>1, <2>3, DiscoverKeeps, PipeStays DEF Up
  <2> QED BY <2>2, <2>3
<1>12. CASE Cut \/ Hang
  <2>1. wire'.state # "open" /\ served' = served
    BY <1>12, CutKeeps DEF Cut, Hang
  <2> QED BY <2>1, PipeEnds DEF Up
<1>13. CASE Announce \/ ReleaseNick \/ \E nick \in Nicks : Rename(nick) \/ TakeNick(nick)
  BY <1>13, OthersKeep, PipeStays DEF Up
<1>14. CASE UNCHANGED clientVars
  BY <1>14, PipeStays DEF clientVars, Up
<1> QED
  BY <1>2, <1>3, <1>4, <1>5, <1>6, <1>7, <1>8, <1>9, <1>10, <1>11, <1>12, <1>13, <1>14
     DEF ClientNext, MainStep, SenderStep

\* The client implements the pipe: lines that handlers and commands send leave in order, each
\* once, on the connection they were sent on, or are lost with it.
THEOREM ClientImplementsPipe == ClientSpec => LinesKeepToTheirConnection
<1>1. ClientInit => Pipe!PipeInit
  BY DEF ClientInit, Pipe!PipeInit, Up, NoClient, NoWire
<1>2. ClientInv /\ [ClientNext]_clientVars => PipeStep
  BY PipeSteps
<1> QED
  BY <1>1, <1>2, ClientInductive, PTL
     DEF ClientSpec, LinesKeepToTheirConnection, Pipe!PipeSpec, PipeStep

-----------------------------------------------------------------------------
(* The guards: EnvelopeReplay and RateLimiter *)

USE ReplayAssumption, RateAssumption

\* What is left of a sequence without its first n - 1 elements.
LEMMA Suffix ==
  ASSUME NEW S, NEW s \in Seq(S), NEW n \in 1 .. Len(s) + 1
  PROVE  /\ SubSeq(s, n, Len(s)) \in Seq(S)
         /\ Len(SubSeq(s, n, Len(s))) = Len(s) - n + 1
         /\ \A i \in 1 .. Len(s) - n + 1 : SubSeq(s, n, Len(s))[i] = s[n + i - 1]
OBVIOUS

-----------------------------------------------------------------------------
(* EnvelopeReplay *)

LEMMA Bookkeeping ==
  ASSUME ReplayTypeOK
  PROVE  /\ envelopes \in Seq(Envelopes) /\ seenNonces \in Seq(Expiring)
         /\ accepted \in Seq(1..MaxEnvelopes)
         /\ clock \in 0..MaxTime /\ latest \in 0..MaxTime /\ clock <= latest
         /\ \A n \in DOMAIN envelopes :
              envelopes[n].timestamp \in 0..MaxTime /\ Leaves(n) \in Nat
         /\ \A k \in DOMAIN seenNonces : seenNonces[k].expiry \in Nat
<1>1. envelopes \in Seq(Envelopes) /\ seenNonces \in Seq(Expiring)
  BY DEF ReplayTypeOK
<1>2. /\ \A n \in DOMAIN envelopes : envelopes[n] \in Envelopes
      /\ \A k \in DOMAIN seenNonces : seenNonces[k] \in Expiring
  BY <1>1
<1>3. \A n \in DOMAIN envelopes : envelopes[n].timestamp \in 0..MaxTime
  BY <1>2 DEF Envelopes
<1>4. \A k \in DOMAIN seenNonces : seenNonces[k].expiry \in Nat
  BY <1>2 DEF Expiring
<1> QED BY <1>1, <1>3, <1>4 DEF Leaves, ReplayTypeOK

LEMMA PrunedIsSuffix ==
  ASSUME ReplayTypeOK
  PROVE  \E n \in 1 .. Len(seenNonces) + 1 :
           /\ Pruned = SubSeq(seenNonces, n, Len(seenNonces))
           /\ \A i \in 1 .. n - 1 : seenNonces[i].expiry <= clock
<1> DEFINE live == {i \in DOMAIN seenNonces : seenNonces[i].expiry > clock}
<1>0. seenNonces \in Seq(Expiring) /\ clock \in Nat
  BY Bookkeeping
<1>1. \A i \in DOMAIN seenNonces : seenNonces[i].expiry \in Nat
  BY Bookkeeping
<1>2. CASE live = {}
  BY <1>0, <1>1, <1>2 DEF Pruned
<1>3. CASE live # {}
  <2>1. PICK n \in live : \A j \in live : n <= j
    <3>1. live \in SUBSET Nat
      BY <1>0
    <3> QED BY <1>3, <3>1, LeastNatural
  <2>2. (CHOOSE i \in live : \A j \in live : i <= j) = n
    BY <1>0, <2>1
  <2>3. Pruned = SubSeq(seenNonces, n, Len(seenNonces))
    BY <1>3, <2>2 DEF Pruned
  <2>4. \A i \in 1 .. n - 1 : seenNonces[i].expiry <= clock
    <3> SUFFICES ASSUME NEW i \in 1 .. n - 1 PROVE seenNonces[i].expiry <= clock
      OBVIOUS
    <3>1. i \in DOMAIN seenNonces /\ ~(n <= i)
      BY <1>0, <2>1
    <3>2. i \notin live
      BY <2>1, <3>1
    <3> QED BY <1>0, <1>1, <3>1, <3>2
  <2>5. n \in 1 .. Len(seenNonces) + 1
    BY <1>0, <2>1
  <2> QED BY <2>3, <2>4, <2>5
<1> QED BY <1>2, <1>3

\* prune_nonces forgets a nonce only after its envelope left the window for good.
LEMMA PrunedRemembers ==
  ASSUME ReplayTypeOK, clock <= latest, NEW n, NEW leaves \in Nat,
         \/ \E k \in DOMAIN seenNonces : seenNonces[k].nonce = n /\ leaves < seenNonces[k].expiry
         \/ leaves < latest
  PROVE  /\ Pruned \in Seq(Expiring)
         /\ \/ \E k \in DOMAIN Pruned : Pruned[k].nonce = n /\ leaves < Pruned[k].expiry
            \/ leaves < latest
<1>1. PICK m \in 1 .. Len(seenNonces) + 1 :
        /\ Pruned = SubSeq(seenNonces, m, Len(seenNonces))
        /\ \A i \in 1 .. m - 1 : seenNonces[i].expiry <= clock
  BY PrunedIsSuffix
<1>2. seenNonces \in Seq(Expiring) /\ clock \in Nat /\ latest \in Nat
  BY DEF ReplayTypeOK
<1>3. /\ Pruned \in Seq(Expiring)
      /\ Len(Pruned) = Len(seenNonces) - m + 1
      /\ \A i \in 1 .. Len(seenNonces) - m + 1 : Pruned[i] = seenNonces[m + i - 1]
  BY <1>1, <1>2, Suffix
<1>4. ASSUME NEW k \in DOMAIN seenNonces,
             seenNonces[k].nonce = n, leaves < seenNonces[k].expiry, latest <= leaves
      PROVE  \E i \in DOMAIN Pruned : Pruned[i].nonce = n /\ leaves < Pruned[i].expiry
  <2>1. seenNonces[k].expiry \in Nat
    BY Bookkeeping
  <2>2. k >= m
    BY <1>1, <1>2, <1>4, <2>1
  <2>3. k - m + 1 \in DOMAIN Pruned /\ Pruned[k - m + 1] = seenNonces[k]
    BY <1>2, <1>3, <2>2
  <2> QED BY <1>4, <2>3
<1> QED BY <1>2, <1>3, <1>4

LEMMA ReplayInitInv == ReplayInit => ReplayInv
BY DEF ReplayInit, ReplayInv, ReplayTypeOK, AcceptedOnce

LEMMA SetClockInv ==
  ASSUME ReplayInv, NEW time \in 0..MaxTime, SetClock(time)
  PROVE  ReplayInv'
<1> USE DEF ReplayInv, SetClock, Larger
<1>1. ReplayTypeOK'
  BY DEF ReplayTypeOK
<1>2. (latest <= clock + MaxLag)' /\ latest <= latest'
  BY DEF ReplayTypeOK
<1>3. AcceptedOnce'
  BY DEF AcceptedOnce
<1>4. \A n \in DOMAIN envelopes : Leaves(n) \in Nat /\ Leaves(n)' = Leaves(n)
  BY Bookkeeping DEF Leaves
<1>5. latest \in Nat /\ latest' \in Nat
  BY <1>1 DEF ReplayTypeOK
<1> QED BY <1>1, <1>2, <1>3, <1>4, <1>5

LEMMA EncodeInv ==
  ASSUME ReplayInv, NEW envelope \in Envelopes, Encode(envelope)
  PROVE  ReplayInv'
<1> USE DEF ReplayInv, Encode
<1>1. ReplayTypeOK'
  BY DEF ReplayTypeOK
<1>2. \A n \in DOMAIN envelopes : n \in DOMAIN envelopes' /\ envelopes'[n] = envelopes[n]
  BY DEF ReplayTypeOK
<1>3. AcceptedOnce'
  BY DEF AcceptedOnce
<1> QED BY <1>1, <1>2, <1>3 DEF Leaves

LEMMA DecodeInv ==
  ASSUME ReplayInv, NEW n \in DOMAIN envelopes, Decode(n)
  PROVE  ReplayInv'
<1> DEFINE seen == \E i \in DOMAIN Pruned : Pruned[i].nonce = n
<1>0. ReplayTypeOK
  BY DEF ReplayInv
<1>1. /\ envelopes \in Seq(Envelopes) /\ accepted \in Seq(1..MaxEnvelopes)
      /\ clock \in Nat /\ latest \in Nat /\ clock <= MaxTime /\ clock <= latest
      /\ latest <= clock + MaxLag
      /\ \A m \in DOMAIN envelopes : envelopes[m].timestamp \in Nat
      /\ UNCHANGED <<clock, latest, envelopes>>
  <2>1. UNCHANGED <<clock, latest, envelopes>>
    BY DEF Decode
  <2>2. /\ envelopes \in Seq(Envelopes) /\ accepted \in Seq(1..MaxEnvelopes)
        /\ clock \in Nat /\ latest \in Nat /\ clock <= MaxTime /\ clock <= latest
        /\ latest <= clock + MaxLag
        /\ \A m \in DOMAIN envelopes : envelopes[m].timestamp \in Nat
    <3>1. latest <= clock + MaxLag
      BY DEF ReplayInv
    <3> QED BY <1>0, <3>1, Bookkeeping
  <2> QED BY <2>1, <2>2
<1>2. n \in 1..MaxEnvelopes
  BY <1>0, <1>1 DEF ReplayTypeOK
<1>3. \A m \in DOMAIN envelopes : Leaves(m) \in Nat /\ Leaves(m)' = Leaves(m)
  BY <1>0, <1>1, Bookkeeping DEF Leaves
<1>4. /\ envelopes[n].timestamp \in Nat /\ Leaves(n) = envelopes[n].timestamp + Drift + MaxLag
  BY <1>1 DEF Leaves
<1>5. Pruned \in Seq(Expiring)
  BY <1>0, PrunedIsSuffix, Suffix, Bookkeeping
<1>6. \A i \in DOMAIN accepted :
        \/ \E k \in DOMAIN Pruned :
             Pruned[k].nonce = accepted[i] /\ Leaves(accepted[i]) < Pruned[k].expiry
        \/ Leaves(accepted[i]) < latest
  BY <1>0, <1>1, <1>3, PrunedRemembers DEF ReplayInv
<1>7. CASE seen \/ ~envelopes[n].genuine
  <2>1. seenNonces' = Pruned /\ UNCHANGED <<accepted, clock, latest, envelopes>>
    BY <1>1, <1>7 DEF Decode
  <2>2. ReplayTypeOK' /\ AcceptedOnce'
    BY <1>0, <1>5, <2>1 DEF ReplayTypeOK, AcceptedOnce, ReplayInv
  <2>3. \A i \in DOMAIN accepted : accepted[i] \in DOMAIN envelopes
    BY DEF ReplayInv
  <2> QED BY <1>1, <1>3, <1>6, <2>1, <2>2, <2>3 DEF ReplayInv
<1>8. CASE ~(seen \/ ~envelopes[n].genuine)
  <2> DEFINE entry == [nonce |-> n, expiry |-> Expiry]
  <2>1. /\ seenNonces' = Append(Pruned, entry) /\ accepted' = Append(accepted, n)
        /\ UNCHANGED <<clock, latest, envelopes>>
    BY <1>1, <1>8 DEF Decode
  <2>2. entry \in Expiring
    BY <1>1, <1>2 DEF Expiring, Expiry
  <2>3. ReplayTypeOK'
    BY <1>0, <1>1, <1>2, <1>5, <2>1, <2>2 DEF ReplayTypeOK
  <2>4. \A i \in DOMAIN accepted : accepted[i] # n
    <3> SUFFICES ASSUME NEW i \in DOMAIN accepted, accepted[i] = n PROVE FALSE
      OBVIOUS
    <3>1. Leaves(n) < latest
      BY <1>6, <1>8
    <3>2. clock <= envelopes[n].timestamp + Drift
      BY DEF Decode, InWindow
    <3>3. /\ envelopes[n].timestamp + Drift + MaxLag < latest /\ latest <= clock + MaxLag
          /\ envelopes[n].timestamp \in Nat /\ latest \in Nat /\ clock \in Nat
      BY <1>1, <1>4, <3>1
    <3> QED BY ReplayAssumption, <3>2, <3>3
  <2>5. AcceptedOnce'
    <3>1. Len(accepted') = Len(accepted) + 1 /\ accepted'[Len(accepted) + 1] = n
            /\ \A i \in DOMAIN accepted : accepted'[i] = accepted[i]
      BY <1>1, <2>1
    <3>2. DOMAIN accepted' = DOMAIN accepted \union {Len(accepted) + 1}
      BY <1>1, <2>1
    <3> QED BY <2>4, <3>1, <3>2 DEF AcceptedOnce, ReplayInv
  <2>6. Leaves(n) < entry.expiry
    <3>1. envelopes[n].timestamp <= clock + Drift
      BY DEF Decode, InWindow
    <3>2. clock \in Nat
      BY <1>1
    <3> QED BY ReplayAssumption, <1>4, <3>1, <3>2 DEF Expiry
  <2>7. /\ Len(Pruned) + 1 \in DOMAIN seenNonces' /\ seenNonces'[Len(Pruned) + 1] = entry
        /\ \A k \in DOMAIN Pruned : k \in DOMAIN seenNonces' /\ seenNonces'[k] = Pruned[k]
    BY <1>5, <2>1, <2>2
  <2>8. ASSUME NEW i \in DOMAIN accepted'
        PROVE  /\ accepted'[i] \in DOMAIN envelopes
               /\ \/ \E k \in DOMAIN seenNonces' :
                       /\ seenNonces'[k].nonce = accepted'[i]
                       /\ Leaves(accepted'[i]) < seenNonces'[k].expiry
                  \/ Leaves(accepted'[i]) < latest
    <3>1. CASE i = Len(accepted) + 1
      <4>1. accepted'[i] = n
        BY <1>1, <2>1, <3>1
      <4> QED BY <2>6, <2>7, <4>1
    <3>2. CASE i \in DOMAIN accepted
      <4>1. accepted'[i] = accepted[i]
        BY <1>1, <2>1, <3>2
      <4>2. accepted[i] \in DOMAIN envelopes
        BY <3>2 DEF ReplayInv
      <4> QED BY <1>6, <2>7, <3>2, <4>1, <4>2
    <3>3. i \in 1 .. Len(accepted) + 1
      BY <1>1, <2>1
    <3> QED BY <1>1, <3>1, <3>2, <3>3
  <2> QED BY <1>1, <1>3, <2>1, <2>3, <2>5, <2>8 DEF ReplayInv
<1> QED BY <1>7, <1>8

LEMMA ReplayInductive == ReplaySpec => []ReplayInv
<1>1. ReplayInit => ReplayInv
  BY ReplayInitInv
<1>2. ReplayInv /\ [ReplayNext]_replayVars => ReplayInv'
  <2> SUFFICES ASSUME ReplayInv, [ReplayNext]_replayVars PROVE ReplayInv'
    OBVIOUS
  <2>1. CASE ReplayNext
    BY <2>1, SetClockInv, EncodeInv, DecodeInv DEF ReplayNext
  <2>2. CASE UNCHANGED replayVars
    BY <2>2 DEF replayVars, ReplayInv, ReplayTypeOK, AcceptedOnce, Leaves
  <2> QED BY <2>1, <2>2
<1> QED BY <1>1, <1>2, PTL DEF ReplaySpec

\* Replay protection keeps its bookkeeping well-formed: nonces, expiries, clocks.
THEOREM ReplayTypeCorrect == ReplaySpec => []ReplayTypeOK
<1>1. ReplayInv => ReplayTypeOK
  BY DEF ReplayInv
<1> QED BY <1>1, ReplayInductive, PTL

\* decode accepts no envelope twice, for every drift, TTL and clock that steps back by no
\* more than the TTL has to spare.
THEOREM AcceptedOnceHolds == ReplaySpec => []AcceptedOnce
<1>1. ReplayInv => AcceptedOnce
  BY DEF ReplayInv
<1> QED BY <1>1, ReplayInductive, PTL

-----------------------------------------------------------------------------
(* RateLimiter *)

Fresh(times, t, i) ==
  /\ i <= Len(times) => times[i] + Window > t
  /\ \A j \in 1 .. i - 1 : times[j] + Window <= t

LEMMA FirstFresh ==
  ASSUME NEW times \in Seq(0..LastTime), NEW t \in Nat
  PROVE  /\ FirstWithin(times, t) \in 1 .. Len(times) + 1
         /\ Fresh(times, t, FirstWithin(times, t))
         /\ \A i \in 1 .. Len(times) + 1 : Fresh(times, t, i) => i = FirstWithin(times, t)
<1> DEFINE S == {i \in 1 .. Len(times) + 1 : i <= Len(times) => times[i] + Window > t}
<1>1. S \in SUBSET Nat /\ Len(times) + 1 \in S
  OBVIOUS
<1>2. PICK n \in S : \A i \in S : n <= i
  <2> HIDE DEF S
  <2> QED BY <1>1, LeastNatural
<1>3. Fresh(times, t, n)
  <2>1. ASSUME NEW j \in 1 .. n - 1 PROVE times[j] + Window <= t
    <3>1. j \in 1 .. Len(times) /\ ~(n <= j)
      BY <1>1, <1>2
    <3>2. times[j] \in Nat
      BY <3>1
    <3>3. j \notin S
      BY <1>2, <3>1
    <3> QED BY RateAssumption, <3>1, <3>2, <3>3
  <2> QED BY <1>2, <2>1 DEF Fresh
<1>4. FirstWithin(times, t) =
        CHOOSE i \in 1 .. Len(times) + 1 : Fresh(times, t, i)
  BY DEF FirstWithin, Fresh
<1>5. \A i \in 1 .. Len(times) + 1 : Fresh(times, t, i) => i = n
  <2> SUFFICES ASSUME NEW i \in 1 .. Len(times) + 1, Fresh(times, t, i) PROVE i = n
    OBVIOUS
  <2>1. n <= i
    BY <1>2 DEF Fresh
  <2>2. CASE n < i
    <3>1. n \in 1 .. i - 1 /\ times[n] \in Nat /\ n <= Len(times)
      BY <2>2
    <3>2. times[n] + Window <= t /\ times[n] + Window > t
      BY <1>3, <3>1 DEF Fresh
    <3> QED BY <3>1, <3>2
  <2> QED BY <2>1, <2>2
<1> QED BY <1>3, <1>4, <1>5

\* What the pops leave.
LEMMA WithinFacts ==
  ASSUME NEW times \in Seq(0..LastTime), NEW t \in Nat
  PROVE  LET n == FirstWithin(times, t) IN
         /\ n \in 1 .. Len(times) + 1
         /\ Within(times, t) \in Seq(0..LastTime)
         /\ Len(Within(times, t)) = Len(times) - n + 1
         /\ \A i \in 1 .. Len(times) - n + 1 : Within(times, t)[i] = times[n + i - 1]
BY FirstFresh, Suffix DEF Within

\* If the oldest time is within the window, nothing is popped.
LEMMA WithinAll ==
  ASSUME NEW times \in Seq(0..LastTime), NEW t \in Nat,
         Len(times) > 0 => times[1] + Window > t
  PROVE  Within(times, t) = times
<1>1. Fresh(times, t, 1) /\ 1 \in 1 .. Len(times) + 1
  BY DEF Fresh
<1>2. FirstWithin(times, t) = 1
  BY <1>1, FirstFresh
<1> QED BY <1>2, SubSeqFull DEF Within

\* Pops at a time, and then at a later one, are the pops at the later one.
LEMMA WithinTwice ==
  ASSUME NEW times \in Seq(0..LastTime), NEW t \in Nat, NEW u \in Nat, t <= u
  PROVE  Within(Within(times, t), u) = Within(times, u)
<1> DEFINE f == FirstWithin(times, t)
           g == FirstWithin(times, u)
           w == Within(times, t)
<1>1. \A i \in 1 .. Len(times) : times[i] \in Nat
  OBVIOUS
<1>2. /\ f \in 1 .. Len(times) + 1 /\ Fresh(times, t, f)
      /\ g \in 1 .. Len(times) + 1 /\ Fresh(times, u, g)
  BY <1>1, FirstFresh
<1>3. f <= g
  <2> HIDE DEF f, g
  <2> SUFFICES ASSUME g < f PROVE FALSE
    BY <1>2
  <2>1. g \in 1 .. f - 1 /\ g <= Len(times) /\ times[g] \in Nat
    BY <1>1, <1>2
  <2> QED BY <1>2, <2>1 DEF Fresh
<1>4. /\ w \in Seq(0..LastTime) /\ Len(w) = Len(times) - f + 1
      /\ \A i \in 1 .. Len(times) - f + 1 : w[i] = times[f + i - 1]
  BY WithinFacts
<1> HIDE DEF f, g, w
<1>5. Fresh(w, u, g - f + 1) /\ g - f + 1 \in 1 .. Len(w) + 1
  <2>1. ASSUME g - f + 1 <= Len(w) PROVE w[g - f + 1] = times[g] /\ g <= Len(times)
    <3>1. g - f + 1 \in 1 .. Len(times) - f + 1 /\ f + (g - f + 1) - 1 = g
      BY <1>2, <1>3, <1>4, <2>1
    <3>2. g <= Len(times)
      BY <1>2, <3>1
    <3> QED BY <1>4, <3>1, <3>2
  <2>2. \A j \in 1 .. g - f : w[j] = times[f + j - 1] /\ f + j - 1 \in 1 .. g - 1
    BY <1>2, <1>3, <1>4
  <2>3. g <= Len(times) => times[g] + Window > u
    BY <1>2 DEF Fresh
  <2>4. \A j \in 1 .. (g - f + 1) - 1 : w[j] + Window <= u
    <3> SUFFICES ASSUME NEW j \in 1 .. g - f PROVE w[j] + Window <= u
      BY <1>2
    <3>1. times[f + j - 1] + Window <= u
      BY <1>2, <2>2 DEF Fresh
    <3> QED BY <2>2, <3>1
  <2>5. g - f + 1 \in 1 .. Len(w) + 1
    BY <1>2, <1>3, <1>4
  <2>6. g - f + 1 <= Len(w) => w[g - f + 1] + Window > u
    BY <2>1, <2>3
  <2> QED BY <2>4, <2>5, <2>6 DEF Fresh
<1>6. FirstWithin(w, u) = g - f + 1
  BY <1>4, <1>5, FirstFresh
<1>7. /\ Within(w, u) \in Seq(0..LastTime) /\ Len(Within(w, u)) = Len(times) - g + 1
      /\ \A i \in 1 .. Len(times) - g + 1 : Within(w, u)[i] = w[g - f + i]
  <2>1. /\ Within(w, u) \in Seq(0..LastTime)
        /\ Len(Within(w, u)) = Len(w) - (g - f + 1) + 1
        /\ \A i \in 1 .. Len(w) - (g - f + 1) + 1 : Within(w, u)[i] = w[(g - f + 1) + i - 1]
    <3> DEFINE n == FirstWithin(w, u)
    <3>1. /\ Within(w, u) \in Seq(0..LastTime)
          /\ Len(Within(w, u)) = Len(w) - n + 1
          /\ \A i \in 1 .. Len(w) - n + 1 : Within(w, u)[i] = w[n + i - 1]
      BY <1>4, WithinFacts
    <3> HIDE DEF n
    <3>2. n = g - f + 1
      BY <1>6 DEF n
    <3> QED BY <3>1, <3>2
  <2>2. Len(w) - (g - f + 1) + 1 = Len(times) - g + 1
    BY <1>2, <1>4
  <2>3. \A i \in 1 .. Len(times) - g + 1 : (g - f + 1) + i - 1 = g - f + i
    BY <1>2
  <2> QED BY <2>1, <2>2, <2>3
<1>8. /\ Within(times, u) \in Seq(0..LastTime) /\ Len(Within(times, u)) = Len(times) - g + 1
      /\ \A i \in 1 .. Len(times) - g + 1 : Within(times, u)[i] = times[g + i - 1]
  BY WithinFacts DEF g
<1>9. \A i \in 1 .. Len(times) - g + 1 : w[g - f + i] = times[g + i - 1]
  BY <1>2, <1>3, <1>4
<1>10. Within(w, u) = Within(times, u)
  <2>1. \A i \in 1 .. Len(Within(w, u)) : Within(w, u)[i] = Within(times, u)[i]
    BY <1>7, <1>8, <1>9
  <2> QED BY <1>7, <1>8, <2>1, SeqEqual
<1> QED BY <1>10 DEF w

Buckets == [key : Senders, times : Seq(0..LastTime)]

RateFacts ==
  /\ now \in 0..LastTime /\ now \in Nat
  /\ table \in Seq(Buckets) /\ Len(table) \in Nat /\ Len(table) <= MaxBuckets
  /\ granted \in [Senders -> Seq(0..LastTime)]
  /\ \A i \in DOMAIN table :
       /\ table[i] \in Buckets /\ table[i].key \in Senders /\ table[i].times \in Seq(0..LastTime)
       /\ \A k \in DOMAIN table[i].times : table[i].times[k] \in Nat

LEMMA RateTyped == ASSUME RateTypeOK PROVE RateFacts
<1>1. now \in 0..LastTime /\ table \in Seq(Buckets) /\ Len(table) <= MaxBuckets
        /\ granted \in [Senders -> Seq(0..LastTime)]
  BY DEF RateTypeOK, Buckets
<1>2. \A i \in DOMAIN table : table[i] \in Buckets
  BY <1>1
<1>3. \A i \in DOMAIN table : table[i].key \in Senders /\ table[i].times \in Seq(0..LastTime)
  BY <1>2 DEF Buckets
<1> QED BY <1>1, <1>2, <1>3 DEF RateFacts

Ordered(times, t) ==
  \A j, k \in DOMAIN times : j <= k => times[j] <= times[k] /\ times[k] <= t

\* What RateInv says of a bucket.
Sound(b, t) ==
  /\ Len(b.times) <= RateLimit
  /\ Ordered(b.times, t)
  /\ granted[b.key] = Within(b.times, t)

\* A bucket whose newest time is out of the window granted nothing in it.
LEMMA StaleIsEmpty ==
  ASSUME NEW b \in Buckets, NEW t \in 0..LastTime, now = t, Ordered(b.times, t), Stale(b)
  PROVE  Within(b.times, t) = <<>>
<1> DEFINE times == b.times
           f == FirstWithin(times, t)
<1>1. times \in Seq(0..LastTime) /\ t \in Nat /\ \A i \in DOMAIN times : times[i] \in Nat
  <2>1. times \in Seq(0..LastTime)
    BY DEF Buckets
  <2> QED BY <2>1
<1>2. f \in 1 .. Len(times) + 1 /\ Fresh(times, t, f)
  BY <1>1, FirstFresh
<1>3. Len(times) # 0 => times[Len(times)] + Window <= t
  BY <1>1 DEF Stale
<1>4. /\ Within(times, t) \in Seq(0..LastTime)
      /\ Len(Within(times, t)) = Len(times) - f + 1
  BY <1>1, WithinFacts
<1> HIDE DEF f
<1>5. f = Len(times) + 1
  <2> SUFFICES ASSUME f <= Len(times) PROVE FALSE
    BY <1>1, <1>2
  <2>1. times[f] <= times[Len(times)] /\ times[f] + Window > t
    <3>1. f \in 1 .. Len(times) /\ Len(times) \in 1 .. Len(times) /\ f <= Len(times)
      BY <1>1, <1>2
    <3>2. times[f] <= times[Len(times)]
      BY <3>1 DEF Ordered
    <3>3. times[f] + Window > t
      BY <1>2, <3>1 DEF Fresh
    <3> QED BY <3>2, <3>3
  <2>2. f \in DOMAIN times /\ Len(times) \in DOMAIN times /\ Len(times) # 0
    BY <1>1, <1>2
  <2>3. times[f] \in Nat /\ times[Len(times)] \in Nat
    BY <1>1, <2>2
  <2>4. times[Len(times)] + Window <= t
    BY <1>3, <2>2
  <2> HIDE DEF times
  <2> QED BY <1>1, <2>1, <2>3, <2>4
<1> QED BY <1>1, <1>4, <1>5

LEMMA RateInitInv == RateInit => RateInv
BY DEF RateInit, RateInv, RateTypeOK

LEMMA WithinEmpty == ASSUME NEW t \in Nat PROVE Within(<<>>, t) = <<>>
<1>1. <<>> \in Seq(0..LastTime) /\ ~(Len(<<>>) > 0)
  OBVIOUS
<1> QED BY <1>1, WithinAll

LEMMA PassInv ==
  ASSUME RateInv, NEW t \in 0..LastTime, Pass(t)
  PROVE  RateInv'
<1>0. RateFacts
  BY RateTyped DEF RateInv
<1>1. /\ t > now /\ now' = t /\ table' = table
      /\ granted' = [s \in Senders |-> Within(granted[s], t)]
      /\ now \in Nat /\ t \in Nat /\ \A s \in Senders : granted[s] \in Seq(0..LastTime)
  BY <1>0 DEF Pass, RateFacts
<1>2. \A s \in Senders : granted'[s] = Within(granted[s], t)
  BY <1>1
<1>3. \A s \in Senders : Within(granted[s], t) \in Seq(0..LastTime)
  BY <1>1, WithinFacts
<1>4. RateTypeOK'
  <2>1. granted' \in [Senders -> Seq(0..LastTime)]
    BY <1>1, <1>3
  <2> QED BY <1>1, <2>1 DEF RateTypeOK, RateInv
<1>5. \A s \in Senders : (\A i \in DOMAIN table : table[i].key # s) => granted'[s] = <<>>
  BY <1>1, <1>2, WithinEmpty DEF RateInv
<1>6. ASSUME NEW i \in DOMAIN table
      PROVE  /\ Ordered(table[i].times, t)
             /\ granted'[table[i].key] = Within(table[i].times, t)
  <2>1. /\ table[i].key \in Senders /\ table[i].times \in Seq(0..LastTime)
        /\ \A k \in DOMAIN table[i].times : table[i].times[k] \in Nat
    BY <1>0, <1>6 DEF RateFacts
  <2>2. granted[table[i].key] = Within(table[i].times, now)
    BY <1>6 DEF RateInv
  <2>3. Within(Within(table[i].times, now), t) = Within(table[i].times, t)
    BY <1>1, <2>1, WithinTwice
  <2>4. \A j, k \in DOMAIN table[i].times :
          j <= k => table[i].times[j] <= table[i].times[k] /\ table[i].times[k] <= now
    BY <1>6 DEF RateInv
  <2> QED BY <1>1, <1>2, <2>1, <2>2, <2>3, <2>4 DEF Ordered
<1> QED BY <1>1, <1>4, <1>5, <1>6 DEF RateInv, Ordered

\* A check leaves every other sender's bucket as it is, or drops one that granted nothing.
LEMMA CountedInv ==
  ASSUME RateInv, NEW s \in Senders, NEW others \in Seq(Buckets), Len(others) < MaxBuckets,
         \A i \in DOMAIN others : others[i].key # s,
         \A i \in DOMAIN others : \E k \in DOMAIN table : others[i] = table[k],
         \A i, j \in DOMAIN others : others[i].key = others[j].key => i = j,
         \A u \in Senders \ {s} :
           (\A i \in DOMAIN others : others[i].key # u) => granted[u] = <<>>,
         NEW times \in Seq(0..LastTime), Len(times) <= RateLimit, Ordered(times, now),
         granted[s] = times, Within(times, now) = times,
         Counted(s, others, times), UNCHANGED now
  PROVE  RateInv'
<1> DEFINE grants == Len(times) < RateLimit
           kept == IF grants THEN Append(times, now) ELSE times
           bucket == [key |-> s, times |-> kept]
<1>0. RateFacts
  BY RateTyped DEF RateInv
<1>1. /\ table' = Append(others, bucket)
      /\ granted' = IF grants THEN [granted EXCEPT ![s] = Append(@, now)] ELSE granted
      /\ now' = now /\ now \in 0..LastTime /\ now \in Nat
      /\ granted \in [Senders -> Seq(0..LastTime)] /\ Len(times) \in Nat
      /\ RateLimit \in Nat /\ MaxBuckets \in Nat /\ Window \in Nat \ {0}
  BY <1>0, RateAssumption DEF Counted, RateFacts
<1>2. /\ kept \in Seq(0..LastTime) /\ Len(kept) <= RateLimit
      /\ granted' = [granted EXCEPT ![s] = kept]
  <2>1. CASE grants
    BY <1>1, <2>1
  <2>2. CASE ~grants
    BY <1>1, <2>2
  <2> QED BY <2>1, <2>2
<1>3. Ordered(kept, now)
  <2>1. CASE grants
    <3>1. kept = Append(times, now) /\ DOMAIN kept = 1 .. Len(times) + 1
      BY <2>1
    <3>2. kept[Len(times) + 1] = now /\ \A i \in 1 .. Len(times) : kept[i] = times[i]
      BY <3>1, <1>1
    <3>3. \A i \in 1 .. Len(times) : times[i] <= now
      BY <1>1 DEF Ordered
    <3>4. \A j, k \in 1 .. Len(times) : j <= k => times[j] <= times[k]
      BY <1>1 DEF Ordered
    <3> HIDE DEF kept
    <3>5. \A i \in DOMAIN kept : i \in 1 .. Len(times) \/ i = Len(times) + 1
      BY <1>1, <3>1
    <3> QED BY <1>1, <3>1, <3>2, <3>3, <3>4, <3>5 DEF Ordered
  <2>2. CASE ~grants
    BY <2>2
  <2> QED BY <2>1, <2>2
<1>4. Within(kept, now) = kept
  <2>1. CASE grants
    <3>1. FirstWithin(times, now) \in 1 .. Len(times) + 1
            /\ Fresh(times, now, FirstWithin(times, now))
            /\ Len(Within(times, now)) = Len(times) - FirstWithin(times, now) + 1
      BY <1>1, FirstFresh, WithinFacts
    <3> DEFINE n == FirstWithin(times, now)
    <3>2. n \in 1 .. Len(times) + 1 /\ Fresh(times, now, n) /\ Len(times) = Len(times) - n + 1
      BY <3>1
    <3> HIDE DEF n
    <3>3. n = 1
      BY <1>1, <3>2
    <3>4. Len(times) > 0 => times[1] + Window > now
      BY <3>2, <3>3 DEF Fresh
    <3>5. kept[1] + Window > now
      <4>1. CASE Len(times) = 0
        BY <1>1, <2>1, <4>1
      <4>2. CASE Len(times) > 0
        BY <1>1, <2>1, <3>4, <4>2
      <4> QED BY <1>1, <4>1, <4>2
    <3> HIDE DEF kept
    <3> QED BY <1>1, <1>2, <3>5, WithinAll
  <2>2. CASE ~grants
    BY <2>2
  <2> QED BY <2>1, <2>2
<1>5. bucket \in Buckets /\ bucket.key = s /\ bucket.times = kept
  BY <1>2 DEF Buckets
<1> HIDE DEF kept, grants
<1>6. /\ table' \in Seq(Buckets) /\ Len(table') = Len(others) + 1
      /\ table'[Len(others) + 1] = bucket
      /\ \A i \in DOMAIN others : table'[i] = others[i]
      /\ DOMAIN table' = DOMAIN others \union {Len(others) + 1}
      /\ Len(others) + 1 \notin DOMAIN others /\ Len(others) \in Nat
  BY <1>1, <1>5
<1> HIDE DEF bucket
<1>7. /\ granted' \in [Senders -> Seq(0..LastTime)] /\ granted'[s] = kept
      /\ \A u \in Senders \ {s} : granted'[u] = granted[u]
  BY <1>1, <1>2
<1>8. RateTypeOK'
  <2>1. Len(table') <= MaxBuckets
    BY <1>1, <1>6
  <2> QED BY <1>1, <1>6, <1>7, <2>1 DEF RateTypeOK, Buckets
<1>9. ASSUME NEW u \in Senders, \A i \in DOMAIN table' : table'[i].key # u
      PROVE  granted'[u] = <<>>
  <2>1. u # s
    BY <1>5, <1>6, <1>9
  <2>2. \A i \in DOMAIN others : others[i].key # u
    BY <1>6, <1>9
  <2> QED BY <1>7, <2>1, <2>2
<1>10. \A i, j \in DOMAIN table' : table'[j].key = table'[i].key => i = j
  BY <1>5, <1>6
<1>11. ASSUME NEW i \in DOMAIN table'
       PROVE  /\ Len(table'[i].times) <= RateLimit /\ Ordered(table'[i].times, now)
              /\ granted'[table'[i].key] = Within(table'[i].times, now)
  <2>1. CASE i = Len(others) + 1
    BY <1>2, <1>3, <1>4, <1>5, <1>6, <1>7, <2>1
  <2>2. CASE i \in DOMAIN others
    <3>1. PICK k \in DOMAIN table : others[i] = table[k]
      BY <2>2
    <3>2. table'[i] = table[k] /\ table[k].key # s /\ table[k].key \in Senders
      BY <1>0, <1>6, <2>2, <3>1 DEF RateFacts
    <3>3. /\ Len(table[k].times) <= RateLimit /\ Ordered(table[k].times, now)
          /\ granted[table[k].key] = Within(table[k].times, now)
      BY DEF RateInv, Ordered
    <3> QED BY <1>7, <3>2, <3>3
  <2> QED BY <1>6, <2>1, <2>2
<1>12. \A i \in DOMAIN table' :
          /\ \A j, k \in DOMAIN table'[i].times :
               j <= k => table'[i].times[j] <= table'[i].times[k] /\ table'[i].times[k] <= now'
          /\ granted'[table'[i].key] = Within(table'[i].times, now')
  BY <1>1, <1>11 DEF Ordered
<1> QED BY <1>8, <1>9, <1>10, <1>11, <1>12 DEF RateInv

LEMMA WithinOrdered ==
  ASSUME NEW times \in Seq(0..LastTime), NEW t \in Nat, Ordered(times, t)
  PROVE  Ordered(Within(times, t), t) /\ Len(Within(times, t)) <= Len(times)
<1> DEFINE n == FirstWithin(times, t)
           w == Within(times, t)
<1>1. /\ n \in 1 .. Len(times) + 1 /\ w \in Seq(0..LastTime) /\ Len(w) = Len(times) - n + 1
      /\ \A i \in 1 .. Len(times) - n + 1 : w[i] = times[n + i - 1]
  BY WithinFacts
<1> HIDE DEF n, w
<1>2. \A i \in DOMAIN w : i \in Nat /\ n + i - 1 \in DOMAIN times /\ w[i] = times[n + i - 1]
  <2>1. n \in Nat /\ n >= 1 /\ Len(times) \in Nat /\ DOMAIN times = 1 .. Len(times)
          /\ DOMAIN w = 1 .. Len(times) - n + 1
    BY <1>1
  <2>2. \A i \in 1 .. Len(times) - n + 1 : i \in Nat /\ n + i - 1 \in 1 .. Len(times)
    BY <2>1
  <2> QED BY <1>1, <2>1, <2>2
<1>3. \A j, k \in DOMAIN w : j <= k => n + j - 1 <= n + k - 1
  BY <1>1
<1>4. Ordered(w, t)
  BY <1>2, <1>3 DEF Ordered
<1>5. Len(w) <= Len(times)
  BY <1>1
<1> QED BY <1>4, <1>5 DEF w

LEMMA OthersFacts ==
  ASSUME table \in Seq(Buckets), NEW i \in DOMAIN table
  PROVE  /\ Others(i) \in Seq(Buckets) /\ Len(Others(i)) = Len(table) - 1
         /\ \A k \in 1 .. Len(table) - 1 :
              Others(i)[k] = IF k < i THEN table[k] ELSE table[k + 1]
<1> DEFINE a == SubSeq(table, 1, i - 1)
           b == SubSeq(table, i + 1, Len(table))
<1>1. i \in 1 .. Len(table) /\ Len(table) \in Nat /\ i + 1 \in 1 .. Len(table) + 1
  OBVIOUS
<1>2. /\ a \in Seq(Buckets) /\ Len(a) = i - 1 /\ \A k \in 1 .. i - 1 : a[k] = table[k]
  BY <1>1
<1>3. /\ b \in Seq(Buckets) /\ Len(b) = Len(table) - i
      /\ \A k \in 1 .. Len(table) - i : b[k] = table[i + k]
  <2>1. /\ b \in Seq(Buckets) /\ Len(b) = Len(table) - (i + 1) + 1
        /\ \A k \in 1 .. Len(table) - (i + 1) + 1 : b[k] = table[(i + 1) + k - 1]
    BY <1>1, Suffix
  <2>2. Len(table) - (i + 1) + 1 = Len(table) - i
    BY <1>1
  <2>3. \A k \in 1 .. Len(table) - i : (i + 1) + k - 1 = i + k
    BY <1>1
  <2> QED BY <2>1, <2>2, <2>3
<1> HIDE DEF a, b
<1>4. a \o b \in Seq(Buckets) /\ Len(a \o b) = Len(table) - 1
  BY <1>1, <1>2, <1>3
<1>5. ASSUME NEW k \in 1 .. Len(table) - 1
      PROVE  (a \o b)[k] = IF k < i THEN table[k] ELSE table[k + 1]
  <2>1. CASE k < i
    <3>1. k \in 1 .. i - 1
      BY <1>1, <2>1
    <3>2. (a \o b)[k] = a[k]
      BY <1>1, <1>2, <1>3, <3>1, ConcatProperties
    <3> QED BY <1>2, <2>1, <3>1, <3>2
  <2>2. CASE ~(k < i)
    <3>0. /\ Len(a) = i - 1 /\ k \in 1 .. Len(a) + Len(b) /\ ~(k <= Len(a))
          /\ a \in Seq(Buckets) /\ b \in Seq(Buckets)
      <4>1. Len(a) = i - 1 /\ Len(b) = Len(table) - i /\ Len(table) \in Nat /\ i \in Nat
        BY <1>1, <1>2, <1>3
      <4> QED BY <1>2, <1>3, <2>2, <4>1
    <3>1. (a \o b)[k] = b[k - (i - 1)]
      BY <3>0, ConcatProperties
    <3>2. k - (i - 1) \in 1 .. Len(table) - i /\ i + (k - (i - 1)) = k + 1
      BY <1>1, <2>2
    <3>3. b[k - (i - 1)] = table[i + (k - (i - 1))]
      BY <1>3, <3>2
    <3> QED BY <2>2, <3>1, <3>2, <3>3
  <2> QED BY <2>1, <2>2
<1> QED BY <1>4, <1>5 DEF a, b, Others

LEMMA CheckInv ==
  ASSUME RateInv, NEW s \in Senders, Check(s)
  PROVE  RateInv'
<1>0. RateFacts
  BY RateTyped DEF RateInv
<1>1. /\ table \in Seq(Buckets) /\ Len(table) \in Nat /\ Len(table) <= MaxBuckets
      /\ now \in Nat /\ now \in 0..LastTime /\ UNCHANGED now
      /\ MaxBuckets \in Nat \ {0} /\ RateLimit \in Nat \ {0}
      /\ \A i \in DOMAIN table : table[i] \in Buckets /\ table[i].times \in Seq(0..LastTime)
      /\ \A i \in DOMAIN table : Ordered(table[i].times, now)
      /\ \A i, j \in DOMAIN table : table[j].key = table[i].key => i = j
  BY <1>0, RateAssumption DEF RateFacts, RateInv, Ordered, Check
<1>2. <<>> \in Seq(0..LastTime) /\ Len(<<>>) = 0 /\ Ordered(<<>>, now)
        /\ Within(<<>>, now) = <<>>
  BY <1>1, WithinEmpty DEF Ordered
<1>3. ASSUME NEW i \in DOMAIN table, table[i].key = s,
             Counted(s, Others(i), Within(table[i].times, now))
      PROVE  RateInv'
  <2> DEFINE times == Within(table[i].times, now)
             others == Others(i)
  <2>1. times \in Seq(0..LastTime) /\ Within(times, now) = times /\ Ordered(times, now)
          /\ Len(times) <= Len(table[i].times) /\ Len(table[i].times) \in Nat
          /\ Len(times) \in Nat
    <3>1. table[i].times \in Seq(0..LastTime) /\ Ordered(table[i].times, now)
      BY <1>1
    <3>2. times \in Seq(0..LastTime)
      BY <1>1, <3>1, WithinFacts
    <3>3. Within(times, now) = times
      BY <1>1, <3>1, WithinTwice
    <3>4. Ordered(times, now) /\ Len(times) <= Len(table[i].times)
      BY <1>1, <3>1, WithinOrdered
    <3> HIDE DEF times
    <3> QED BY <3>1, <3>2, <3>3, <3>4
  <2>2. Len(table[i].times) <= RateLimit /\ granted[s] = times
    BY <1>3 DEF RateInv
  <2>3. Len(times) <= RateLimit
    <3> HIDE DEF times
    <3> QED BY <1>1, <2>1, <2>2
  <2>4. /\ others \in Seq(Buckets) /\ Len(others) = Len(table) - 1
        /\ \A k \in 1 .. Len(table) - 1 :
             others[k] = IF k < i THEN table[k] ELSE table[k + 1]
    BY <1>1, OthersFacts
  <2> HIDE DEF times, others
  <2>5. Len(others) < MaxBuckets /\ DOMAIN others = 1 .. Len(table) - 1
    BY <1>1, <2>4
  <2> DEFINE from(k) == IF k < i THEN k ELSE k + 1
  <2>6. \A k \in DOMAIN others :
          /\ others[k] = table[from(k)] /\ from(k) \in DOMAIN table /\ from(k) # i
    BY <1>1, <2>4, <2>5
  <2>7. \A j, k \in DOMAIN others : from(j) = from(k) => j = k
    BY <2>5
  <2>8. \A j \in DOMAIN table : j # i => \E k \in DOMAIN others : from(k) = j
    <3> SUFFICES ASSUME NEW j \in DOMAIN table, j # i
                 PROVE  \E k \in DOMAIN others : from(k) = j
      OBVIOUS
    <3>1. CASE j < i
      <4>1. j \in DOMAIN others /\ from(j) = j
        BY <1>1, <2>5, <3>1
      <4> QED BY <4>1
    <3>2. CASE j > i
      <4>1. j - 1 \in DOMAIN others /\ from(j - 1) = j
        BY <1>1, <2>5, <3>2
      <4> QED BY <4>1
    <3> QED BY <1>1, <3>1, <3>2
  <2> HIDE DEF from
  <2>9. \A k \in DOMAIN others : others[k].key # s
    BY <1>1, <1>3, <2>6
  <2>10. \A k \in DOMAIN others : \E j \in DOMAIN table : others[k] = table[j]
    BY <2>6
  <2>11. \A j, k \in DOMAIN others : others[j].key = others[k].key => j = k
    BY <1>1, <2>6, <2>7
  <2>12. ASSUME NEW u \in Senders \ {s}, \A k \in DOMAIN others : others[k].key # u
         PROVE  granted[u] = <<>>
    <3>1. \A j \in DOMAIN table : table[j].key # u
      BY <1>3, <2>6, <2>8, <2>12
    <3> QED BY <3>1 DEF RateInv
  <2>13. Counted(s, others, times)
    BY <1>3 DEF others, times
  <2> QED BY <1>1, <2>1, <2>2, <2>3, <2>4, <2>5, <2>9, <2>10, <2>11, <2>12, <2>13, CountedInv
<1>4. ASSUME \A i \in DOMAIN table : table[i].key # s, Len(table) < MaxBuckets,
             Counted(s, table, <<>>)
      PROVE  RateInv'
  <2>1. /\ granted[s] = <<>>
        /\ \A u \in Senders : (\A i \in DOMAIN table : table[i].key # u) => granted[u] = <<>>
    BY <1>4 DEF RateInv
  <2>2. \A i \in DOMAIN table : \E k \in DOMAIN table : table[i] = table[k]
    OBVIOUS
  <2>3. Len(<<>>) <= RateLimit
    BY <1>1, <1>2
  <2> QED BY <1>1, <1>2, <1>4, <2>1, <2>2, <2>3, CountedInv
<1>5. ASSUME \A i \in DOMAIN table : table[i].key # s, Len(table) >= MaxBuckets,
             Stale(table[1]), Counted(s, Tail(table), <<>>)
      PROVE  RateInv'
  <2> DEFINE others == Tail(table)
  <2>1. 1 \in DOMAIN table /\ table[1] \in Buckets
    BY <1>1, <1>5
  <2>2. /\ others \in Seq(Buckets) /\ Len(others) = Len(table) - 1
        /\ \A k \in 1 .. Len(table) - 1 : others[k] = table[k + 1] /\ k + 1 \in DOMAIN table
        /\ DOMAIN others = 1 .. Len(table) - 1 /\ Len(others) < MaxBuckets
    BY <1>1, <2>1
  <2> HIDE DEF others
  <2>3. granted[table[1].key] = <<>>
    BY <1>1, <1>5, <2>1, StaleIsEmpty DEF RateInv
  <2>4. \A k \in DOMAIN others : others[k].key # s
    BY <1>5, <2>2
  <2>5. \A k \in DOMAIN others : \E j \in DOMAIN table : others[k] = table[j]
    BY <2>2
  <2>6. \A j, k \in DOMAIN others : others[j].key = others[k].key => j = k
    <3> SUFFICES ASSUME NEW j \in DOMAIN others, NEW k \in DOMAIN others,
                        others[j].key = others[k].key
                 PROVE  j = k
      OBVIOUS
    <3>1. /\ others[j] = table[j + 1] /\ j + 1 \in DOMAIN table
          /\ others[k] = table[k + 1] /\ k + 1 \in DOMAIN table
      BY <2>2
    <3>2. j + 1 = k + 1
      BY <1>1, <3>1
    <3> QED BY <2>2, <3>2
  <2>7. ASSUME NEW u \in Senders \ {s}, \A k \in DOMAIN others : others[k].key # u
        PROVE  granted[u] = <<>>
    <3>1. CASE u = table[1].key
      BY <2>3, <3>1
    <3>2. CASE u # table[1].key
      <4>1. ASSUME NEW j \in DOMAIN table, j # 1 PROVE table[j].key # u
        <5>1. j - 1 \in DOMAIN others /\ (j - 1) + 1 = j
          BY <1>1, <2>2, <4>1
        <5> QED BY <2>2, <2>7, <5>1
      <4> QED BY <3>2, <4>1 DEF RateInv
    <3> QED BY <3>1, <3>2
  <2>8. granted[s] = <<>> /\ Len(<<>>) <= RateLimit
    BY <1>1, <1>2, <1>5 DEF RateInv
  <2>9. Counted(s, others, <<>>)
    BY <1>5 DEF others
  <2> QED BY <1>1, <1>2, <2>2, <2>4, <2>5, <2>6, <2>7, <2>8, <2>9, CountedInv
<1> QED BY <1>3, <1>4, <1>5 DEF Check

LEMMA RateInductive == RateSpec => []RateInv
<1>1. RateInit => RateInv
  BY RateInitInv
<1>2. RateInv /\ [RateNext]_rateVars => RateInv'
  <2> SUFFICES ASSUME RateInv, [RateNext]_rateVars PROVE RateInv'
    OBVIOUS
  <2>1. CASE RateNext
    BY <2>1, PassInv, CheckInv DEF RateNext
  <2>2. CASE UNCHANGED rateVars
    BY <2>2 DEF rateVars, RateInv, RateTypeOK
  <2> QED BY <2>1, <2>2
<1> QED BY <1>1, <1>2, PTL DEF RateSpec

\* Buckets are never more than MAX_RATE_BUCKETS, and hold times that have passed.
THEOREM RateTypeCorrect == RateSpec => []RateTypeOK
<1>1. RateInv => RateTypeOK
  BY DEF RateInv
<1> QED BY <1>1, RateInductive, PTL

\* No sender passes the limit in any window, for every limit, window and table size,
\* although buckets are evicted.
THEOREM WithinLimitHolds == RateSpec => []WithinLimit
<1>1. ASSUME RateInv, NEW s \in Senders PROVE Len(granted[s]) <= RateLimit
  <2>0. RateFacts /\ RateLimit \in Nat \ {0}
    BY <1>1, RateTyped, RateAssumption DEF RateInv
  <2>1. CASE \A i \in DOMAIN table : table[i].key # s
    <3>1. granted[s] = <<>>
      BY <1>1, <2>1 DEF RateInv
    <3> QED BY <2>0, <3>1
  <2>2. ASSUME NEW i \in DOMAIN table, table[i].key = s PROVE Len(granted[s]) <= RateLimit
    <3> DEFINE times == table[i].times
    <3>1. /\ times \in Seq(0..LastTime) /\ now \in Nat
          /\ Len(times) <= RateLimit /\ Ordered(times, now)
          /\ granted[s] = Within(times, now)
      BY <1>1, <2>0, <2>2 DEF RateFacts, RateInv, Ordered
    <3> HIDE DEF times
    <3>2. Len(Within(times, now)) <= Len(times) /\ Len(Within(times, now)) \in Nat
            /\ Len(times) \in Nat
      <4>1. Within(times, now) \in Seq(0..LastTime)
        BY <3>1, WithinFacts
      <4>2. Len(Within(times, now)) <= Len(times)
        BY <3>1, WithinOrdered
      <4> QED BY <3>1, <4>1, <4>2
    <3> QED BY <2>0, <3>1, <3>2
  <2> QED BY <2>1, <2>2
<1>2. RateInv => WithinLimit
  BY <1>1 DEF WithinLimit
<1> QED BY <1>2, RateInductive, PTL

-----------------------------------------------------------------------------
(* GlobMatch *)

HIDE RateAssumption
HIDE ReplayAssumption

\* One place set from the next: the body of the recursion of Matching.
PlacesAt(pattern, value, i, after) ==
  IF i > Len(pattern) THEN {Len(value) + 1}
  ELSE IF pattern[i] = "*"
    THEN {j \in 1 .. Len(value) + 1 : \E k \in after : j <= k}
    ELSE {j \in 1 .. Len(value) : pattern[i] \in {value[j], "?"} /\ j + 1 \in after}

\* f has the places of the rests from the n-th on.
RestsFrom(pattern, value, n, f) ==
  f = [i \in n .. Len(pattern) + 1 |->
         IF i > Len(pattern) THEN {Len(value) + 1}
         ELSE IF pattern[i] = "*"
           THEN {j \in 1 .. Len(value) + 1 : \E k \in f[i + 1] : j <= k}
           ELSE {j \in 1 .. Len(value) : pattern[i] \in {value[j], "?"} /\ j + 1 \in f[i + 1]}]

\* The recursion of Matching is well-founded.
LEMMA RestsExist ==
  ASSUME NEW pattern, Len(pattern) \in Nat, NEW value
  PROVE  \A d \in 0 .. Len(pattern) : \E f : RestsFrom(pattern, value, Len(pattern) + 1 - d, f)
<1> DEFINE m == Len(pattern)
           Reaches(d) == \E f : RestsFrom(pattern, value, m + 1 - d, f)
           Bad == {d \in Nat : d <= m /\ ~Reaches(d)}
<1>1. SUFFICES ASSUME Bad # {} PROVE FALSE
  OBVIOUS
<1>2. PICK d \in Bad : \A k \in Bad : d <= k
  <2>1. Bad \in SUBSET Nat
    OBVIOUS
  <2> HIDE DEF Bad
  <2> QED BY <1>1, <2>1, LeastNatural
<1>3. d \in Nat /\ d <= m /\ ~Reaches(d)
  BY <1>2
<1>4. d # 0
  <2> DEFINE f == [i \in m + 1 .. m + 1 |-> {Len(value) + 1}]
  <2>1. \A i \in m + 1 .. m + 1 : i > m
    OBVIOUS
  <2>2. RestsFrom(pattern, value, m + 1, f)
    BY <2>1 DEF RestsFrom
  <2>3. m + 1 - 0 = m + 1
    OBVIOUS
  <2> QED BY <1>3, <2>2, <2>3
<1> DEFINE n == m + 1 - d
<1>5. n \in 1..m /\ m + 1 - (d - 1) = n + 1 /\ d - 1 \in Nat /\ d - 1 <= m /\ ~(d <= d - 1)
  BY <1>3, <1>4
<1>6. PICK f : RestsFrom(pattern, value, n + 1, f)
  <2>1. d - 1 \notin Bad
    BY <1>2, <1>5
  <2>2. Reaches(d - 1)
    BY <1>5, <2>1
  <2> QED BY <1>5, <2>2
<1> DEFINE g == [i \in n .. m + 1 |-> IF i = n THEN PlacesAt(pattern, value, n, f[n + 1]) ELSE f[i]]
<1> HIDE DEF n
<1>7. \A i \in n + 1 .. m + 1 : f[i] = PlacesAt(pattern, value, i, f[i + 1])
  BY <1>6 DEF RestsFrom, PlacesAt
<1>8. ASSUME NEW i \in n .. m + 1 PROVE g[i] = PlacesAt(pattern, value, i, g[i + 1])
  <2>1. CASE i = n
    <3>1. i + 1 \in n .. m + 1 /\ i + 1 # n
      BY <1>5, <2>1
    <3> QED BY <2>1, <3>1
  <2>2. CASE i # n
    <3>1. i \in n + 1 .. m + 1
      BY <1>5, <2>2
    <3>2. g[i] = f[i] /\ f[i] = PlacesAt(pattern, value, i, f[i + 1])
      BY <1>7, <2>2, <3>1
    <3>3. CASE i > m
      BY <3>2, <3>3 DEF PlacesAt
    <3>4. CASE ~(i > m)
      <4>1. i + 1 \in n .. m + 1 /\ i + 1 # n
        BY <1>5, <3>1, <3>4
      <4> QED BY <3>2, <4>1
    <3> QED BY <3>3, <3>4
  <2> QED BY <2>1, <2>2
<1>9. RestsFrom(pattern, value, n, g)
  <2>1. g = [i \in n .. m + 1 |-> g[i]]
    OBVIOUS
  <2> HIDE DEF g
  <2> QED BY <1>8, <2>1 DEF RestsFrom, PlacesAt
<1> HIDE DEF g
<1> QED BY <1>3, <1>9 DEF n

\* The recursion, unfolded once.
LEMMA MatchingByStep ==
  ASSUME NEW pattern, Len(pattern) \in Nat, NEW value
  PROVE  \A i \in 1 .. Len(pattern) + 1 :
           Matching(pattern, value)[i] =
             PlacesAt(pattern, value, i, Matching(pattern, value)[i + 1])
<1> DEFINE f == CHOOSE F : RestsFrom(pattern, value, 1, F)
<1>1. RestsFrom(pattern, value, 1, f)
  <2>1. Len(pattern) \in 0 .. Len(pattern) /\ Len(pattern) + 1 - Len(pattern) = 1
    OBVIOUS
  <2>2. \E F : RestsFrom(pattern, value, 1, F)
    BY <2>1, RestsExist
  <2> QED BY <2>2
<1>2. Matching(pattern, value) = f
  BY DEF Matching, RestsFrom
<1> HIDE DEF f
<1> QED BY <1>1, <1>2 DEF RestsFrom, PlacesAt

\* At the end of the value, a rest of the mask matches exactly if it is all stars.
LEMMA EndPlaces ==
  ASSUME NEW pattern, Len(pattern) \in Nat, NEW value, Len(value) \in Nat
  PROVE  \A n \in 1 .. Len(pattern) + 1 :
           Len(value) + 1 \in Matching(pattern, value)[n]
             <=> \A i \in n .. Len(pattern) : pattern[i] = "*"
<1> DEFINE m == Len(pattern)
           end == Len(value) + 1
           Stars(n) == \A i \in n .. m : pattern[i] = "*"
           Good(n) == end \in Matching(pattern, value)[n] <=> Stars(n)
           Bad == {d \in Nat : d <= m /\ ~Good(m + 1 - d)}
<1>1. Bad = {}
  <2>1. SUFFICES ASSUME Bad # {} PROVE FALSE
    OBVIOUS
  <2>2. PICK d \in Bad : \A k \in Bad : d <= k
    <3>1. Bad \in SUBSET Nat
      OBVIOUS
    <3> HIDE DEF Bad
    <3> QED BY <2>1, <3>1, LeastNatural
  <2> DEFINE n == m + 1 - d
  <2>3. d \in Nat /\ d <= m /\ ~Good(n)
    BY <2>2
  <2>4. n \in 1 .. m + 1
    BY <2>3
  <2>5. Matching(pattern, value)[n] = PlacesAt(pattern, value, n, Matching(pattern, value)[n + 1])
    BY <2>4, MatchingByStep
  <2>6. CASE d = 0
    <3>1. n = m + 1
      BY <2>6
    <3>2. Matching(pattern, value)[n] = {end}
      BY <2>5, <3>1 DEF PlacesAt
    <3>3. Stars(n)
      BY <3>1
    <3> QED BY <2>3, <3>2, <3>3
  <2>7. CASE d # 0
    <3>1. n \in 1..m /\ m + 1 - (d - 1) = n + 1 /\ d - 1 \in Nat /\ d - 1 <= m /\ ~(d <= d - 1)
      <4>1. m \in Nat
        OBVIOUS
      <4> HIDE DEF m
      <4> QED BY <2>3, <2>7, <4>1
    <3>2. Good(n + 1)
      <4>1. d - 1 \notin Bad
        BY <2>2, <3>1
      <4> QED BY <3>1, <4>1
    <3>3. Stars(n) <=> pattern[n] = "*" /\ Stars(n + 1)
      BY <3>1
    <3> HIDE DEF n, Stars
    <3>4. CASE pattern[n] = "*"
      <4>1. Matching(pattern, value)[n] =
              {j \in 1 .. end : \E k \in Matching(pattern, value)[n + 1] : j <= k}
        BY <2>5, <3>1, <3>4 DEF PlacesAt
      <4>2. Matching(pattern, value)[n + 1] \subseteq 1 .. end
        <5>1. n + 1 \in 1 .. m + 1
          BY <3>1
        <5>2. Matching(pattern, value)[n + 1] =
                PlacesAt(pattern, value, n + 1, Matching(pattern, value)[(n + 1) + 1])
          BY <5>1, MatchingByStep
        <5> QED BY <5>2 DEF PlacesAt
      <4>3. end \in Matching(pattern, value)[n] <=> end \in Matching(pattern, value)[n + 1]
        BY <4>1, <4>2
      <4> QED BY <2>3, <3>2, <3>3, <3>4, <4>3
    <3>5. CASE pattern[n] # "*"
      <4>1. Matching(pattern, value)[n] \subseteq 1 .. Len(value)
        BY <2>5, <3>1, <3>5 DEF PlacesAt
      <4>2. end \notin 1 .. Len(value)
        OBVIOUS
      <4> QED BY <2>3, <3>3, <3>5, <4>1, <4>2
    <3> QED BY <3>4, <3>5
  <2> QED BY <2>6, <2>7
<1>2. ASSUME NEW n \in 1 .. m + 1 PROVE Good(n)
  <2>1. m + 1 - n \in Nat /\ m + 1 - n <= m /\ m + 1 - (m + 1 - n) = n
    OBVIOUS
  <2>2. m + 1 - n \notin Bad
    BY <1>1
  <2> QED BY <2>1, <2>2
<1> QED BY <1>2

\* What the places of a mask and a value are, rest by rest.
LEMMA PlaceFacts ==
  ASSUME NEW pattern \in Patterns, NEW value \in Values
  PROVE  /\ Len(pattern) \in Nat /\ Len(value) \in Nat
         /\ \A j \in 1 .. Len(value) : value[j] # "*"
         /\ \A i \in 1 .. Len(pattern) + 1 : Matching(pattern, value)[i] \subseteq 1 .. Len(value) + 1
         /\ Matching(pattern, value)[Len(pattern) + 1] = {Len(value) + 1}
         /\ \A i \in 1 .. Len(pattern), j \in 1 .. Len(value) + 1 :
              j \in Matching(pattern, value)[i] <=>
                IF pattern[i] = "*"
                  THEN \E k \in Matching(pattern, value)[i + 1] : j <= k
                  ELSE /\ j <= Len(value) /\ pattern[i] \in {value[j], "?"}
                       /\ j + 1 \in Matching(pattern, value)[i + 1]
<1> DEFINE Places == Matching(pattern, value)
<1>1. PICK m \in 0..MaxPattern : pattern \in [1..m -> Characters \union {"*", "?"}]
  BY DEF Patterns
<1>2. PICK n \in 0..MaxValue : value \in [1..n -> Characters]
  BY DEF Values
<1>3. m \in Nat /\ n \in Nat
  BY <1>1, <1>2, CharactersAssumption
<1>4. Len(pattern) = m /\ Len(value) = n
  <2>1. DOMAIN pattern = 1..m /\ DOMAIN value = 1..n
    BY <1>1, <1>2
  <2>2. pattern \in Seq(Characters \union {"*", "?"}) /\ value \in Seq(Characters)
    BY <1>1, <1>2, <1>3, IsASeq
  <2> QED BY <1>3, <2>1, <2>2, LenProperties
<1>5. \A j \in 1..n : value[j] # "*"
  BY <1>2, CharactersAssumption
<1>6. \A i \in 1 .. m + 1 : Places[i] = PlacesAt(pattern, value, i, Places[i + 1])
  BY <1>3, <1>4, MatchingByStep
<1> HIDE DEF Places
<1>7. ASSUME NEW i \in 1 .. m + 1 PROVE Places[i] \subseteq 1 .. n + 1
  <2>1. Places[i] = PlacesAt(pattern, value, i, Places[i + 1])
    BY <1>6
  <2>2. {n + 1} \subseteq 1 .. n + 1 /\ 1..n \subseteq 1 .. n + 1
    BY <1>3
  <2>3. CASE i > m
    BY <1>4, <2>1, <2>2, <2>3 DEF PlacesAt
  <2>4. CASE ~(i > m) /\ pattern[i] = "*"
    BY <1>4, <2>1, <2>4 DEF PlacesAt
  <2>5. CASE ~(i > m) /\ pattern[i] # "*"
    BY <1>4, <2>1, <2>2, <2>5 DEF PlacesAt
  <2> QED BY <2>3, <2>4, <2>5
<1>8. Places[m + 1] = {n + 1}
  <2>1. m + 1 \in 1 .. m + 1 /\ m + 1 > m
    BY <1>3
  <2> QED BY <1>4, <1>6, <2>1 DEF PlacesAt
<1>9. ASSUME NEW i \in 1..m, NEW j \in 1 .. n + 1
      PROVE  j \in Places[i] <=> IF pattern[i] = "*"
                                   THEN \E k \in Places[i + 1] : j <= k
                                   ELSE /\ j <= n /\ pattern[i] \in {value[j], "?"}
                                        /\ j + 1 \in Places[i + 1]
  <2>1. i \in 1 .. m + 1 /\ ~(i > m)
    BY <1>3
  <2>2. Places[i] = PlacesAt(pattern, value, i, Places[i + 1])
    BY <1>6, <2>1
  <2> QED BY <1>3, <1>4, <2>1, <2>2 DEF PlacesAt
<1> QED BY <1>3, <1>4, <1>5, <1>7, <1>8, <1>9 DEF Places

\* The invariant, of the fields of the loop.
GlobHolds(places, pattern, value, p, v, star, starValue, result, rounds) ==
  /\ p \in 1 .. Len(pattern) + 1 /\ v \in 1 .. Len(value) + 1
  /\ star \in Nat /\ star < p /\ starValue \in 1 .. v
  /\ v = starValue + (p - (star + 1))
  /\ result \in {"none", "match", "mismatch"} /\ rounds \in Nat
  /\ rounds <= (starValue - 1) * (Len(pattern) + 1) + p - 1
  /\ \A k \in places[star + 1] : k >= starValue => k + (p - (star + 1)) \in places[p]
  /\ v \in places[p] => starValue \in places[star + 1]
  /\ IF star = 0 THEN starValue = 1
                 ELSE Means(pattern, value) <=> \E k \in places[star + 1] : k >= starValue
  /\ result # "none" => (result = "match") = Means(pattern, value)

Globs == [pattern : Patterns, value : Values, p : Nat, v : Nat, star : Nat,
          starValue : Nat, result : {"none", "match", "mismatch"}, rounds : Nat]

Of(g) == GlobHolds(Matching(g.pattern, g.value), g.pattern, g.value, g.p, g.v, g.star, g.starValue,
                   g.result, g.rounds)

\* h is g, at another point of the loop.
Turned(g, h, p, v, star, starValue, result, rounds) ==
  /\ h \in Globs /\ h.pattern = g.pattern /\ h.value = g.value /\ h.p = p /\ h.v = v /\ h.star = star
  /\ h.starValue = starValue /\ h.result = result /\ h.rounds = rounds

LEMMA TurnAhead ==
  ASSUME NEW g \in Globs, NEW h, NEW p \in Nat, NEW v \in Nat, NEW rounds \in Nat,
         h = [g EXCEPT !.p = p, !.v = v, !.rounds = rounds]
  PROVE  Turned(g, h, p, v, g.star, g.starValue, g.result, rounds)
BY DEF Globs, Turned

LEMMA TurnAtStar ==
  ASSUME NEW g \in Globs, NEW h, NEW p \in Nat, NEW star \in Nat, NEW starValue \in Nat,
         NEW rounds \in Nat,
         h = [g EXCEPT !.star = star, !.starValue = starValue, !.p = p, !.rounds = rounds]
  PROVE  Turned(g, h, p, g.v, star, starValue, g.result, rounds)
BY DEF Globs, Turned

LEMMA TurnBack ==
  ASSUME NEW g \in Globs, NEW h, NEW p \in Nat, NEW v \in Nat, NEW starValue \in Nat,
         NEW rounds \in Nat,
         h = [g EXCEPT !.p = p, !.starValue = starValue, !.v = v, !.rounds = rounds]
  PROVE  Turned(g, h, p, v, g.star, starValue, g.result, rounds)
BY DEF Globs, Turned

LEMMA TurnDone ==
  ASSUME NEW g \in Globs, NEW h, NEW result \in {"none", "match", "mismatch"},
         h = [g EXCEPT !.result = result]
  PROVE  Turned(g, h, g.p, g.v, g.star, g.starValue, result, g.rounds)
BY DEF Globs, Turned

LEMMA GlobInvFields == GlobInv <=> glob \in Globs /\ Of(glob)
<1>1. GlobInv => glob \in Globs /\ Of(glob)
  BY DEF GlobInv, Globs, Of, GlobHolds
<1>2. glob \in Globs /\ Of(glob) => GlobInv
  BY DEF GlobInv, Globs, Of, GlobHolds
<1> QED BY <1>1, <1>2

\* A step from inside the loop, to fields for which the invariant holds again.
LEMMA TurnKeeps ==
  ASSUME NEW p, NEW v, NEW star, NEW starValue, NEW result, NEW rounds,
         Turned(glob, glob', p, v, star, starValue, result, rounds),
         GlobHolds(Matching(glob.pattern, glob.value), glob.pattern, glob.value, p, v, star, starValue,
                   result, rounds)
  PROVE  GlobInv'
<1>1. glob' \in Globs /\ Of(glob')
  BY DEF Turned, Of
<1>2. glob' \in Globs /\ Of(glob') => GlobInv'
  BY DEF GlobInv, Globs, Of, GlobHolds
<1> QED BY <1>1, <1>2

LEMMA TimesMonotonic ==
  ASSUME NEW a \in Nat, NEW b \in Nat, NEW c \in Nat, a <= b
  PROVE  a * c \in Nat /\ b * c \in Nat /\ a * c <= b * c
<1>1. PICK d \in Nat : b = a + d
  <2>1. b - a \in Nat /\ b = a + (b - a)
    OBVIOUS
  <2> QED BY <2>1
<1>2. (a + d) * c = a * c + d * c /\ a * c \in Nat /\ d * c \in Nat
  OBVIOUS
<1> QED BY <1>1, <1>2

\* The rounds so far stay below what the last star's place and the mask's allow.
LEMMA RoundsAhead ==
  ASSUME NEW w \in Nat, NEW v \in Nat, 1 <= w, w <= v, NEW m \in Nat, NEW p \in Nat, NEW r \in Nat,
         r <= (w - 1) * (m + 1) + p - 1
  PROVE  r + 1 <= (v - 1) * (m + 1) + (p + 1) - 1
<1> DEFINE c == (w - 1) * (m + 1)
           d == (v - 1) * (m + 1)
<1>1. c \in Nat /\ d \in Nat /\ c <= d
  <2>1. w - 1 \in Nat /\ v - 1 \in Nat /\ m + 1 \in Nat /\ w - 1 <= v - 1
    OBVIOUS
  <2> QED BY <2>1, TimesMonotonic
<1>2. r <= c + p - 1
  OBVIOUS
<1> HIDE DEF c, d
<1>3. r + 1 <= d + (p + 1) - 1
  BY <1>1, <1>2
<1> QED BY <1>3 DEF d

LEMMA RoundsBack ==
  ASSUME NEW w \in Nat, 1 <= w, NEW m \in Nat, NEW p \in Nat, p <= m + 1, NEW s \in Nat, 1 <= s,
         NEW r \in Nat, r <= (w - 1) * (m + 1) + p - 1
  PROVE  r + 1 <= ((w + 1) - 1) * (m + 1) + (s + 1) - 1
<1> DEFINE c == (w - 1) * (m + 1)
           d == ((w + 1) - 1) * (m + 1)
<1>1. c \in Nat /\ d = c + (m + 1)
  <2>1. \A x, y \in Nat : x * y \in Nat /\ (x + 1) * y = x * y + y
    OBVIOUS
  <2>2. w - 1 \in Nat /\ m + 1 \in Nat /\ (w + 1) - 1 = (w - 1) + 1
    OBVIOUS
  <2> QED BY <2>1, <2>2
<1>2. r <= c + p - 1
  OBVIOUS
<1> HIDE DEF c, d
<1>3. r + 1 <= d + (s + 1) - 1
  BY <1>1, <1>2
<1> QED BY <1>3 DEF d

\* Right behind a star.
LEMMA HoldsAtStar ==
  ASSUME NEW places, NEW P, NEW V, NEW s \in Nat, 1 <= s, s + 1 \in 1 .. Len(P) + 1,
         NEW w \in Nat, w \in 1 .. Len(V) + 1, NEW r \in Nat,
         r <= (w - 1) * (Len(P) + 1) + (s + 1) - 1,
         \A k \in places[s + 1] : k \in Nat,
         Means(P, V) <=> \E k \in places[s + 1] : k >= w
  PROVE  GlobHolds(places, P, V, s + 1, w, s, w, "none", r)
<1>1. s < s + 1 /\ s # 0 /\ w \in 1..w /\ w = w + ((s + 1) - (s + 1))
  OBVIOUS
<1>2. \A k \in places[s + 1] : k >= w => k + ((s + 1) - (s + 1)) \in places[s + 1]
  <2> SUFFICES ASSUME NEW k \in places[s + 1] PROVE k + ((s + 1) - (s + 1)) = k
    OBVIOUS
  <2> QED OBVIOUS
<1> QED BY <1>1, <1>2 DEF GlobHolds

LEMMA GlobStarts == GlobInit => GlobInv
<1> SUFFICES ASSUME NEW pattern \in Patterns, NEW value \in Values, glob = Start(pattern, value)
             PROVE  GlobInv
  BY DEF GlobInit
<1>1. Len(pattern) \in Nat /\ Len(value) \in Nat
  BY PlaceFacts
<1>2. /\ glob.pattern = pattern /\ glob.value = value /\ glob.p = 1 /\ glob.v = 1
      /\ glob.star = 0 /\ glob.starValue = 1 /\ glob.result = "none" /\ glob.rounds = 0
      /\ glob \in Globs
  BY DEF Start, Globs
<1> DEFINE Places == Matching(pattern, value)
<1>3. Places[1] \subseteq 1 .. Len(value) + 1
  <2>1. 1 \in 1 .. Len(pattern) + 1
    BY <1>1
  <2> QED BY <2>1, PlaceFacts
<1> HIDE DEF Places
<1>4. \A k \in Places[1] : k \in Nat /\ k + 0 = k
  BY <1>1, <1>3
<1>5. GlobHolds(Places, pattern, value, 1, 1, 0, 1, "none", 0)
  BY <1>1, <1>4 DEF GlobHolds
<1> QED BY <1>2, <1>5, GlobInvFields DEF Of, Places

\* A character that matches.
LEMMA AdvanceKeeps == GlobInv /\ Advance => GlobInv'
<1> SUFFICES ASSUME GlobInv, Advance PROVE GlobInv'
  OBVIOUS
<1> DEFINE P == glob.pattern
           V == glob.value
           Places == Matching(P, V)
           p == glob.p
           v == glob.v
           s == glob.star
           w == glob.starValue
<1>1. glob \in Globs /\ GlobHolds(Places, P, V, p, v, s, w, glob.result, glob.rounds)
  BY GlobInvFields DEF Of
<1>2. P \in Patterns /\ V \in Values
  BY <1>1 DEF Globs
<1>3. /\ glob.result = "none" /\ v <= Len(V) /\ p <= Len(P) /\ P[p] \in {V[v], "?"}
      /\ glob' = [glob EXCEPT !.p = p + 1, !.v = v + 1, !.rounds = @ + 1]
  BY DEF Advance, More, Matched
<1>4. Turned(glob, glob', p + 1, v + 1, s, w, "none", glob.rounds + 1)
  <2>1. p + 1 \in Nat /\ v + 1 \in Nat /\ glob.rounds + 1 \in Nat
    BY <1>1 DEF Globs
  <2> QED BY <1>1, <1>3, <2>1, TurnAhead
<1>5. /\ Len(P) \in Nat /\ Len(V) \in Nat /\ \A j \in 1 .. Len(V) : V[j] # "*"
      /\ \A i \in 1 .. Len(P) + 1 : Places[i] \subseteq 1 .. Len(V) + 1
      /\ \A i \in 1 .. Len(P), j \in 1 .. Len(V) + 1 :
           j \in Places[i] <=> IF P[i] = "*" THEN \E k \in Places[i + 1] : j <= k
                              ELSE /\ j <= Len(V) /\ P[i] \in {V[j], "?"}
                                   /\ j + 1 \in Places[i + 1]
  BY <1>2, PlaceFacts
<1> HIDE DEF P, V, Places, p, v, s, w
<1>6. p \in 1 .. Len(P) /\ v \in 1 .. Len(V) /\ P[p] # "*" /\ s \in Nat /\ s < p /\ w \in 1..v
  <2>1. p \in 1 .. Len(P) + 1 /\ v \in 1 .. Len(V) + 1 /\ s \in Nat /\ s < p /\ w \in 1..v
    BY <1>1 DEF GlobHolds
  <2>2. p \in 1 .. Len(P) /\ v \in 1 .. Len(V)
    BY <1>3, <1>5, <2>1
  <2>3. P[p] # "*"
    BY <1>3, <1>5, <2>2
  <2> QED BY <2>1, <2>2, <2>3
<1>7. ASSUME NEW j \in Places[p]
      PROVE  j <= Len(V) /\ j \in 1 .. Len(V) + 1 /\ j + 1 \in Places[p + 1]
  <2>1. p \in 1 .. Len(P) + 1
    BY <1>5, <1>6
  <2>2. j \in 1 .. Len(V) + 1
    BY <1>5, <1>7, <2>1
  <2> QED BY <1>5, <1>6, <1>7, <2>2
<1>8. v \in Places[p] <=> v + 1 \in Places[p + 1]
  <2>1. v \in 1 .. Len(V) + 1
    BY <1>5, <1>6
  <2> QED BY <1>3, <1>5, <1>6, <2>1
<1>9. ASSUME NEW k \in Places[s + 1], k >= w PROVE k + (p + 1 - (s + 1)) \in Places[p + 1]
  <2>1. k + (p - (s + 1)) \in Places[p]
    BY <1>1, <1>9 DEF GlobHolds
  <2>2. k \in Nat
    <3>1. s + 1 \in 1 .. Len(P) + 1
      BY <1>5, <1>6
    <3>2. k \in 1 .. Len(V) + 1
      BY <1>5, <1>9, <3>1
    <3> QED BY <3>2
  <2>3. (k + (p - (s + 1))) + 1 = k + (p + 1 - (s + 1))
    BY <1>6, <2>2
  <2> QED BY <1>7, <2>1, <2>3
<1>10. GlobHolds(Places, P, V, p + 1, v + 1, s, w, "none", glob.rounds + 1)
  <2>1. /\ p + 1 \in 1 .. Len(P) + 1 /\ v + 1 \in 1 .. Len(V) + 1 /\ s < p + 1 /\ w \in 1 .. v + 1
        /\ v + 1 = w + (p + 1 - (s + 1))
    BY <1>1, <1>5, <1>6 DEF GlobHolds
  <2>2. /\ glob.rounds + 1 \in Nat
        /\ glob.rounds + 1 <= (w - 1) * (Len(P) + 1) + (p + 1) - 1
    <3>1. /\ glob.rounds \in Nat /\ glob.rounds <= (w - 1) * (Len(P) + 1) + p - 1
          /\ w \in Nat /\ 1 <= w /\ w <= w /\ p \in Nat
      BY <1>1, <1>6 DEF GlobHolds
    <3> QED BY <1>5, <3>1, RoundsAhead
  <2>3. v + 1 \in Places[p + 1] => w \in Places[s + 1]
    BY <1>1, <1>8 DEF GlobHolds
  <2>4. IF s = 0 THEN w = 1 ELSE Means(P, V) <=> \E k \in Places[s + 1] : k >= w
    BY <1>1 DEF GlobHolds
  <2> QED BY <1>6, <1>9, <2>1, <2>2, <2>3, <2>4 DEF GlobHolds
<1> QED BY <1>4, <1>10, TurnKeeps DEF P, V, Places

\* A star: it stands for the run of the last one, and for its own.
LEMMA TakeStarKeeps == GlobInv /\ TakeStar => GlobInv'
<1> SUFFICES ASSUME GlobInv, TakeStar PROVE GlobInv'
  OBVIOUS
<1> DEFINE P == glob.pattern
           V == glob.value
           Places == Matching(P, V)
           p == glob.p
           v == glob.v
           s == glob.star
           w == glob.starValue
<1>1. glob \in Globs /\ GlobHolds(Places, P, V, p, v, s, w, glob.result, glob.rounds)
  BY GlobInvFields DEF Of
<1>2. P \in Patterns /\ V \in Values
  BY <1>1 DEF Globs
<1>3. /\ glob.result = "none" /\ v <= Len(V) /\ p <= Len(P) /\ P[p] = "*"
      /\ glob' = [glob EXCEPT !.star = p, !.starValue = v, !.p = p + 1, !.rounds = @ + 1]
  BY DEF TakeStar, More, AtStar
<1>4. Turned(glob, glob', p + 1, v, p, v, "none", glob.rounds + 1)
  <2>1. p \in Nat /\ p + 1 \in Nat /\ v \in Nat /\ glob.rounds + 1 \in Nat
    BY <1>1 DEF Globs
  <2> QED BY <1>1, <1>3, <2>1, TurnAtStar
<1>5. /\ Len(P) \in Nat /\ Len(V) \in Nat
      /\ \A i \in 1 .. Len(P) + 1 : Places[i] \subseteq 1 .. Len(V) + 1
      /\ Places[Len(P) + 1] = {Len(V) + 1}
      /\ \A i \in 1 .. Len(P), j \in 1 .. Len(V) + 1 :
           j \in Places[i] <=> IF P[i] = "*" THEN \E k \in Places[i + 1] : j <= k
                              ELSE /\ j <= Len(V) /\ P[i] \in {V[j], "?"}
                                   /\ j + 1 \in Places[i + 1]
  BY <1>2, PlaceFacts
<1> HIDE DEF P, V, Places, p, v, s, w
<1>6. p \in 1 .. Len(P) /\ v \in 1 .. Len(V) /\ s \in Nat /\ s < p /\ w \in 1..v
  BY <1>1, <1>3, <1>5 DEF GlobHolds
<1>10. \A i \in {p, p + 1, s + 1} : \A k \in Places[i] : k \in Nat
  <2>1. {p, p + 1, s + 1} \subseteq 1 .. Len(P) + 1 /\ 1 .. Len(V) + 1 \subseteq Nat
    BY <1>5, <1>6
  <2> QED BY <1>5, <2>1
<1>7. v \in Places[p] <=> \E k \in Places[p + 1] : k >= v
  <2>1. v \in Places[p] <=> \E k \in Places[p + 1] : v <= k
    BY <1>3, <1>5, <1>6
  <2>2. \A k \in Places[p + 1] : k \in Nat /\ (k >= v <=> v <= k)
    BY <1>6, <1>10
  <2> QED BY <2>1, <2>2
<1>8. Means(P, V) <=> v \in Places[p]
  <2>1. CASE s = 0
    <3>1. w = 1 /\ s + 1 = 1 /\ v = 1 + (p - 1)
      BY <1>1, <2>1 DEF GlobHolds
    <3>2. 1 \in Places[1] => v \in Places[p]
      <4>1. 1 \in Places[1] => 1 + (p - 1) \in Places[p]
        BY <1>1, <3>1 DEF GlobHolds
      <4> QED BY <3>1, <4>1
    <3>3. v \in Places[p] => 1 \in Places[1]
      BY <1>1, <3>1 DEF GlobHolds
    <3>4. Means(P, V) <=> 1 \in Places[1]
      BY DEF Means, Places
    <3> QED BY <3>2, <3>3, <3>4
  <2>2. CASE s # 0
    <3>1. Means(P, V) <=> \E k \in Places[s + 1] : k >= w
      BY <1>1, <2>2 DEF GlobHolds
    <3>2. ASSUME NEW k \in Places[s + 1], k >= w PROVE v \in Places[p]
      <4>1. k + (p - (s + 1)) \in Places[p]
        BY <1>1, <3>2 DEF GlobHolds
      <4>2. k \in Nat /\ v = w + (p - (s + 1))
        BY <1>1, <1>10, <3>2 DEF GlobHolds
      <4>3. v <= k + (p - (s + 1))
        BY <1>6, <3>2, <4>2
      <4> DEFINE l == k + (p - (s + 1))
      <4>4. l \in 1 .. Len(V) + 1 /\ l \in Places[p] /\ v <= l
        <5>1. p \in 1 .. Len(P) + 1
          BY <1>5, <1>6
        <5> QED BY <1>5, <4>1, <4>3, <5>1
      <4> HIDE DEF l
      <4>5. PICK n \in Places[p + 1] : l <= n
        BY <1>3, <1>5, <1>6, <4>4
      <4>6. n \in Nat /\ n >= v
        BY <1>6, <1>10, <4>4, <4>5
      <4> QED BY <1>7, <4>5, <4>6
    <3>3. v \in Places[p] => w \in Places[s + 1]
      BY <1>1 DEF GlobHolds
    <3>4. w >= w
      BY <1>6
    <3> QED BY <3>1, <3>2, <3>3, <3>4
  <2> QED BY <2>1, <2>2
<1>9. GlobHolds(Places, P, V, p + 1, v, p, v, "none", glob.rounds + 1)
  <2>1. /\ glob.rounds \in Nat /\ glob.rounds <= (w - 1) * (Len(P) + 1) + p - 1
        /\ w \in Nat /\ 1 <= w /\ w <= v /\ v \in Nat /\ p \in Nat /\ 1 <= p
    <3>1. glob.rounds \in Nat /\ glob.rounds <= (w - 1) * (Len(P) + 1) + p - 1
      BY <1>1 DEF GlobHolds
    <3>2. w \in 1..v /\ v \in Nat /\ p \in Nat /\ 1 <= p
      <4>1. w \in 1..v /\ v \in 1 .. Len(V) + 1 /\ p \in 1 .. Len(P) + 1
        BY <1>1 DEF GlobHolds
      <4> QED BY <1>6, <4>1
    <3> QED BY <3>1, <3>2
  <2>2. glob.rounds + 1 <= (v - 1) * (Len(P) + 1) + (p + 1) - 1
    BY <1>5, <2>1, RoundsAhead
  <2>3. p + 1 \in 1 .. Len(P) + 1 /\ v \in 1 .. Len(V) + 1 /\ glob.rounds + 1 \in Nat
    <3>1. p \in 1 .. Len(P) /\ v \in 1 .. Len(V) /\ Len(P) \in Nat /\ Len(V) \in Nat
      BY <1>5, <1>6
    <3>2. p + 1 \in 1 .. Len(P) + 1 /\ v \in 1 .. Len(V) + 1
      BY <3>1
    <3>3. glob.rounds + 1 \in Nat
      BY <2>1
    <3> QED BY <3>2, <3>3
  <2>4. Means(P, V) <=> \E k \in Places[p + 1] : k >= v
    BY <1>7, <1>8
  <2> QED BY <1>10, <2>1, <2>2, <2>3, <2>4, HoldsAtStar
<1> QED BY <1>4, <1>9, TurnKeeps DEF P, V, Places

\* Back to the last star, whose run was too short.
LEMMA BackTrackKeeps == GlobInv /\ BackTrack => GlobInv'
<1> SUFFICES ASSUME GlobInv, BackTrack PROVE GlobInv'
  OBVIOUS
<1> DEFINE P == glob.pattern
           V == glob.value
           Places == Matching(P, V)
           p == glob.p
           v == glob.v
           s == glob.star
           w == glob.starValue
<1>1. glob \in Globs /\ GlobHolds(Places, P, V, p, v, s, w, glob.result, glob.rounds)
  BY GlobInvFields DEF Of
<1>2. P \in Patterns /\ V \in Values
  BY <1>1 DEF Globs
<1>3. /\ glob.result = "none" /\ v <= Len(V) /\ s > 0
      /\ p <= Len(P) => P[p] # "*" /\ P[p] \notin {V[v], "?"}
      /\ glob' = [glob EXCEPT !.p = s + 1, !.starValue = w + 1, !.v = w + 1, !.rounds = @ + 1]
  BY DEF BackTrack, More, Matched, AtStar, Back
<1>4. Turned(glob, glob', s + 1, w + 1, s, w + 1, "none", glob.rounds + 1)
  <2>1. s + 1 \in Nat /\ w + 1 \in Nat /\ glob.rounds + 1 \in Nat
    BY <1>1 DEF Globs
  <2> QED BY <1>1, <1>3, <2>1, TurnBack
<1>5. /\ Len(P) \in Nat /\ Len(V) \in Nat
      /\ \A i \in 1 .. Len(P) + 1 : Places[i] \subseteq 1 .. Len(V) + 1
      /\ Places[Len(P) + 1] = {Len(V) + 1}
      /\ \A i \in 1 .. Len(P), j \in 1 .. Len(V) + 1 :
           j \in Places[i] <=> IF P[i] = "*" THEN \E k \in Places[i + 1] : j <= k
                              ELSE /\ j <= Len(V) /\ P[i] \in {V[j], "?"}
                                   /\ j + 1 \in Places[i + 1]
  BY <1>2, PlaceFacts
<1> HIDE DEF P, V, Places, p, v, s, w
<1>6. /\ p \in 1 .. Len(P) + 1 /\ v \in 1 .. Len(V) + 1 /\ s \in Nat /\ s < p /\ w \in 1..v
      /\ v = w + (p - (s + 1)) /\ Len(P) \in Nat /\ Len(V) \in Nat
  BY <1>1, <1>5 DEF GlobHolds
<1>7. \A i \in {p, s + 1} : \A k \in Places[i] : k \in Nat /\ k <= Len(V) + 1
  <2>1. {p, s + 1} \subseteq 1 .. Len(P) + 1
    BY <1>6
  <2>2. \A k \in 1 .. Len(V) + 1 : k \in Nat /\ k <= Len(V) + 1
    BY <1>6
  <2> QED BY <1>5, <2>1, <2>2
<1>8. v \notin Places[p]
  <2>1. CASE p <= Len(P)
    <3>1. p \in 1 .. Len(P) /\ P[p] # "*" /\ P[p] \notin {V[v], "?"}
      BY <1>3, <1>6, <2>1
    <3> QED BY <1>5, <1>6, <3>1
  <2>2. CASE ~(p <= Len(P))
    <3>1. p = Len(P) + 1 /\ v # Len(V) + 1
      BY <1>3, <1>6, <2>2
    <3> QED BY <1>5, <3>1
  <2> QED BY <2>1, <2>2
<1>9. w \notin Places[s + 1]
  <2>1. w \in Places[s + 1] /\ w >= w => w + (p - (s + 1)) \in Places[p]
    BY <1>1 DEF GlobHolds
  <2>2. w >= w
    BY <1>6
  <2> QED BY <1>6, <1>8, <2>1, <2>2
<1>10. Means(P, V) <=> \E k \in Places[s + 1] : k >= w + 1
  <2>1. Means(P, V) <=> \E k \in Places[s + 1] : k >= w
    BY <1>1, <1>3, <1>6 DEF GlobHolds
  <2>2. \A k \in Places[s + 1] : k >= w <=> k >= w + 1
    BY <1>6, <1>7, <1>9
  <2> QED BY <2>1, <2>2
<1>11. GlobHolds(Places, P, V, s + 1, w + 1, s, w + 1, "none", glob.rounds + 1)
  <2>1. /\ glob.rounds \in Nat /\ glob.rounds <= (w - 1) * (Len(P) + 1) + p - 1
        /\ w \in Nat /\ 1 <= w /\ p \in Nat /\ p <= Len(P) + 1 /\ 1 <= s
    BY <1>1, <1>3, <1>6 DEF GlobHolds
  <2>2. glob.rounds + 1 <= ((w + 1) - 1) * (Len(P) + 1) + (s + 1) - 1
    BY <1>6, <2>1, RoundsBack
  <2>3. /\ s + 1 \in 1 .. Len(P) + 1 /\ w + 1 \in 1 .. Len(V) + 1 /\ w + 1 \in Nat
        /\ glob.rounds + 1 \in Nat
    <3>1. s + 1 \in 1 .. Len(P) + 1
      BY <1>6
    <3>2. w + 1 \in 1 .. Len(V) + 1 /\ w + 1 \in Nat
      <4>1. v \in Nat /\ v <= Len(V) /\ w \in 1..v /\ Len(V) \in Nat
        BY <1>3, <1>6
      <4> QED BY <4>1
    <3>3. glob.rounds + 1 \in Nat
      BY <2>1
    <3> QED BY <3>1, <3>2, <3>3
  <2>4. \A k \in Places[s + 1] : k \in Nat
    BY <1>7
  <2> QED BY <1>6, <1>10, <2>1, <2>2, <2>3, <2>4, HoldsAtStar
<1> QED BY <1>4, <1>11, TurnKeeps DEF P, V, Places

\* Without a star there is nothing to return to.
LEMMA MismatchKeeps == GlobInv /\ Mismatch => GlobInv'
<1> SUFFICES ASSUME GlobInv, Mismatch PROVE GlobInv'
  OBVIOUS
<1> DEFINE P == glob.pattern
           V == glob.value
           Places == Matching(P, V)
           p == glob.p
           v == glob.v
           s == glob.star
           w == glob.starValue
<1>1. glob \in Globs /\ GlobHolds(Places, P, V, p, v, s, w, glob.result, glob.rounds)
  BY GlobInvFields DEF Of
<1>2. P \in Patterns /\ V \in Values
  BY <1>1 DEF Globs
<1>3. /\ glob.result = "none" /\ v <= Len(V) /\ s = 0
      /\ p <= Len(P) => P[p] # "*" /\ P[p] \notin {V[v], "?"}
      /\ glob' = [glob EXCEPT !.result = "mismatch"]
  BY DEF Mismatch, More, Matched, AtStar
<1>4. Turned(glob, glob', p, v, s, w, "mismatch", glob.rounds)
  BY <1>1, <1>3, TurnDone
<1>5. /\ Len(P) \in Nat /\ Len(V) \in Nat
      /\ \A i \in 1 .. Len(P) + 1 : Places[i] \subseteq 1 .. Len(V) + 1
      /\ Places[Len(P) + 1] = {Len(V) + 1}
      /\ \A i \in 1 .. Len(P), j \in 1 .. Len(V) + 1 :
           j \in Places[i] <=> IF P[i] = "*" THEN \E k \in Places[i + 1] : j <= k
                              ELSE /\ j <= Len(V) /\ P[i] \in {V[j], "?"}
                                   /\ j + 1 \in Places[i + 1]
  BY <1>2, PlaceFacts
<1> HIDE DEF P, V, Places, p, v, s, w
<1>6. /\ p \in 1 .. Len(P) + 1 /\ v \in 1 .. Len(V) + 1 /\ s \in Nat /\ s < p /\ w \in 1..v
      /\ v = w + (p - (s + 1)) /\ Len(P) \in Nat /\ Len(V) \in Nat
  BY <1>1, <1>5 DEF GlobHolds
<1>7. \A i \in {p, s + 1} : \A k \in Places[i] : k \in Nat /\ k <= Len(V) + 1
  <2>1. {p, s + 1} \subseteq 1 .. Len(P) + 1
    BY <1>6
  <2>2. \A k \in 1 .. Len(V) + 1 : k \in Nat /\ k <= Len(V) + 1
    BY <1>6
  <2> QED BY <1>5, <2>1, <2>2
<1>8. v \notin Places[p]
  <2>1. CASE p <= Len(P)
    <3>1. p \in 1 .. Len(P) /\ P[p] # "*" /\ P[p] \notin {V[v], "?"}
      BY <1>3, <1>6, <2>1
    <3> QED BY <1>5, <1>6, <3>1
  <2>2. CASE ~(p <= Len(P))
    <3>1. p = Len(P) + 1 /\ v # Len(V) + 1
      BY <1>3, <1>6, <2>2
    <3> QED BY <1>5, <3>1
  <2> QED BY <2>1, <2>2
<1>9. ~Means(P, V)
  <2>1. w = 1 /\ s + 1 = 1 /\ v = 1 + (p - 1)
    BY <1>1, <1>3, <1>6 DEF GlobHolds
  <2>2. 1 \in Places[1] => 1 + (p - 1) \in Places[p]
    BY <1>1, <2>1 DEF GlobHolds
  <2>3. 1 \notin Places[1]
    BY <1>8, <2>1, <2>2
  <2> QED BY <2>3 DEF Means, Places
<1>10. ("mismatch" = "match") = Means(P, V)
  BY <1>9 DEF Means
<1>11. GlobHolds(Places, P, V, p, v, s, w, "mismatch", glob.rounds)
  BY <1>1, <1>10 DEF GlobHolds
<1> QED BY <1>4, <1>11, TurnKeeps DEF P, V, Places

\* At the end of the value a rest of the mask that is all stars matches.
LEMMA FinishKeeps == GlobInv /\ Finish => GlobInv'
<1> SUFFICES ASSUME GlobInv, Finish PROVE GlobInv'
  OBVIOUS
<1> DEFINE P == glob.pattern
           V == glob.value
           Places == Matching(P, V)
           p == glob.p
           v == glob.v
           s == glob.star
           w == glob.starValue
<1>1. glob \in Globs /\ GlobHolds(Places, P, V, p, v, s, w, glob.result, glob.rounds)
  BY GlobInvFields DEF Of
<1>2. P \in Patterns /\ V \in Values
  BY <1>1 DEF Globs
<1> DEFINE stars == \A i \in p .. Len(P) : P[i] = "*"
           result == IF stars THEN "match" ELSE "mismatch"
<1>3. glob.result = "none" /\ v > Len(V) /\ glob' = [glob EXCEPT !.result = result]
  BY DEF Finish
<1>4. Turned(glob, glob', p, v, s, w, result, glob.rounds)
  <2>1. result \in {"none", "match", "mismatch"}
    OBVIOUS
  <2> HIDE DEF result
  <2> QED BY <1>1, <1>3, <2>1, TurnDone
<1>5. /\ Len(P) \in Nat /\ Len(V) \in Nat
      /\ \A i \in 1 .. Len(P) + 1 : Places[i] \subseteq 1 .. Len(V) + 1
      /\ Places[Len(P) + 1] = {Len(V) + 1}
      /\ \A i \in 1 .. Len(P), j \in 1 .. Len(V) + 1 :
           j \in Places[i] <=> IF P[i] = "*" THEN \E k \in Places[i + 1] : j <= k
                              ELSE /\ j <= Len(V) /\ P[i] \in {V[j], "?"}
                                   /\ j + 1 \in Places[i + 1]
  BY <1>2, PlaceFacts
<1> HIDE DEF P, V, Places, p, v, s, w, stars
<1>6. /\ p \in 1 .. Len(P) + 1 /\ v \in 1 .. Len(V) + 1 /\ s \in Nat /\ s < p /\ w \in 1..v
      /\ v = w + (p - (s + 1)) /\ Len(P) \in Nat /\ Len(V) \in Nat
  BY <1>1, <1>5 DEF GlobHolds
<1>7. \A i \in {p, s + 1} : \A k \in Places[i] : k \in Nat /\ k <= Len(V) + 1
  <2>1. {p, s + 1} \subseteq 1 .. Len(P) + 1
    BY <1>6
  <2>2. \A k \in 1 .. Len(V) + 1 : k \in Nat /\ k <= Len(V) + 1
    BY <1>6
  <2> QED BY <1>5, <2>1, <2>2
<1>8. v = Len(V) + 1 /\ (v \in Places[p] <=> stars)
  <2>1. v = Len(V) + 1
    BY <1>3, <1>6
  <2>2. Len(V) + 1 \in Places[p] <=> stars
    BY <1>6, EndPlaces DEF Places, stars
  <2> QED BY <2>1, <2>2
<1>9. Means(P, V) <=> v \in Places[p]
  <2>1. CASE s = 0
    <3>1. w = 1 /\ s + 1 = 1 /\ v = 1 + (p - 1)
      BY <1>1, <1>6, <2>1 DEF GlobHolds
    <3>2. 1 \in Places[1] => 1 + (p - 1) \in Places[p]
      BY <1>1, <3>1 DEF GlobHolds
    <3>3. v \in Places[p] => 1 \in Places[1]
      BY <1>1, <3>1 DEF GlobHolds
    <3>4. Means(P, V) <=> 1 \in Places[1]
      BY DEF Means, Places
    <3> QED BY <3>1, <3>2, <3>3, <3>4
  <2>2. CASE s # 0
    <3>1. Means(P, V) <=> \E k \in Places[s + 1] : k >= w
      BY <1>1, <2>2 DEF GlobHolds
    <3>2. ASSUME NEW k \in Places[s + 1], k >= w PROVE v \in Places[p]
      <4>1. k + (p - (s + 1)) \in Places[p]
        BY <1>1, <3>2 DEF GlobHolds
      <4>2. k \in Nat /\ k + (p - (s + 1)) <= Len(V) + 1
        BY <1>7, <4>1
      <4>3. k + (p - (s + 1)) = v
        BY <1>6, <1>8, <3>2, <4>2
      <4> QED BY <4>1, <4>3
    <3>3. v \in Places[p] => w \in Places[s + 1]
      BY <1>1 DEF GlobHolds
    <3>4. w >= w
      BY <1>6
    <3> QED BY <3>1, <3>2, <3>3, <3>4
  <2> QED BY <2>1, <2>2
<1>10. result \in {"match", "mismatch"} /\ (result = "match") = Means(P, V)
  BY <1>8, <1>9 DEF Means
<1> HIDE DEF result
<1>11. GlobHolds(Places, P, V, p, v, s, w, result, glob.rounds)
  BY <1>1, <1>10 DEF GlobHolds
<1> QED BY <1>4, <1>11, TurnKeeps DEF P, V, Places

\* What is compared up to the last star never has to be compared otherwise: in every round, for
\* all masks and values without wildcards, of any length.
THEOREM GlobInductive == GlobSpec => []GlobInv
<1>1. GlobInv /\ [GlobNext]_glob => GlobInv'
  <2> SUFFICES ASSUME GlobInv, [GlobNext]_glob PROVE GlobInv'
    OBVIOUS
  <2>1. CASE UNCHANGED glob
    BY <2>1 DEF GlobInv
  <2> QED BY <2>1, AdvanceKeeps, TakeStarKeeps, BackTrackKeeps, MismatchKeeps, FinishKeeps DEF GlobNext
<1> QED BY <1>1, GlobStarts, PTL DEF GlobSpec

\* Returning to the last star only decides every mask, and takes at most length times length rounds.
THEOREM GlobDecidesHolds == GlobSpec => []GlobDecides
<1>1. GlobInv => GlobDecides
  <2> SUFFICES ASSUME GlobInv PROVE GlobDecides
    OBVIOUS
  <2> DEFINE P == glob.pattern
             V == glob.value
             p == glob.p
             w == glob.starValue
  <2>1. glob \in Globs /\ Of(glob)
    BY GlobInvFields
  <2>2. P \in Patterns /\ V \in Values
    BY <2>1 DEF Globs
  <2>3. Len(P) \in Nat /\ Len(V) \in Nat
    BY <2>2, PlaceFacts
  <2>4. /\ p \in 1 .. Len(P) + 1 /\ glob.v \in 1 .. Len(V) + 1 /\ w \in 1 .. glob.v
        /\ glob.rounds \in Nat /\ glob.rounds <= (w - 1) * (Len(P) + 1) + p - 1
        /\ glob.result # "none" => (glob.result = "match") = Means(P, V)
    BY <2>1 DEF Of, GlobHolds
  <2> HIDE DEF P, V, p, w
  <2>5. glob.rounds <= (Len(P) + 1) * (Len(V) + 1)
    <3> DEFINE c == (w - 1) * (Len(P) + 1)
               d == Len(V) * (Len(P) + 1)
    <3>1. c \in Nat /\ d \in Nat /\ c <= d
      <4>1. w - 1 \in Nat /\ Len(P) + 1 \in Nat /\ w - 1 <= Len(V)
        BY <2>3, <2>4
      <4> QED BY <2>3, <4>1, TimesMonotonic
    <3>2. (Len(P) + 1) * (Len(V) + 1) = d + (Len(P) + 1)
      BY <2>3
    <3> HIDE DEF c, d
    <3>3. glob.rounds <= c + p - 1
      BY <2>4 DEF c
    <3> QED BY <2>3, <2>4, <3>1, <3>2, <3>3
  <2> QED BY <2>4, <2>5 DEF GlobDecides, P, V
<1> QED BY <1>1, GlobInductive, PTL

-----------------------------------------------------------------------------
(* ModeLines *)

\* Induction along a segment, for a set of numbers.
LEMMA Upward ==
  ASSUME NEW n \in Nat, NEW S, 0 \in S, \A i \in 1..n : i - 1 \in S => i \in S
  PROVE  \A i \in 0..n : i \in S
<1> DEFINE Bad == {i \in Nat : i <= n /\ i \notin S}
<1>1. SUFFICES ASSUME Bad # {} PROVE FALSE
  OBVIOUS
<1>2. PICK i \in Bad : \A j \in Bad : i <= j
  <2>1. Bad \in SUBSET Nat
    OBVIOUS
  <2> HIDE DEF Bad
  <2> QED BY <1>1, <2>1, LeastNatural
<1>3. i \in 1..n /\ i \notin S
  BY <1>2
<1>4. i - 1 \in Nat /\ i - 1 <= n /\ ~(i <= i - 1)
  BY <1>3
<1>5. i - 1 \in S
  BY <1>2, <1>4
<1> QED BY <1>3, <1>5

\* One argument more, or none.
NextArgs(changes, key, i, before) ==
  IF ShownArg(changes[i], key) = NoArg THEN before ELSE Append(before, ShownArg(changes[i], key))

ArgsTo(changes, key, n, f) ==
  f = [i \in 0..n |->
        IF i = 0 THEN <<>>
        ELSE IF ShownArg(changes[i], key) = NoArg THEN f[i - 1]
        ELSE Append(f[i - 1], ShownArg(changes[i], key))]

LEMMA ShownByStep ==
  ASSUME NEW changes, NEW key, Len(changes) \in Nat
  PROVE  \E h : /\ Shown(changes, key) = h[Len(changes)] /\ h[0] = <<>>
                /\ \A i \in 1 .. Len(changes) : h[i] = NextArgs(changes, key, i, h[i - 1])
<1> DEFINE n == Len(changes)
           S == {k \in 0..n : \E f : ArgsTo(changes, key, k, f)}
<1>1. \A k \in 0..n : k \in S
  <2>1. 0 \in S
    <3>1. ArgsTo(changes, key, 0, [i \in 0..0 |-> <<>>])
      BY DEF ArgsTo
    <3> QED BY <3>1
  <2>2. ASSUME NEW k \in 1..n, k - 1 \in S PROVE k \in S
    <3>1. PICK f : ArgsTo(changes, key, k - 1, f)
      BY <2>2
    <3> DEFINE g == [i \in 0..k |-> IF i = k THEN NextArgs(changes, key, k, f[k - 1]) ELSE f[i]]
    <3>2. \A i \in 0 .. k - 1 : f[i] = IF i = 0 THEN <<>> ELSE NextArgs(changes, key, i, f[i - 1])
      BY <3>1 DEF ArgsTo, NextArgs
    <3>3. ASSUME NEW i \in 0..k
          PROVE  g[i] = IF i = 0 THEN <<>> ELSE NextArgs(changes, key, i, g[i - 1])
      <4>1. CASE i = k
        <5>1. i # 0 /\ k - 1 \in 0..k /\ k - 1 # k
          BY <4>1
        <5> QED BY <4>1, <5>1
      <4>2. CASE i # k
        <5>1. i \in 0 .. k - 1 /\ (i # 0 => i - 1 \in 0..k /\ i - 1 # k)
          BY <4>2
        <5> QED BY <3>2, <4>2, <5>1
      <4> QED BY <4>1, <4>2
    <3>4. ArgsTo(changes, key, k, g)
      <4>1. g = [i \in 0..k |-> g[i]]
        OBVIOUS
      <4> HIDE DEF g
      <4> QED BY <3>3, <4>1 DEF ArgsTo, NextArgs
    <3> HIDE DEF g
    <3>5. k \in 0..n
      OBVIOUS
    <3> QED BY <3>4, <3>5
  <2> HIDE DEF S
  <2> QED BY <2>1, <2>2, Upward
<1> DEFINE h == CHOOSE F : ArgsTo(changes, key, n, F)
<1>2. ArgsTo(changes, key, n, h)
  <2>1. n \in 0..n
    OBVIOUS
  <2>2. \E F : ArgsTo(changes, key, n, F)
    BY <1>1, <2>1
  <2> QED BY <2>2
<1>3. Shown(changes, key) = h[n]
  BY DEF Shown, ArgsTo
<1> HIDE DEF h
<1>4. h[0] = <<>> /\ \A i \in 1..n : h[i] = NextArgs(changes, key, i, h[i - 1])
  <2>1. 0 \in 0..n /\ \A i \in 1..n : i \in 0..n /\ i # 0
    OBVIOUS
  <2>2. \A i \in 0..n : h[i] = IF i = 0 THEN <<>> ELSE NextArgs(changes, key, i, h[i - 1])
    BY <1>2 DEF ArgsTo, NextArgs
  <2> QED BY <2>1, <2>2
<1> QED BY <1>3, <1>4

\* The views after each change.
ViewsTo(v, changes, n, f) ==
  f = [i \in 0..n |-> IF i = 0 THEN v ELSE Applied(f[i - 1], changes[i])]

LEMMA AppliedByStep ==
  ASSUME NEW v, NEW changes, Len(changes) \in Nat
  PROVE  \E h : /\ AppliedInTurn(v, changes) = h[Len(changes)] /\ h[0] = v
                /\ \A i \in 1 .. Len(changes) : h[i] = Applied(h[i - 1], changes[i])
<1> DEFINE n == Len(changes)
           S == {k \in 0..n : \E f : ViewsTo(v, changes, k, f)}
<1>1. \A k \in 0..n : k \in S
  <2>1. 0 \in S
    <3>1. ViewsTo(v, changes, 0, [i \in 0..0 |-> v])
      BY DEF ViewsTo
    <3> QED BY <3>1
  <2>2. ASSUME NEW k \in 1..n, k - 1 \in S PROVE k \in S
    <3>1. PICK f : ViewsTo(v, changes, k - 1, f)
      BY <2>2
    <3> DEFINE g == [i \in 0..k |-> IF i = k THEN Applied(f[k - 1], changes[k]) ELSE f[i]]
    <3>2. \A i \in 0 .. k - 1 : f[i] = IF i = 0 THEN v ELSE Applied(f[i - 1], changes[i])
      BY <3>1 DEF ViewsTo
    <3>3. ASSUME NEW i \in 0..k
          PROVE  g[i] = IF i = 0 THEN v ELSE Applied(g[i - 1], changes[i])
      <4>1. CASE i = k
        <5>1. i # 0 /\ k - 1 \in 0..k /\ k - 1 # k
          BY <4>1
        <5> QED BY <4>1, <5>1
      <4>2. CASE i # k
        <5>1. i \in 0 .. k - 1 /\ (i # 0 => i - 1 \in 0..k /\ i - 1 # k)
          BY <4>2
        <5> QED BY <3>2, <4>2, <5>1
      <4> QED BY <4>1, <4>2
    <3>4. ViewsTo(v, changes, k, g)
      <4>1. g = [i \in 0..k |-> g[i]]
        OBVIOUS
      <4> HIDE DEF g
      <4> QED BY <3>3, <4>1 DEF ViewsTo
    <3> HIDE DEF g
    <3>5. k \in 0..n
      OBVIOUS
    <3> QED BY <3>4, <3>5
  <2> HIDE DEF S
  <2> QED BY <2>1, <2>2, Upward
<1> DEFINE h == CHOOSE F : ViewsTo(v, changes, n, F)
<1>2. ViewsTo(v, changes, n, h)
  <2>1. n \in 0..n
    OBVIOUS
  <2>2. \E F : ViewsTo(v, changes, n, F)
    BY <1>1, <2>1
  <2> QED BY <2>2
<1>3. AppliedInTurn(v, changes) = h[n]
  BY DEF AppliedInTurn, ViewsTo
<1> HIDE DEF h
<1>4. h[0] = v /\ \A i \in 1..n : h[i] = Applied(h[i - 1], changes[i])
  <2>1. 0 \in 0..n /\ \A i \in 1..n : i \in 0..n /\ i # 0
    OBVIOUS
  <2>2. \A i \in 0..n : h[i] = IF i = 0 THEN v ELSE Applied(h[i - 1], changes[i])
    BY <1>2 DEF ViewsTo
  <2> QED BY <2>1, <2>2
<1> QED BY <1>3, <1>4

\* The channel after each change.
RoomsTo(start, changes, n, f) ==
  f = [i \in 0..n |-> IF i = 0 THEN start ELSE Made(f[i - 1], changes[i])]

LEMMA AlongByStep ==
  ASSUME NEW start, NEW changes, Len(changes) \in Nat
  PROVE  /\ Along(start, changes)[0] = start
         /\ \A i \in 1 .. Len(changes) :
              Along(start, changes)[i] = Made(Along(start, changes)[i - 1], changes[i])
<1> DEFINE n == Len(changes)
           S == {k \in 0..n : \E f : RoomsTo(start, changes, k, f)}
<1>1. \A k \in 0..n : k \in S
  <2>1. 0 \in S
    <3>1. RoomsTo(start, changes, 0, [i \in 0..0 |-> start])
      BY DEF RoomsTo
    <3> QED BY <3>1
  <2>2. ASSUME NEW k \in 1..n, k - 1 \in S PROVE k \in S
    <3>1. PICK f : RoomsTo(start, changes, k - 1, f)
      BY <2>2
    <3> DEFINE g == [i \in 0..k |-> IF i = k THEN Made(f[k - 1], changes[k]) ELSE f[i]]
    <3>2. \A i \in 0 .. k - 1 : f[i] = IF i = 0 THEN start ELSE Made(f[i - 1], changes[i])
      BY <3>1 DEF RoomsTo
    <3>3. ASSUME NEW i \in 0..k
          PROVE  g[i] = IF i = 0 THEN start ELSE Made(g[i - 1], changes[i])
      <4>1. CASE i = k
        <5>1. i # 0 /\ k - 1 \in 0..k /\ k - 1 # k
          BY <4>1
        <5> QED BY <4>1, <5>1
      <4>2. CASE i # k
        <5>1. i \in 0 .. k - 1 /\ (i # 0 => i - 1 \in 0..k /\ i - 1 # k)
          BY <4>2
        <5> QED BY <3>2, <4>2, <5>1
      <4> QED BY <4>1, <4>2
    <3>4. RoomsTo(start, changes, k, g)
      <4>1. g = [i \in 0..k |-> g[i]]
        OBVIOUS
      <4> HIDE DEF g
      <4> QED BY <3>3, <4>1 DEF RoomsTo
    <3> HIDE DEF g
    <3>5. k \in 0..n
      OBVIOUS
    <3> QED BY <3>4, <3>5
  <2> HIDE DEF S
  <2> QED BY <2>1, <2>2, Upward
<1> DEFINE h == CHOOSE F : RoomsTo(start, changes, n, F)
<1>2. RoomsTo(start, changes, n, h)
  <2>1. n \in 0..n
    OBVIOUS
  <2>2. \E F : RoomsTo(start, changes, n, F)
    BY <1>1, <2>1
  <2> QED BY <2>2
<1>3. Along(start, changes) = h
  BY DEF Along, RoomsTo
<1> HIDE DEF h
<1>4. h[0] = start /\ \A i \in 1..n : h[i] = Made(h[i - 1], changes[i])
  <2>1. 0 \in 0..n /\ \A i \in 1..n : i \in 0..n /\ i # 0
    OBVIOUS
  <2>2. \A i \in 0..n : h[i] = IF i = 0 THEN start ELSE Made(h[i - 1], changes[i])
    BY <1>2 DEF RoomsTo
  <2> QED BY <2>1, <2>2
<1> QED BY <1>3, <1>4

\* A change behind the others.
LEMMA AlongAppend ==
  ASSUME NEW S, NEW q \in Seq(S), NEW c \in S, NEW start
  PROVE  /\ \A i \in 0 .. Len(q) : Along(start, Append(q, c))[i] = Along(start, q)[i]
         /\ Along(start, Append(q, c))[Len(q) + 1] = Made(Along(start, q)[Len(q)], c)
<1> DEFINE n == Len(q)
           p == Append(q, c)
           f == Along(start, q)
           g == Along(start, p)
           Same == {i \in 0..n : g[i] = f[i]}
<1>1. /\ n \in Nat /\ Len(p) = n + 1 /\ p[n + 1] = c
      /\ \A i \in 1..n : p[i] = q[i] /\ i \in 1 .. Len(p)
  OBVIOUS
<1>2. f[0] = start /\ \A i \in 1..n : f[i] = Made(f[i - 1], q[i])
  BY <1>1, AlongByStep
<1> HIDE DEF p
<1>3. g[0] = start /\ \A i \in 1 .. n + 1 : g[i] = Made(g[i - 1], p[i])
  BY <1>1, AlongByStep
<1> HIDE DEF f, g, n
<1>4. \A i \in 0..n : i \in Same
  <2>1. 0 \in Same
    BY <1>1, <1>2, <1>3
  <2>2. ASSUME NEW i \in 1..n, i - 1 \in Same PROVE i \in Same
    <3>1. i \in 1 .. n + 1 /\ i \in 0..n /\ p[i] = q[i] /\ g[i - 1] = f[i - 1]
      BY <1>1, <2>2
    <3> QED BY <1>2, <1>3, <3>1
  <2> HIDE DEF Same
  <2> QED BY <1>1, <2>1, <2>2, Upward
<1>5. n \in 0..n /\ n + 1 \in 1 .. n + 1 /\ (n + 1) - 1 = n
  BY <1>1
<1>6. g[n + 1] = Made(f[n], c)
  BY <1>1, <1>3, <1>4, <1>5
<1> QED BY <1>4, <1>6 DEF f, g, p, n

\* The changes whose argument is shown, and those among the first i.
Shows(changes, key) == {j \in 1 .. Len(changes) : ShownArg(changes[j], key) # NoArg}
ShowsTo(changes, key, i) == {j \in Shows(changes, key) : j <= i}

LEMMA ShowsFacts ==
  ASSUME NEW changes, NEW key, Len(changes) \in Nat
  PROVE  /\ \A i \in Nat : /\ IsFiniteSet(ShowsTo(changes, key, i))
                          /\ Cardinality(ShowsTo(changes, key, i)) \in Nat
         /\ Cardinality(ShowsTo(changes, key, 0)) = 0
         /\ \A i \in 1 .. Len(changes) :
              Cardinality(ShowsTo(changes, key, i)) =
                IF ShownArg(changes[i], key) = NoArg
                  THEN Cardinality(ShowsTo(changes, key, i - 1))
                  ELSE Cardinality(ShowsTo(changes, key, i - 1)) + 1
         /\ ShowsTo(changes, key, Len(changes)) = Shows(changes, key)
<1> DEFINE n == Len(changes)
           C(i) == ShowsTo(changes, key, i)
<1>1. ASSUME NEW i \in Nat PROVE IsFiniteSet(C(i)) /\ Cardinality(C(i)) \in Nat
  <2>1. C(i) \subseteq 1..i
    BY DEF ShowsTo, Shows
  <2>2. IsFiniteSet(1..i)
    BY FS_Interval
  <2> QED BY <2>1, <2>2, FS_Subset, FS_CardinalityType
<1>2. Cardinality(C(0)) = 0
  <2>1. C(0) = {}
    BY DEF ShowsTo, Shows
  <2> QED BY <2>1, FS_EmptySet
<1>3. ASSUME NEW i \in 1..n
      PROVE  Cardinality(C(i)) = IF ShownArg(changes[i], key) = NoArg
                                   THEN Cardinality(C(i - 1)) ELSE Cardinality(C(i - 1)) + 1
  <2>1. i - 1 \in Nat /\ i \in Nat
    OBVIOUS
  <2>2. CASE ShownArg(changes[i], key) = NoArg
    <3>1. C(i) = C(i - 1)
      <4>1. \A j \in 1..n : j <= i <=> j <= i - 1 \/ j = i
        BY <2>1
      <4> QED BY <2>2, <4>1 DEF ShowsTo, Shows
    <3> QED BY <2>2, <3>1
  <2>3. CASE ShownArg(changes[i], key) # NoArg
    <3>1. C(i) = C(i - 1) \union {i} /\ i \notin C(i - 1)
      <4>1. \A j \in 1..n : j <= i <=> j <= i - 1 \/ j = i
        BY <2>1
      <4>2. ~(i <= i - 1)
        BY <2>1
      <4> QED BY <2>3, <4>1, <4>2 DEF ShowsTo, Shows
    <3>2. IsFiniteSet(C(i - 1))
      BY <1>1, <2>1
    <3> HIDE DEF C
    <3> QED BY <2>3, <3>1, <3>2, FS_AddElement
  <2> QED BY <2>2, <2>3
<1>4. C(n) = Shows(changes, key)
  BY DEF ShowsTo, Shows
<1> QED BY <1>1, <1>2, <1>3, <1>4

\* Each shown argument stands in the line at the place that its change has among those shown.
LEMMA ShownPlaces ==
  ASSUME NEW changes, NEW key, Len(changes) \in Nat
  PROVE  /\ Len(Shown(changes, key)) = Cardinality(Shows(changes, key))
         /\ \A j \in Shows(changes, key) :
              /\ Cardinality(ShowsTo(changes, key, j)) \in 1 .. Len(Shown(changes, key))
              /\ Shown(changes, key)[Cardinality(ShowsTo(changes, key, j))] =
                   ShownArg(changes[j], key)
<1> DEFINE n == Len(changes)
           T == {ShownArg(changes[j], key) : j \in 1..n}
           K(i) == Cardinality(ShowsTo(changes, key, i))
<1>1. PICK h : /\ Shown(changes, key) = h[n] /\ h[0] = <<>>
               /\ \A i \in 1..n : h[i] = NextArgs(changes, key, i, h[i - 1])
  BY ShownByStep
<1>2. /\ \A i \in Nat : K(i) \in Nat
      /\ K(0) = 0
      /\ \A i \in 1..n : K(i) = IF ShownArg(changes[i], key) = NoArg THEN K(i - 1) ELSE K(i - 1) + 1
      /\ ShowsTo(changes, key, n) = Shows(changes, key)
  BY ShowsFacts
<1> DEFINE Good(i) ==
             /\ h[i] \in Seq(T) /\ Len(h[i]) = K(i)
             /\ \A j \in ShowsTo(changes, key, i) :
                  K(j) \in 1 .. K(i) /\ h[i][K(j)] = ShownArg(changes[j], key)
           S == {i \in 0..n : Good(i)}
<1> HIDE DEF K
<1>3. \A i \in 0..n : i \in S
  <2>1. 0 \in S
    <3>1. ShowsTo(changes, key, 0) = {}
      BY DEF ShowsTo, Shows
    <3>2. <<>> \in Seq(T) /\ Len(<<>>) = 0
      OBVIOUS
    <3>3. Good(0)
      BY <1>1, <1>2, <3>1, <3>2
    <3> QED BY <3>3
  <2>2. ASSUME NEW i \in 1..n, i - 1 \in S PROVE i \in S
    <3>1. Good(i - 1) /\ i - 1 \in Nat /\ i \in Nat
      BY <2>2
    <3> DEFINE arg == ShownArg(changes[i], key)
               before == h[i - 1]
    <3>2. before \in Seq(T) /\ Len(before) = K(i - 1) /\ arg \in T
      BY <3>1
    <3>3. h[i] = IF arg = NoArg THEN before ELSE Append(before, arg)
      BY <1>1 DEF NextArgs
    <3>4. \A j \in 1..n : j <= i <=> j <= i - 1 \/ j = i
      BY <3>1
    <3> HIDE DEF T, before
    <3>5. Good(i)
      <4>1. CASE arg = NoArg
        <5>1. ShowsTo(changes, key, i) = ShowsTo(changes, key, i - 1)
          BY <3>4, <4>1 DEF ShowsTo, Shows
        <5>2. K(i) = K(i - 1) /\ h[i] = h[i - 1]
          BY <1>2, <3>3, <4>1 DEF before
        <5> QED BY <3>1, <5>1, <5>2
      <4>2. CASE arg # NoArg
        <5>1. \A j \in ShowsTo(changes, key, i) : j \in ShowsTo(changes, key, i - 1) \/ j = i
          BY <3>4 DEF ShowsTo, Shows
        <5>2. K(i) = K(i - 1) + 1 /\ h[i] = Append(before, arg) /\ K(i - 1) \in Nat
          BY <1>2, <3>1, <3>3, <4>2
        <5> HIDE DEF arg
        <5>3. /\ Append(before, arg) \in Seq(T) /\ Len(Append(before, arg)) = K(i - 1) + 1
              /\ Append(before, arg)[K(i - 1) + 1] = arg
              /\ \A k \in 1 .. K(i - 1) : Append(before, arg)[k] = before[k]
          BY <3>2, AppendProperties
        <5>4. ASSUME NEW j \in ShowsTo(changes, key, i)
              PROVE  K(j) \in 1 .. K(i) /\ h[i][K(j)] = ShownArg(changes[j], key)
          <6>1. CASE j = i
            <7>1. K(i) \in 1 .. K(i)
              BY <5>2
            <7> QED BY <5>2, <5>3, <6>1, <7>1 DEF arg
          <6>2. CASE j # i
            <7>1. K(j) \in 1 .. K(i - 1) /\ before[K(j)] = ShownArg(changes[j], key)
              BY <3>1, <5>1, <6>2 DEF before
            <7>2. K(j) \in 1 .. K(i)
              BY <5>2, <7>1
            <7> QED BY <5>2, <5>3, <7>1, <7>2
          <6> QED BY <6>1, <6>2
        <5>5. h[i] \in Seq(T) /\ Len(h[i]) = K(i)
          BY <5>2, <5>3
        <5> QED BY <5>4, <5>5
      <4> QED BY <4>1, <4>2
    <3>6. i \in 0..n
      OBVIOUS
    <3> HIDE DEF Good
    <3> QED BY <3>5, <3>6
  <2> HIDE DEF S
  <2> QED BY <2>1, <2>2, Upward
<1>4. Good(n)
  <2>1. n \in 0..n
    OBVIOUS
  <2> HIDE DEF Good
  <2> QED BY <1>3, <2>1
<1>5. Len(h[n]) = K(n) /\ K(n) = Cardinality(Shows(changes, key))
  BY <1>2, <1>4 DEF K
<1> QED BY <1>1, <1>2, <1>4, <1>5 DEF K

\* Every change of a line has the argument that its mode requires, and no two are of the key.
Regular(changes) ==
  /\ \A i \in DOMAIN changes : changes[i].arg # NoArg <=> RequiresArgument(changes[i])
  /\ \A i, j \in DOMAIN changes : changes[i].mode = "k" /\ changes[j].mode = "k" => i = j

\* What a bot takes for the changes that consume an argument are those whose argument is shown.
LEMMA ConsumersShown ==
  ASSUME NEW changes \in Seq(ChangeRecords), Regular(changes), NEW key
  PROVE  Consumers(changes, Shown(changes, key)) = Shows(changes, key)
<1> DEFINE n == Len(changes)
           all == {i \in DOMAIN changes : RequiresArgument(changes[i])}
           short == {i \in all : changes[i].mode = "k" /\ ~changes[i].adding}
           shows == Shows(changes, key)
<1>1. n \in Nat /\ DOMAIN changes = 1..n
  OBVIOUS
<1>2. /\ Consumers(changes, Shown(changes, key)) =
            IF Cardinality(all) = Cardinality(shows) + 1
              THEN {i \in all : i \notin short \/ \E j \in short : j < i} ELSE all
      /\ IsFiniteSet(shows) /\ Cardinality(shows) \in Nat
  <2>1. Len(Shown(changes, key)) = Cardinality(shows)
    BY <1>1, ShownPlaces
  <2>2. IsFiniteSet(shows) /\ Cardinality(shows) \in Nat
    BY <1>1, ShowsFacts
  <2> QED BY <2>1, <2>2 DEF Consumers
<1>3. ASSUME NEW i \in 1..n
      PROVE  i \in shows <=> i \in all /\ ~(i \in short /\ key = "stripped")
  <2>1. NoArg # Hidden
    BY DEF NoArg, Hidden
  <2>2. i \in all <=> changes[i].arg # NoArg
    BY <1>1 DEF Regular
  <2>3. i \in shows <=> ShownArg(changes[i], key) # NoArg
    BY <1>1 DEF Shows
  <2>4. CASE changes[i].mode = "k" /\ key = "hidden"
    <3>1. ShownArg(changes[i], key) = Hidden
      BY <2>4 DEF ShownArg
    <3>2. RequiresArgument(changes[i])
      BY <2>4 DEF RequiresArgument
    <3> QED BY <1>1, <2>1, <2>3, <2>4, <3>1, <3>2
  <2>5. CASE changes[i].mode = "k" /\ key = "stripped" /\ ~changes[i].adding
    <3>1. ShownArg(changes[i], key) = NoArg
      BY <2>5 DEF ShownArg
    <3>2. RequiresArgument(changes[i])
      BY <2>5 DEF RequiresArgument
    <3> QED BY <1>1, <2>3, <2>5, <3>1, <3>2
  <2>6. CASE /\ ~(changes[i].mode = "k" /\ key = "hidden")
             /\ ~(changes[i].mode = "k" /\ key = "stripped" /\ ~changes[i].adding)
    <3>1. ShownArg(changes[i], key) = changes[i].arg
      BY <2>6 DEF ShownArg
    <3> QED BY <1>1, <2>2, <2>3, <2>6, <3>1
  <2> QED BY <2>4, <2>5, <2>6
<1>4. all \subseteq 1..n /\ shows \subseteq 1..n /\ short \subseteq all
  BY <1>1 DEF Shows
<1>5. \A i, j \in short : i = j
  BY <1>1 DEF Regular
<1> HIDE DEF all, short, shows
<1>6. CASE key = "stripped" /\ short # {}
  <2>1. PICK x \in short : TRUE
    BY <1>6
  <2>2. short = {x} /\ x \in all /\ x \in Nat
    <3>1. short = {x}
      BY <1>5, <2>1
    <3>2. x \in all /\ x \in 1..n
      BY <1>4, <2>1
    <3> QED BY <1>1, <3>1, <3>2
  <2>3. shows = all \ {x}
    BY <1>3, <1>4, <1>6, <2>2
  <2>4. all = shows \union {x} /\ x \notin shows
    BY <2>2, <2>3
  <2>5. Cardinality(all) = Cardinality(shows) + 1
    BY <1>2, <2>4, FS_AddElement
  <2>6. ~(x < x)
    BY <2>2
  <2>7. {i \in all : i \notin short \/ \E j \in short : j < i} = shows
    BY <2>2, <2>3, <2>6
  <2> QED BY <1>2, <2>5, <2>7 DEF shows
<1>7. CASE ~(key = "stripped" /\ short # {})
  <2>1. shows = all
    BY <1>3, <1>4, <1>7
  <2>2. Cardinality(all) # Cardinality(shows) + 1
    BY <1>2, <2>1
  <2> QED BY <1>2, <2>1, <2>2 DEF shows
<1> QED BY <1>6, <1>7

\* A bot reads from a line what the server has shown, each change with its own argument.
LEMMA PairedShown ==
  ASSUME NEW changes \in Seq(ChangeRecords), Regular(changes), NEW key
  PROVE  /\ Len(Paired(changes, Shown(changes, key))) = Len(changes)
         /\ DOMAIN Paired(changes, Shown(changes, key)) = 1 .. Len(changes)
         /\ \A i \in 1 .. Len(changes) :
              Paired(changes, Shown(changes, key))[i] =
                [changes[i] EXCEPT !.arg = ShownArg(changes[i], key)]
<1> DEFINE n == Len(changes)
           args == Shown(changes, key)
           shows == Shows(changes, key)
           place == [i \in shows |-> Cardinality({j \in shows : j <= i})]
           arg(i) == IF i \in shows /\ place[i] <= Len(args) THEN args[place[i]] ELSE NoArg
           paired == [i \in 1..n |-> [changes[i] EXCEPT !.arg = arg(i)]]
<1>1. n \in Nat /\ DOMAIN changes = 1..n
  OBVIOUS
<1>2. Paired(changes, args) = paired
  BY <1>1, ConsumersShown DEF Paired
<1>3. ASSUME NEW i \in 1..n PROVE arg(i) = ShownArg(changes[i], key)
  <2>1. CASE i \in shows
    <3>1. place[i] = Cardinality(ShowsTo(changes, key, i))
      BY <2>1 DEF ShowsTo
    <3>2. place[i] \in 1 .. Len(args) /\ args[place[i]] = ShownArg(changes[i], key)
      BY <1>1, <2>1, <3>1, ShownPlaces
    <3>3. Len(args) \in Nat
      BY <1>1, ShownPlaces, ShowsFacts
    <3> HIDE DEF place, args
    <3>4. place[i] <= Len(args)
      BY <3>2, <3>3
    <3> QED BY <2>1, <3>2, <3>4
  <2>2. CASE i \notin shows
    BY <2>2 DEF Shows
  <2> QED BY <2>1, <2>2
<1> HIDE DEF arg
<1>4. paired \in Seq({paired[i] : i \in 1..n}) /\ Len(paired) = n /\ DOMAIN paired = 1..n
  <2>1. paired \in [1..n -> {paired[i] : i \in 1..n}]
    OBVIOUS
  <2>2. DOMAIN paired = 1..n
    OBVIOUS
  <2> HIDE DEF paired
  <2>3. paired \in Seq({paired[i] : i \in 1..n})
    BY <1>1, <2>1, IsASeq
  <2> QED BY <1>1, <2>2, <2>3, LenProperties
<1> QED BY <1>2, <1>3, <1>4

-----------------------------------------------------------------------------
(* ModeLines: one change *)

\* What the mode taken for the operators' is: that of the one rank shown as "@"; without
\* one, the lowest of founders, protected members and operators; without any, o.
LEMMA OpModeFacts ==
  ASSUME prefix \in Advertised
  PROVE  /\ \A i \in DOMAIN prefix : prefix[i].symbol = "@" => OpMode = prefix[i].mode
         /\ (\A i \in DOMAIN prefix : prefix[i].symbol # "@") =>
              IF "o" \in Ranks THEN OpMode = "o"
              ELSE IF "a" \in Ranks THEN OpMode = "a"
              ELSE IF "q" \in Ranks THEN OpMode = "q"
              ELSE OpMode = "o"
         /\ OpMode \in Ranks \/ OpMode = "o"
<1> DEFINE shown == {i \in DOMAIN prefix : prefix[i].symbol = "@"}
           conventional == <<"o", "a", "q">>
           known == {i \in 1 .. 3 : conventional[i] \in Ranks}
<1>1. OpMode = IF shown # {} THEN prefix[CHOOSE i \in shown : TRUE].mode
               ELSE IF known # {} THEN conventional[CHOOSE i \in known : \A j \in known : i <= j]
               ELSE "o"
  BY DEF OpMode
<1>2. ASSUME NEW i \in DOMAIN prefix, prefix[i].symbol = "@" PROVE OpMode = prefix[i].mode
  <2>1. shown = {i}
    BY <1>2, ModesAssumption
  <2>2. (CHOOSE j \in shown : TRUE) = i
    BY <2>1
  <2> HIDE DEF shown, known
  <2> QED BY <1>1, <2>1, <2>2
<1>3. ASSUME shown = {}
      PROVE  IF "o" \in Ranks THEN OpMode = "o"
             ELSE IF "a" \in Ranks THEN OpMode = "a"
             ELSE IF "q" \in Ranks THEN OpMode = "q"
             ELSE OpMode = "o"
  <2> DEFINE first == CHOOSE i \in known : \A j \in known : i <= j
  <2>1. /\ conventional[1] = "o" /\ conventional[2] = "a" /\ conventional[3] = "q"
        /\ 1..3 = {1, 2, 3}
    OBVIOUS
  <2>2. /\ 1 \in known <=> "o" \in Ranks
        /\ 2 \in known <=> "a" \in Ranks
        /\ 3 \in known <=> "q" \in Ranks
        /\ known \subseteq {1, 2, 3}
    BY <2>1
  <2> HIDE DEF known, shown
  <2>3. ASSUME NEW i \in known, \A j \in known : i <= j PROVE first = i
    <3>1. \E x \in known : \A j \in known : x <= j
      BY <2>3
    <3>2. first \in known /\ \A j \in known : first <= j
      BY <3>1, Zenon
    <3> HIDE DEF first
    <3> QED BY <2>2, <2>3, <3>2
  <2> HIDE DEF first, conventional
  <2>4. OpMode = IF known # {} THEN conventional[first] ELSE "o"
    BY <1>1, <1>3 DEF first
  <2>5. CASE "o" \in Ranks
    <3>1. first = 1
      BY <2>2, <2>3, <2>5
    <3> QED BY <2>1, <2>2, <2>4, <2>5, <3>1
  <2>6. CASE "o" \notin Ranks /\ "a" \in Ranks
    <3>1. first = 2
      BY <2>2, <2>3, <2>6
    <3> QED BY <2>1, <2>2, <2>4, <2>6, <3>1
  <2>7. CASE "o" \notin Ranks /\ "a" \notin Ranks /\ "q" \in Ranks
    <3>1. first = 3
      BY <2>2, <2>3, <2>7
    <3> QED BY <2>1, <2>2, <2>4, <2>7, <3>1
  <2>8. CASE "o" \notin Ranks /\ "a" \notin Ranks /\ "q" \notin Ranks
    <3>1. known = {}
      BY <2>2, <2>8
    <3> QED BY <2>4, <2>8, <3>1
  <2> QED BY <2>5, <2>6, <2>7, <2>8
<1>4. OpMode \in Ranks \/ OpMode = "o"
  <2>1. CASE shown # {}
    <3>1. PICK i \in DOMAIN prefix : prefix[i].symbol = "@"
      BY <2>1
    <3> QED BY <1>2, <3>1 DEF Ranks
  <2>2. CASE shown = {}
    BY <1>3, <2>2
  <2> QED BY <2>1, <2>2
<1>5. (\A i \in DOMAIN prefix : prefix[i].symbol # "@") => shown = {}
  OBVIOUS
<1> HIDE DEF shown
<1> QED BY <1>2, <1>3, <1>4, <1>5

\* The ranks down to a rank are those before its mode.
LEMMA DownTo ==
  ASSUME prefix \in Advertised, NEW k \in DOMAIN prefix, OpMode = prefix[k].mode
  PROVE  OperatorModes = {prefix[i].mode : i \in {i \in DOMAIN prefix : i <= k}}
<1>1. prefix \in Seq([mode : STRING, symbol : STRING])
  BY ModesAssumption
<1>2. DOMAIN prefix = 1 .. Len(prefix) /\ Len(prefix) \in Nat
  BY <1>1
<1>3. \A j \in DOMAIN prefix : prefix[j].mode = OpMode => j = k
  BY ModesAssumption
<1>4. OpMode \in Ranks
  BY DEF Ranks
<1>5. ASSUME NEW i \in DOMAIN prefix
      PROVE  (\A j \in 1 .. i - 1 : prefix[j].mode # OpMode) <=> i <= k
  <2>1. i \in Nat /\ k \in Nat /\ 1 <= k /\ k <= Len(prefix) /\ i <= Len(prefix)
    BY <1>2
  <2>2. ASSUME i <= k, NEW j \in 1 .. i - 1 PROVE prefix[j].mode # OpMode
    <3>1. j \in DOMAIN prefix /\ j # k
      BY <1>2, <2>1, <2>2
    <3> QED BY <1>3, <3>1
  <2>3. ASSUME ~(i <= k) PROVE k \in 1 .. i - 1
    BY <2>1, <2>3
  <2> QED BY <2>2, <2>3
<1>6. {i \in DOMAIN prefix : \A j \in 1 .. i - 1 : prefix[j].mode # OpMode}
        = {i \in DOMAIN prefix : i <= k}
  BY <1>5
<1> QED BY <1>4, <1>6 DEF OperatorModes

\* A bot takes those ranks for operators that are.
LEMMA OperatorsFound ==
  ASSUME prefix \in Advertised
  PROVE  Ranks \intersect OperatorModes = Operators
<1> DEFINE ends == {i \in DOMAIN prefix : prefix[i].symbol = "@"}
           named == {i \in DOMAIN prefix : prefix[i].mode \in {"q", "a", "o"}}
           lowest == IF ends # {} THEN ends ELSE named
<1>1. Operators = {prefix[i].mode : i \in {i \in DOMAIN prefix : \E j \in lowest : i <= j}}
  BY DEF Operators
<1>2. /\ \A i, j \in DOMAIN prefix :
            prefix[i].mode = prefix[j].mode \/ prefix[i].symbol = prefix[j].symbol => i = j
      /\ \A i, j \in DOMAIN prefix :
            <<prefix[i].mode, prefix[j].mode>> \in {<<"q", "a">>, <<"q", "o">>, <<"a", "o">>}
              => i < j
      /\ DOMAIN prefix \subseteq Nat
  BY ModesAssumption
<1>3. ASSUME NEW k \in lowest, \A j \in lowest : j <= k, OpMode = prefix[k].mode
      PROVE  Ranks \intersect OperatorModes = Operators
  <2>1. k \in DOMAIN prefix /\ lowest \subseteq DOMAIN prefix
    OBVIOUS
  <2>2. OperatorModes = {prefix[i].mode : i \in {i \in DOMAIN prefix : i <= k}}
    BY <1>3, <2>1, DownTo
  <2> HIDE DEF lowest
  <2>3. ASSUME NEW i \in DOMAIN prefix PROVE (\E j \in lowest : i <= j) <=> i <= k
    <3>1. i \in Nat /\ k \in Nat /\ \A j \in lowest : j \in Nat /\ j <= k
      BY <1>2, <1>3, <2>1
    <3> QED BY <1>3, <3>1
  <2>4. Operators = OperatorModes
    BY <1>1, <2>2, <2>3
  <2> QED BY <2>2, <2>4 DEF Ranks
<1>4. CASE ends # {}
  <2>1. PICK k \in DOMAIN prefix : prefix[k].symbol = "@"
    BY <1>4
  <2>2. ends = {k} /\ lowest = {k} /\ k \in Nat
    BY <1>2, <2>1
  <2>3. OpMode = prefix[k].mode
    BY <2>1, OpModeFacts
  <2> HIDE DEF lowest
  <2> QED BY <1>3, <2>2, <2>3
<1>5. ASSUME ends = {}, NEW k \in DOMAIN prefix, prefix[k].mode = OpMode,
             prefix[k].mode \in {"q", "a", "o"},
             \A j \in DOMAIN prefix : prefix[j].mode \in {"q", "a", "o"} => j <= k
      PROVE  Ranks \intersect OperatorModes = Operators
  <2>1. lowest = named /\ k \in named
    BY <1>5
  <2>2. k \in lowest /\ \A j \in lowest : j <= k
    BY <1>5, <2>1
  <2> HIDE DEF lowest
  <2> QED BY <1>3, <1>5, <2>2
<1>6. CASE ends = {}
  <2>1. IF "o" \in Ranks THEN OpMode = "o"
        ELSE IF "a" \in Ranks THEN OpMode = "a"
        ELSE IF "q" \in Ranks THEN OpMode = "q"
        ELSE OpMode = "o"
    BY <1>6, OpModeFacts
  <2>2. \A x \in Ranks : \E k \in DOMAIN prefix : prefix[k].mode = x
    BY DEF Ranks
  <2>3. \A i \in DOMAIN prefix : prefix[i].mode \in Ranks
    BY DEF Ranks
  <2>4. CASE "o" \in Ranks
    <3>1. PICK k \in DOMAIN prefix : prefix[k].mode = "o"
      BY <2>2, <2>4
    <3>2. \A j \in DOMAIN prefix : prefix[j].mode \in {"q", "a", "o"} => j <= k
      BY <1>2, <3>1
    <3> QED BY <1>5, <1>6, <2>1, <2>4, <3>1, <3>2
  <2>5. CASE "o" \notin Ranks /\ "a" \in Ranks
    <3>1. PICK k \in DOMAIN prefix : prefix[k].mode = "a"
      BY <2>2, <2>5
    <3>2. \A j \in DOMAIN prefix : prefix[j].mode \in {"q", "a", "o"} => j <= k
      BY <1>2, <2>3, <2>5, <3>1
    <3> QED BY <1>5, <1>6, <2>1, <2>5, <3>1, <3>2
  <2>6. CASE "o" \notin Ranks /\ "a" \notin Ranks /\ "q" \in Ranks
    <3>1. PICK k \in DOMAIN prefix : prefix[k].mode = "q"
      BY <2>2, <2>6
    <3>2. \A j \in DOMAIN prefix : prefix[j].mode \in {"q", "a", "o"} => j <= k
      BY <1>2, <2>3, <2>6, <3>1
    <3> QED BY <1>5, <1>6, <2>1, <2>6, <3>1, <3>2
  <2>7. CASE Ranks \intersect {"q", "a", "o"} = {}
    <3>1. lowest = {} /\ OpMode = "o" /\ "o" \notin Ranks
      BY <1>6, <2>1, <2>3, <2>7
    <3> HIDE DEF lowest
    <3>2. OperatorModes = {"o"} /\ Operators = {}
      BY <1>1, <3>1 DEF OperatorModes
    <3> QED BY <3>1, <3>2
  <2> QED BY <2>4, <2>5, <2>6, <2>7
<1> QED BY <1>4, <1>6

\* The modes of members are none of the channel's.
LEMMA RanksApart ==
  ASSUME prefix \in Advertised
  PROVE  /\ \A m \in {"b", "k", "l", "t"} : m \notin Ranks /\ m \notin OperatorModes
         /\ NoArg \notin Keys /\ NoArg \notin Masks /\ NoArg \notin Limits /\ NoArg \notin Members
         /\ Hidden \notin Keys /\ NoArg # Hidden
<1>1. \A m \in {"b", "k", "l", "t"} : m \notin Ranks
  BY ModesAssumption DEF Ranks
<1>2. OperatorModes \subseteq Ranks \union {"o"}
  <2>1. OpMode \in Ranks \/ OpMode = "o"
    BY OpModeFacts
  <2> QED BY <2>1 DEF OperatorModes, Ranks
<1>3. \A m \in {"b", "k", "l", "t"} : m # "o"
  OBVIOUS
<1>4. NoArg # Hidden
  BY DEF NoArg, Hidden
<1> QED BY <1>1, <1>2, <1>3, <1>4, ModesAssumption

\* A channel after a change, by its parts.
LEMMA MadeFields ==
  ASSUME NEW r \in Rooms, NEW c
  PROVE  LET m == Made(r, c) IN
         /\ m = [flags |-> m.flags, key |-> m.key, limit |-> m.limit, bans |-> m.bans,
                 ranks |-> m.ranks]
         /\ m.flags = IF c.mode = "t" THEN With(r.flags, c, "t") ELSE r.flags
         /\ m.key = IF c.mode = "k" THEN (IF c.adding THEN c.arg ELSE NoArg) ELSE r.key
         /\ m.limit = IF c.mode = "l" THEN c.arg ELSE r.limit
         /\ m.bans = IF c.mode = "b" THEN With(r.bans, c, c.arg) ELSE r.bans
         /\ m.ranks = IF c.mode \in {"b", "k", "l", "t"} THEN r.ranks
                      ELSE With(r.ranks, c, <<c.arg, c.mode>>)
<1>1. r = [flags |-> r.flags, key |-> r.key, limit |-> r.limit, bans |-> r.bans,
           ranks |-> r.ranks]
  BY DEF Rooms
<1>2. CASE c.mode = "t"
  BY <1>1, <1>2 DEF Made
<1>3. CASE c.mode = "k"
  BY <1>1, <1>3 DEF Made
<1>4. CASE c.mode = "l"
  BY <1>1, <1>4 DEF Made
<1>5. CASE c.mode = "b"
  BY <1>1, <1>5 DEF Made
<1>6. CASE c.mode \notin {"b", "k", "l", "t"}
  BY <1>1, <1>6 DEF Made
<1> QED BY <1>2, <1>3, <1>4, <1>5, <1>6

\* What a bot takes a change for, by its parts.
LEMMA AppliedFields ==
  ASSUME NEW v \in Views, NEW c, prefix \in Advertised
  PROVE  LET a == Applied(v, c) IN
         /\ a = [letters |-> a.letters, key |-> a.key, limit |-> a.limit, bans |-> a.bans,
                 ranks |-> a.ranks]
         /\ a.letters = IF c.mode \in {"k", "l", "t"} THEN With(v.letters, c, c.mode)
                        ELSE v.letters
         /\ a.key = IF c.mode = "k" THEN Key(v.key, c) ELSE v.key
         /\ a.limit = IF c.mode = "l" THEN (IF c.adding THEN c.arg ELSE NoArg) ELSE v.limit
         /\ a.bans = IF c.mode = "b" /\ c.arg # NoArg THEN With(v.bans, c, c.arg) ELSE v.bans
         /\ a.ranks = IF c.mode \in OperatorModes /\ c.arg # NoArg
                      THEN With(v.ranks, c, <<c.arg, c.mode>>) ELSE v.ranks
<1>1. v = [letters |-> v.letters, key |-> v.key, limit |-> v.limit, bans |-> v.bans,
           ranks |-> v.ranks]
  BY DEF Views
<1> DEFINE w == [v EXCEPT !.letters = With(v.letters, c, c.mode)]
<1>2. /\ w = [letters |-> w.letters, key |-> w.key, limit |-> w.limit, bans |-> w.bans,
              ranks |-> w.ranks]
      /\ w.letters = With(v.letters, c, c.mode) /\ w.key = v.key /\ w.limit = v.limit
      /\ w.bans = v.bans /\ w.ranks = v.ranks
  BY <1>1
<1>3. \A m \in {"b", "k", "l", "t"} : m \notin OperatorModes
  BY RanksApart
<1>4. Applied(v, c) =
        CASE c.mode = "l" -> [w EXCEPT !.limit = IF c.adding THEN c.arg ELSE NoArg]
          [] c.mode = "k" -> [w EXCEPT !.key = Key(w.key, c)]
          [] c.mode = "t" -> w
          [] c.mode = "b" /\ c.arg # NoArg -> [v EXCEPT !.bans = With(v.bans, c, c.arg)]
          [] c.mode \in OperatorModes /\ c.arg # NoArg ->
               [v EXCEPT !.ranks = With(v.ranks, c, <<c.arg, c.mode>>)]
          [] OTHER -> v
  BY <1>3 DEF Applied
<1> HIDE DEF w
<1>5. CASE c.mode = "l"
  BY <1>2, <1>3, <1>4, <1>5
<1>6. CASE c.mode = "k"
  BY <1>2, <1>3, <1>4, <1>6
<1>7. CASE c.mode = "t"
  BY <1>2, <1>3, <1>4, <1>7
<1>8. CASE c.mode = "b"
  BY <1>1, <1>3, <1>4, <1>8
<1>9. CASE c.mode \notin {"b", "k", "l", "t"}
  BY <1>1, <1>4, <1>9
<1> QED BY <1>5, <1>6, <1>7, <1>8, <1>9

\* A change that changes something has an argument where its mode requires one.
LEMMA ChangeFacts ==
  ASSUME prefix \in Advertised, NEW r \in Rooms, NEW c \in Changes(r), Made(r, c) # r
  PROVE  /\ c \in ChangeRecords /\ Made(r, c) \in Rooms
         /\ c.arg # NoArg <=> RequiresArgument(c)
         /\ c.mode = "t" => c.arg = NoArg
         /\ c.mode = "k" => c.arg \in Keys /\ (c.adding \/ c.arg = r.key)
         /\ c.mode = "l" => c.arg \in Limits \union {NoArg} /\ (c.adding <=> c.arg # NoArg)
         /\ c.mode = "b" => c.arg \in Masks
         /\ c.mode \notin {"b", "k", "l", "t"} => c.mode \in Ranks /\ c.arg \in Members
<1>1. /\ r.flags \in SUBSET {"t"} /\ r.key \in Keys \union {NoArg}
      /\ r.limit \in Limits \union {NoArg} /\ r.bans \in SUBSET Masks
      /\ r.ranks \in SUBSET (Members \X Ranks)
      /\ r = [flags |-> r.flags, key |-> r.key, limit |-> r.limit, bans |-> r.bans,
              ranks |-> r.ranks]
  BY DEF Rooms
<1>2. /\ \A m \in {"b", "k", "l", "t"} : m \notin Ranks
      /\ NoArg \notin Keys /\ NoArg \notin Masks /\ NoArg \notin Limits /\ NoArg \notin Members
  BY RanksApart
<1> DEFINE m == Made(r, c)
<1>3. /\ m = [flags |-> m.flags, key |-> m.key, limit |-> m.limit, bans |-> m.bans,
              ranks |-> m.ranks]
      /\ m.flags = IF c.mode = "t" THEN With(r.flags, c, "t") ELSE r.flags
      /\ m.key = IF c.mode = "k" THEN (IF c.adding THEN c.arg ELSE NoArg) ELSE r.key
      /\ m.limit = IF c.mode = "l" THEN c.arg ELSE r.limit
      /\ m.bans = IF c.mode = "b" THEN With(r.bans, c, c.arg) ELSE r.bans
      /\ m.ranks = IF c.mode \in {"b", "k", "l", "t"} THEN r.ranks
                   ELSE With(r.ranks, c, <<c.arg, c.mode>>)
  BY MadeFields
<1>4. /\ c = [adding |-> c.adding, mode |-> c.mode, arg |-> c.arg] /\ c.adding \in BOOLEAN
      /\ \/ c.mode = "t" /\ c.arg = NoArg
         \/ c.mode = "k" /\ c.adding /\ c.arg \in Keys
         \/ c.mode = "k" /\ ~c.adding /\ c.arg = r.key
         \/ c.mode = "l" /\ c.adding /\ c.arg \in Limits
         \/ c.mode = "l" /\ ~c.adding /\ c.arg = NoArg
         \/ c.mode = "b" /\ c.arg \in Masks
         \/ c.mode \in Ranks /\ c.arg \in Members
  <2>1. \/ \E a \in BOOLEAN : c = Change(a, "t", NoArg)
        \/ \E x \in Keys : c = Change(TRUE, "k", x)
        \/ c = Change(FALSE, "k", r.key)
        \/ \E x \in Limits : c = Change(TRUE, "l", x)
        \/ c = Change(FALSE, "l", NoArg)
        \/ \E a \in BOOLEAN, x \in Masks : c = Change(a, "b", x)
        \/ \E a \in BOOLEAN, rank \in Ranks, x \in Members : c = Change(a, rank, x)
    <3> DEFINE banned == {Change(a, "b", x) : a \in BOOLEAN, x \in Masks}
               ranked == {Change(a, rank, x) : a \in BOOLEAN, rank \in Ranks, x \in Members}
    <3>1. c \in banned => \E a \in BOOLEAN, x \in Masks : c = Change(a, "b", x)
      OBVIOUS
    <3>2. c \in ranked => \E a \in BOOLEAN, rank \in Ranks, x \in Members : c = Change(a, rank, x)
      OBVIOUS
    <3>3. Changes(r) = {Change(a, "t", NoArg) : a \in BOOLEAN}
                         \union {Change(TRUE, "k", x) : x \in Keys} \union {Change(FALSE, "k", r.key)}
                         \union {Change(TRUE, "l", x) : x \in Limits} \union {Change(FALSE, "l", NoArg)}
                         \union banned \union ranked
      BY DEF Changes
    <3> HIDE DEF banned, ranked
    <3> QED BY <3>1, <3>2, <3>3
  <2>2. ASSUME NEW a \in BOOLEAN, NEW of, NEW x, c = Change(a, of, x)
        PROVE  /\ c = [adding |-> c.adding, mode |-> c.mode, arg |-> c.arg]
               /\ c.adding = a /\ c.mode = of /\ c.arg = x
    BY <2>2 DEF Change
  <2>3. TRUE \in BOOLEAN /\ FALSE \in BOOLEAN
    OBVIOUS
  <2>4. CASE \E a \in BOOLEAN : c = Change(a, "t", NoArg)
    BY <2>2, <2>4
  <2>5. CASE \E x \in Keys : c = Change(TRUE, "k", x)
    BY <2>2, <2>3, <2>5
  <2>6. CASE c = Change(FALSE, "k", r.key)
    BY <2>2, <2>3, <2>6
  <2>7. CASE \E x \in Limits : c = Change(TRUE, "l", x)
    BY <2>2, <2>3, <2>7
  <2>8. CASE c = Change(FALSE, "l", NoArg)
    BY <2>2, <2>3, <2>8
  <2>9. CASE \E a \in BOOLEAN, x \in Masks : c = Change(a, "b", x)
    BY <2>2, <2>9
  <2>10. CASE \E a \in BOOLEAN, rank \in Ranks, x \in Members : c = Change(a, rank, x)
    BY <2>2, <2>10
  <2> QED BY <2>1, <2>4, <2>5, <2>6, <2>7, <2>8, <2>9, <2>10
<1> HIDE DEF m
<1>5. m.flags \in SUBSET {"t"}
  BY <1>1, <1>3 DEF With
<1>6. c.mode = "k" /\ ~c.adding => r.key # NoArg
  <2>1. ASSUME c.mode = "k", ~c.adding, r.key = NoArg PROVE m = r
    BY <1>1, <1>3, <2>1
  <2> QED BY <2>1 DEF m
<1>7. m.key \in Keys \union {NoArg} /\ m.limit \in Limits \union {NoArg}
  BY <1>1, <1>2, <1>3, <1>4
<1>8. m.bans \in SUBSET Masks
  BY <1>1, <1>2, <1>3, <1>4 DEF With
<1>9. m.ranks \in SUBSET (Members \X Ranks)
  <2>1. CASE c.mode \in {"b", "k", "l", "t"}
    BY <1>1, <1>3, <2>1
  <2>2. CASE c.mode \notin {"b", "k", "l", "t"}
    <3>1. <<c.arg, c.mode>> \in Members \X Ranks
      BY <1>4, <2>2
    <3> QED BY <1>1, <1>3, <2>2, <3>1 DEF With
  <2> QED BY <2>1, <2>2
<1>10. m \in Rooms
  BY <1>3, <1>5, <1>7, <1>8, <1>9 DEF Rooms
<1>11. c \in ChangeRecords
  BY <1>1, <1>4 DEF ChangeRecords
<1>12. c.arg # NoArg <=> RequiresArgument(c)
  BY <1>2, <1>4, <1>6 DEF RequiresArgument
<1>13. c.mode = "k" => c.arg \in Keys /\ (c.adding \/ c.arg = r.key)
  BY <1>1, <1>2, <1>4, <1>6
<1> QED BY <1>2, <1>4, <1>10, <1>11, <1>12, <1>13 DEF m

\* The change d is c as a bot reads it.
ReadAs(d, c, key) == d = [c EXCEPT !.arg = ShownArg(c, key)]

\* The view a follows the channel m, as v followed r before the change c.
Follows(a, m, v, r, c, key) ==
  /\ a \in Views /\ Tracks(a, m)
  /\ c.mode # "k" => a.key = v.key /\ m.key = r.key
  /\ c.mode = "k" /\ (m.key = NoArg \/ key # "hidden") => a.key = m.key

\* A bot that knows a channel knows it after a change read with its own argument, and its key
\* when the line shows it.
LEMMA AppliedTracks ==
  ASSUME prefix \in Advertised, NEW r \in Rooms, NEW c \in Changes(r), Made(r, c) # r,
         NEW v \in Views, Tracks(v, r), NEW key,
         NEW d, ReadAs(d, c, key)
  PROVE  Follows(Applied(v, d), Made(r, c), v, r, c, key)
<1> DEFINE m == Made(r, c)
           a == Applied(v, d)
<1>1. /\ m \in Rooms /\ c \in ChangeRecords
      /\ c.mode = "t" => c.arg = NoArg
      /\ c.mode = "k" => c.arg \in Keys /\ (c.adding \/ c.arg = r.key)
      /\ c.mode = "l" => c.arg \in Limits \union {NoArg} /\ (c.adding <=> c.arg # NoArg)
      /\ c.mode = "b" => c.arg \in Masks
      /\ c.mode \notin {"b", "k", "l", "t"} => c.mode \in Ranks /\ c.arg \in Members
  BY ChangeFacts
<1>2. /\ \A x \in {"b", "k", "l", "t"} : x \notin Ranks /\ x \notin OperatorModes
      /\ NoArg \notin Keys /\ NoArg \notin Masks /\ NoArg \notin Limits /\ NoArg \notin Members
      /\ Hidden \notin Keys /\ NoArg # Hidden
  BY RanksApart
<1>3. /\ m.flags = IF c.mode = "t" THEN With(r.flags, c, "t") ELSE r.flags
      /\ m.key = IF c.mode = "k" THEN (IF c.adding THEN c.arg ELSE NoArg) ELSE r.key
      /\ m.limit = IF c.mode = "l" THEN c.arg ELSE r.limit
      /\ m.bans = IF c.mode = "b" THEN With(r.bans, c, c.arg) ELSE r.bans
      /\ m.ranks = IF c.mode \in {"b", "k", "l", "t"} THEN r.ranks
                   ELSE With(r.ranks, c, <<c.arg, c.mode>>)
  BY MadeFields
<1>4. /\ a = [letters |-> a.letters, key |-> a.key, limit |-> a.limit, bans |-> a.bans,
              ranks |-> a.ranks]
      /\ a.letters = IF d.mode \in {"k", "l", "t"} THEN With(v.letters, d, d.mode) ELSE v.letters
      /\ a.key = IF d.mode = "k" THEN Key(v.key, d) ELSE v.key
      /\ a.limit = IF d.mode = "l" THEN (IF d.adding THEN d.arg ELSE NoArg) ELSE v.limit
      /\ a.bans = IF d.mode = "b" /\ d.arg # NoArg THEN With(v.bans, d, d.arg) ELSE v.bans
      /\ a.ranks = IF d.mode \in OperatorModes /\ d.arg # NoArg
                   THEN With(v.ranks, d, <<d.arg, d.mode>>) ELSE v.ranks
  BY AppliedFields
<1>5. d.mode = c.mode /\ d.adding = c.adding /\ d.arg = ShownArg(c, key)
  BY <1>1 DEF ChangeRecords, ReadAs
<1>6. c.mode # "k" => d.arg = c.arg
  BY <1>5 DEF ShownArg
<1>7. /\ v.letters = r.flags \union {x \in {"k"} : r.key # NoArg}
                       \union {x \in {"l"} : r.limit # NoArg}
      /\ v.limit = r.limit /\ v.bans = r.bans
      /\ v.ranks = {x \in r.ranks : x[2] \in Operators}
  BY DEF Tracks
<1>8. /\ v.letters \in SUBSET {"k", "l", "t"} /\ v.key \in Keys \union {NoArg}
      /\ v.limit \in Limits \union {NoArg} /\ v.bans \in SUBSET Masks
      /\ v.ranks \in SUBSET (Members \X Ranks)
      /\ r.flags \in SUBSET {"t"} /\ r.key \in Keys \union {NoArg}
      /\ r.limit \in Limits \union {NoArg}
  BY DEF Views, Rooms
<1> HIDE DEF m, a
<1>9. a.letters = m.flags \union {x \in {"k"} : m.key # NoArg} \union {x \in {"l"} : m.limit # NoArg}
  <2>1. CASE c.mode = "t"
    <3>1. /\ m.flags = With(r.flags, c, "t") /\ m.key = r.key /\ m.limit = r.limit
          /\ a.letters = With(v.letters, d, "t")
      BY <1>3, <1>4, <1>5, <2>1
    <3> QED BY <1>5, <1>7, <3>1 DEF With
  <2>2. CASE c.mode = "k"
    <3>1. /\ m.flags = r.flags /\ m.key = (IF c.adding THEN c.arg ELSE NoArg) /\ m.limit = r.limit
          /\ a.letters = With(v.letters, d, "k")
      BY <1>3, <1>4, <1>5, <2>2
    <3>2. m.key # NoArg <=> c.adding
      BY <1>1, <1>2, <2>2, <3>1
    <3> QED BY <1>5, <1>7, <1>8, <3>1, <3>2 DEF With
  <2>3. CASE c.mode = "l"
    <3>1. /\ m.flags = r.flags /\ m.key = r.key /\ m.limit = c.arg
          /\ a.letters = With(v.letters, d, "l")
      BY <1>3, <1>4, <1>5, <2>3
    <3>2. m.limit # NoArg <=> c.adding
      BY <1>1, <2>3, <3>1
    <3> QED BY <1>5, <1>7, <1>8, <3>1, <3>2 DEF With
  <2>4. CASE c.mode \notin {"k", "l", "t"}
    <3>1. m.flags = r.flags /\ m.key = r.key /\ m.limit = r.limit /\ a.letters = v.letters
      BY <1>3, <1>4, <1>5, <2>4
    <3> QED BY <1>7, <3>1
  <2> QED BY <2>1, <2>2, <2>3, <2>4
<1>10. a.limit = m.limit
  <2>1. CASE c.mode = "l"
    <3>1. m.limit = c.arg /\ a.limit = (IF c.adding THEN c.arg ELSE NoArg)
      BY <1>3, <1>4, <1>5, <1>6, <2>1
    <3> QED BY <1>1, <2>1, <3>1
  <2>2. CASE c.mode # "l"
    BY <1>3, <1>4, <1>5, <1>7, <2>2
  <2> QED BY <2>1, <2>2
<1>11. a.bans = m.bans
  <2>1. CASE c.mode = "b"
    <3>1. d.arg = c.arg /\ d.arg # NoArg
      BY <1>1, <1>2, <1>6, <2>1
    <3>2. m.bans = With(r.bans, c, c.arg) /\ a.bans = With(v.bans, d, c.arg)
      BY <1>3, <1>4, <1>5, <2>1, <3>1
    <3> QED BY <1>5, <1>7, <3>2 DEF With
  <2>2. CASE c.mode # "b"
    BY <1>3, <1>4, <1>5, <1>7, <2>2
  <2> QED BY <2>1, <2>2
<1>12. a.ranks = {x \in m.ranks : x[2] \in Operators}
  <2>1. CASE c.mode \in {"b", "k", "l", "t"}
    <3>1. a.ranks = v.ranks /\ m.ranks = r.ranks
      BY <1>2, <1>3, <1>4, <1>5, <2>1
    <3> QED BY <1>7, <3>1
  <2>2. CASE c.mode \notin {"b", "k", "l", "t"}
    <3> DEFINE x == <<c.arg, c.mode>>
    <3>1. d.arg = c.arg /\ d.arg # NoArg /\ x[2] = c.mode
      BY <1>1, <1>2, <1>6, <2>2
    <3>2. /\ m.ranks = With(r.ranks, c, x)
          /\ a.ranks = IF c.mode \in OperatorModes THEN With(v.ranks, d, x) ELSE v.ranks
      BY <1>3, <1>4, <1>5, <2>2, <3>1
    <3>3. c.mode \in OperatorModes <=> c.mode \in Operators
      BY <1>1, <2>2, OperatorsFound
    <3> HIDE DEF x
    <3> QED BY <1>5, <1>7, <3>1, <3>2, <3>3 DEF With
  <2> QED BY <2>1, <2>2
<1>13. Tracks(a, m)
  BY <1>9, <1>10, <1>11, <1>12 DEF Tracks
<1>14. /\ m.flags \in SUBSET {"t"} /\ m.limit \in Limits \union {NoArg} /\ m.bans \in SUBSET Masks
       /\ m.ranks \in SUBSET (Members \X Ranks) /\ m.key \in Keys \union {NoArg}
  BY <1>1 DEF Rooms
<1>15. c.mode = "k" /\ (m.key = NoArg \/ key # "hidden") => a.key = m.key
  <2>1. ASSUME c.mode = "k", m.key = NoArg \/ key # "hidden" PROVE a.key = m.key
    <3>1. a.key = Key(v.key, d) /\ m.key = (IF c.adding THEN c.arg ELSE NoArg) /\ c.arg \in Keys
      BY <1>1, <1>3, <1>4, <1>5, <2>1
    <3>2. c.adding => d.arg = c.arg
      <4>1. c.adding => key # "hidden"
        BY <1>2, <2>1, <3>1
      <4> QED BY <1>5, <2>1, <4>1 DEF ShownArg
    <3>3. c.adding => d.arg \notin {NoArg, Hidden}
      BY <1>2, <3>1, <3>2
    <3> QED BY <1>5, <3>1, <3>2, <3>3 DEF Key
  <2> QED BY <2>1
<1>16. c.mode # "k" => a.key = v.key /\ m.key = r.key
  BY <1>3, <1>4, <1>5
<1>17. a.key \in Keys \union {NoArg}
  <2>1. CASE c.mode = "k"
    <3>1. a.key = Key(v.key, d) /\ c.arg \in Keys
      BY <1>1, <1>4, <1>5, <2>1
    <3>2. d.arg \in Keys \union {NoArg, Hidden}
      BY <1>5, <3>1 DEF ShownArg
    <3> QED BY <1>8, <3>1, <3>2 DEF Key
  <2> QED BY <1>8, <1>16, <2>1
<1>18. a \in Views
  <2>1. a.letters \in SUBSET {"k", "l", "t"}
    BY <1>9, <1>14
  <2>2. a.ranks \in SUBSET (Members \X Ranks)
    BY <1>12, <1>14
  <2> QED BY <1>4, <1>10, <1>11, <1>14, <1>17, <2>1, <2>2 DEF Views
<1> QED BY <1>13, <1>15, <1>16, <1>18 DEF m, a, Follows

-----------------------------------------------------------------------------
(* ModeLines: a line of changes *)

\* The changes of a line lead from one channel to another.
LeadsOn(start, changes) ==
  \A i \in DOMAIN changes : /\ changes[i] \in Changes(Along(start, changes)[i - 1])
                            /\ Along(start, changes)[i] # Along(start, changes)[i - 1]

LEMMA LeadsFacts ==
  ASSUME prefix \in Advertised, NEW start \in Rooms, NEW changes \in Seq(ChangeRecords),
         LeadsOn(start, changes)
  PROVE  /\ \A i \in 0 .. Len(changes) : Along(start, changes)[i] \in Rooms
         /\ \A i \in DOMAIN changes : changes[i].arg # NoArg <=> RequiresArgument(changes[i])
<1> DEFINE n == Len(changes)
           f == Along(start, changes)
           S == {i \in 0..n : f[i] \in Rooms}
<1>1. n \in Nat /\ DOMAIN changes = 1..n
  OBVIOUS
<1>2. f[0] = start /\ \A i \in 1..n : f[i] = Made(f[i - 1], changes[i])
  BY <1>1, AlongByStep
<1>3. \A i \in 1..n : changes[i] \in Changes(f[i - 1]) /\ f[i] # f[i - 1]
  BY <1>1 DEF LeadsOn
<1> HIDE DEF f
<1>4. ASSUME NEW i \in 1..n, f[i - 1] \in Rooms
      PROVE  /\ f[i] \in Rooms
             /\ changes[i].arg # NoArg <=> RequiresArgument(changes[i])
  <2>1. /\ changes[i] \in Changes(f[i - 1]) /\ f[i] = Made(f[i - 1], changes[i])
        /\ Made(f[i - 1], changes[i]) # f[i - 1]
    BY <1>2, <1>3
  <2> DEFINE c == changes[i]
             r == f[i - 1]
  <2>2. r \in Rooms /\ c \in Changes(r) /\ Made(r, c) # r /\ f[i] = Made(r, c)
    BY <1>4, <2>1
  <2> HIDE DEF c, r
  <2>3. Made(r, c) \in Rooms /\ (c.arg # NoArg <=> RequiresArgument(c))
    BY <2>2, ChangeFacts
  <2> QED BY <2>2, <2>3 DEF c
<1>5. \A i \in 0..n : i \in S
  <2>1. 0 \in S
    BY <1>1, <1>2
  <2>2. \A i \in 1..n : i - 1 \in S => i \in S
    BY <1>4
  <2> HIDE DEF S
  <2> QED BY <1>1, <2>1, <2>2, Upward
<1>6. \A i \in 1..n : i - 1 \in 0..n
  BY <1>1
<1>7. \A i \in 0..n : f[i] \in Rooms
  BY <1>5
<1>8. \A i \in 1..n : changes[i].arg # NoArg <=> RequiresArgument(changes[i])
  BY <1>4, <1>6, <1>7
<1> QED BY <1>1, <1>7, <1>8 DEF f

\* A bot that knows a channel and handles a line knows the channel the line leads to.
LEMMA LineTracks ==
  ASSUME prefix \in Advertised, NEW start \in Rooms, NEW changes \in Seq(ChangeRecords),
         LeadsOn(start, changes), Regular(changes), NEW v \in Views, Tracks(v, start),
         NEW s, s => v.key = start.key, NEW key,
         NEW w, w = AppliedInTurn(v, Paired(changes, Shown(changes, key))),
         NEW r, r = Along(start, changes)[Len(changes)]
  PROVE  /\ w \in Views /\ Tracks(w, r) /\ r \in Rooms
         /\ (IF \E i \in DOMAIN changes : changes[i].mode = "k"
               THEN r.key = NoArg \/ key # "hidden" ELSE s) => w.key = r.key
<1> DEFINE n == Len(changes)
           f == Along(start, changes)
           paired == Paired(changes, Shown(changes, key))
<1>1. n \in Nat /\ DOMAIN changes = 1..n
  OBVIOUS
<1>2. Len(paired) = n /\ \A i \in 1..n : paired[i] = [changes[i] EXCEPT !.arg = ShownArg(changes[i], key)]
  BY PairedShown
<1>3. f[0] = start /\ \A i \in 1..n : f[i] = Made(f[i - 1], changes[i])
  BY <1>1, AlongByStep
<1>4. \A i \in 1..n : changes[i] \in Changes(f[i - 1]) /\ f[i] # f[i - 1]
  BY <1>1 DEF LeadsOn
<1>5. \A i \in 0..n : f[i] \in Rooms
  BY LeadsFacts
<1>6. r = f[n]
  OBVIOUS
<1> HIDE DEF f, paired
<1>7. PICK h : /\ AppliedInTurn(v, paired) = h[n] /\ h[0] = v
               /\ \A i \in 1..n : h[i] = Applied(h[i - 1], paired[i])
  BY <1>1, <1>2, AppliedByStep
<1>8. w = h[n]
  BY <1>7 DEF paired
<1> DEFINE ShownTo(i) == IF \E j \in 1..i : changes[j].mode = "k"
                         THEN f[i].key = NoArg \/ key # "hidden" ELSE s
           Good(i) == h[i] \in Views /\ Tracks(h[i], f[i]) /\ (ShownTo(i) => h[i].key = f[i].key)
           S == {i \in 0..n : Good(i)}
<1>9. \A i \in 0..n : i \in S
  <2>1. 0 \in S
    <3>1. ~ \E j \in 1..0 : changes[j].mode = "k"
      OBVIOUS
    <3>2. Good(0)
      BY <1>3, <1>7, <3>1
    <3> QED BY <1>1, <3>2
  <2>2. ASSUME NEW i \in 1..n, i - 1 \in S PROVE i \in S
    <3>1. Good(i - 1) /\ i - 1 \in 0..n /\ i \in 0..n
      BY <2>2
    <3> DEFINE c == changes[i]
               before == f[i - 1]
               old == h[i - 1]
               d == paired[i]
    <3>2. /\ before \in Rooms /\ c \in Changes(before) /\ Made(before, c) # before
          /\ old \in Views /\ Tracks(old, before) /\ ReadAs(d, c, key)
          /\ f[i] = Made(before, c) /\ h[i] = Applied(old, d)
      BY <1>2, <1>3, <1>4, <1>5, <1>7, <3>1 DEF ReadAs
    <3>3. ShownTo(i - 1) => old.key = before.key
      BY <3>1
    <3> HIDE DEF c, before, old, d
    <3>4. /\ h[i] \in Views /\ Tracks(h[i], f[i])
          /\ c.mode # "k" => h[i].key = old.key /\ f[i].key = before.key
          /\ c.mode = "k" /\ (f[i].key = NoArg \/ key # "hidden") => h[i].key = f[i].key
      <4>1. Follows(Applied(old, d), Made(before, c), old, before, c, key)
        BY <3>2, AppliedTracks
      <4>2. Follows(h[i], f[i], old, before, c, key)
        BY <3>2, <4>1
      <4> QED BY <4>2 DEF Follows
    <3>5. ASSUME ShownTo(i) PROVE h[i].key = f[i].key
      <4>1. CASE c.mode = "k"
        <5>1. \E j \in 1..i : changes[j].mode = "k"
          BY <4>1 DEF c
        <5>2. f[i].key = NoArg \/ key # "hidden"
          BY <3>5, <5>1
        <5> QED BY <3>4, <4>1, <5>2
      <4>2. CASE c.mode # "k"
        <5>1. (\E j \in 1..i : changes[j].mode = "k") <=> \E j \in 1 .. i - 1 : changes[j].mode = "k"
          <6>1. \A j \in 1..i : j \in 1 .. i - 1 \/ j = i
            OBVIOUS
          <6>2. \A j \in 1 .. i - 1 : j \in 1..i
            OBVIOUS
          <6> QED BY <4>2, <6>1, <6>2 DEF c
        <5>2. f[i].key = f[i - 1].key
          BY <3>4, <4>2 DEF before
        <5>3. ShownTo(i - 1)
          BY <3>5, <5>1, <5>2
        <5> QED BY <3>3, <3>4, <4>2, <5>3
      <4> QED BY <4>1, <4>2
    <3>6. Good(i)
      BY <3>4, <3>5
    <3> HIDE DEF Good
    <3> QED BY <3>1, <3>6
  <2> HIDE DEF S
  <2> QED BY <1>1, <2>1, <2>2, Upward
<1>10. Good(n) /\ f[n] \in Rooms
  <2>1. n \in 0..n
    BY <1>1
  <2> HIDE DEF Good
  <2> QED BY <1>5, <1>9, <2>1
<1> QED BY <1>1, <1>6, <1>8, <1>10

-----------------------------------------------------------------------------
(* ModeLines: the reply *)

\* The changes of a 324 reply are those that lead from nothing to the channel.
LEMMA ReplyChanges ==
  ASSUME prefix \in Advertised, room \in Rooms
  PROVE  /\ AllModes \in Seq(ChangeRecords)
         /\ \A i \in DOMAIN AllModes :
              \/ "t" \in room.flags /\ AllModes[i] = Change(TRUE, "t", NoArg)
              \/ room.key # NoArg /\ AllModes[i] = Change(TRUE, "k", room.key)
              \/ room.limit # NoArg /\ AllModes[i] = Change(TRUE, "l", room.limit)
         /\ "t" \in room.flags => \E i \in DOMAIN AllModes : AllModes[i] = Change(TRUE, "t", NoArg)
         /\ room.key # NoArg =>
              \E i \in DOMAIN AllModes : AllModes[i] = Change(TRUE, "k", room.key)
         /\ room.limit # NoArg =>
              \E i \in DOMAIN AllModes : AllModes[i] = Change(TRUE, "l", room.limit)
         /\ \A i, j \in DOMAIN AllModes : AllModes[i].mode = "k" /\ AllModes[j].mode = "k" => i = j
<1> DEFINE t == Change(TRUE, "t", NoArg)
           k == Change(TRUE, "k", room.key)
           l == Change(TRUE, "l", room.limit)
           p == IF "t" \in room.flags THEN <<t>> ELSE <<>>
           q == IF room.key # NoArg THEN <<k>> ELSE <<>>
           s == IF room.limit # NoArg THEN <<l>> ELSE <<>>
           pq == p \o q
<1>1. room.key \in Keys \union {NoArg} /\ room.limit \in Limits \union {NoArg}
  BY DEF Rooms
<1>2. t \in ChangeRecords /\ k \in ChangeRecords /\ l \in ChangeRecords
  BY <1>1 DEF Change, ChangeRecords
<1>3. t.mode = "t" /\ k.mode = "k" /\ l.mode = "l"
  BY DEF Change
<1>4. AllModes = pq \o s
  BY DEF AllModes
<1> HIDE DEF t, k, l
<1>5. /\ p \in Seq(ChangeRecords) /\ Len(p) = (IF "t" \in room.flags THEN 1 ELSE 0)
      /\ "t" \in room.flags => p[1] = t
  BY <1>2
<1>6. /\ q \in Seq(ChangeRecords) /\ Len(q) = (IF room.key # NoArg THEN 1 ELSE 0)
      /\ room.key # NoArg => q[1] = k
  BY <1>2
<1>7. /\ s \in Seq(ChangeRecords) /\ Len(s) = (IF room.limit # NoArg THEN 1 ELSE 0)
      /\ room.limit # NoArg => s[1] = l
  BY <1>2
<1> HIDE DEF p, q, s
<1>8. /\ pq \in Seq(ChangeRecords) /\ Len(pq) = Len(p) + Len(q)
      /\ \A i \in 1 .. Len(p) : pq[i] = p[i]
      /\ \A i \in 1 .. Len(q) : pq[Len(p) + i] = q[i]
  BY <1>5, <1>6, CatFacts
<1> HIDE DEF pq
<1> DEFINE all == pq \o s
<1>9. /\ all \in Seq(ChangeRecords) /\ DOMAIN all = 1 .. Len(pq) + Len(s)
      /\ \A i \in 1 .. Len(pq) : all[i] = pq[i]
      /\ \A i \in 1 .. Len(s) : all[Len(pq) + i] = s[i]
  <2>1. pq \in Seq(ChangeRecords) /\ s \in Seq(ChangeRecords)
    BY <1>7, <1>8
  <2> QED BY <2>1, CatFacts
<1> HIDE DEF all
<1> DEFINE a == Len(p)
           b == Len(q)
           c == Len(s)
<1>10. a \in {0, 1} /\ b \in {0, 1} /\ c \in {0, 1}
  BY <1>5, <1>6, <1>7
<1>11. \A i \in 1 .. a : i = 1 /\ a = 1
  <2> HIDE DEF a
  <2> QED BY <1>10
<1>12. \A i \in 1 .. b : i = 1 /\ b = 1
  <2> HIDE DEF b
  <2> QED BY <1>10
<1>13. ASSUME NEW i \in 1 .. a PROVE i \in DOMAIN all /\ all[i] = t /\ "t" \in room.flags
  <2>1. i = 1 /\ a = 1
    BY <1>11
  <2>2. i \in 1 .. Len(pq) /\ i \in 1 .. Len(pq) + c
    BY <1>8, <1>10, <2>1
  <2> QED BY <1>5, <1>8, <1>9, <2>1, <2>2
<1>14. ASSUME NEW i \in 1 .. b
       PROVE  a + i \in DOMAIN all /\ all[a + i] = k /\ room.key # NoArg
  <2>1. i = 1 /\ b = 1
    BY <1>12
  <2>2. a + i \in 1 .. Len(pq) /\ a + i \in 1 .. Len(pq) + c
    BY <1>8, <1>10, <2>1
  <2>3. all[a + i] = pq[a + i] /\ pq[a + i] = q[i]
    BY <1>8, <1>9, <2>2
  <2> QED BY <1>6, <1>9, <2>1, <2>2, <2>3
<1>15. ASSUME NEW i \in 1 .. c
       PROVE  a + b + i \in DOMAIN all /\ all[a + b + i] = l /\ room.limit # NoArg
  <2>1. i = 1 /\ c = 1
    BY <1>10
  <2>2. Len(pq) + i = a + b + i /\ a + b + i \in 1 .. Len(pq) + c
    BY <1>8, <1>10, <2>1
  <2> QED BY <1>7, <1>9, <2>1, <2>2
<1>16. ASSUME NEW i \in DOMAIN all
       PROVE  (\E j \in 1 .. a : i = j) \/ (\E j \in 1 .. b : i = a + j) \/ (\E j \in 1 .. c : i = a + b + j)
  <2>1. i \in 1 .. a + b + c
    BY <1>8, <1>9
  <2> HIDE DEF a, b, c
  <2>2. CASE i <= a
    BY <1>10, <2>1, <2>2
  <2>3. CASE i > a /\ i <= a + b
    <3>1. i - a \in 1 .. b /\ i = a + (i - a)
      BY <1>10, <2>1, <2>3
    <3> QED BY <3>1
  <2>4. CASE i > a + b
    <3>1. i - (a + b) \in 1 .. c /\ i = a + b + (i - (a + b))
      BY <1>10, <2>1, <2>4
    <3> QED BY <3>1
  <2>5. i <= a \/ (i > a /\ i <= a + b) \/ i > a + b
    BY <1>10, <2>1
  <2> QED BY <2>2, <2>3, <2>4, <2>5
<1>17. ASSUME NEW i \in DOMAIN all, all[i].mode = "k" PROVE i = a + 1
  <2>1. CASE \E j \in 1 .. a : i = j
    BY <1>3, <1>13, <1>17, <2>1
  <2>2. CASE \E j \in 1 .. b : i = a + j
    <3>1. \A j \in 1 .. b : j = 1
      BY <1>10
    <3> QED BY <2>2, <3>1
  <2>3. CASE \E j \in 1 .. c : i = a + b + j
    BY <1>3, <1>15, <1>17, <2>3
  <2> QED BY <1>16, <2>1, <2>2, <2>3
<1>18. /\ "t" \in room.flags => 1 \in 1 .. a
       /\ room.key # NoArg => 1 \in 1 .. b
       /\ room.limit # NoArg => 1 \in 1 .. c
  BY <1>5, <1>6, <1>7
<1> HIDE DEF a, b, c
<1>19. \A i \in DOMAIN all : \/ "t" \in room.flags /\ all[i] = t
                             \/ room.key # NoArg /\ all[i] = k
                             \/ room.limit # NoArg /\ all[i] = l
  BY <1>13, <1>14, <1>15, <1>16
<1>20. /\ "t" \in room.flags => \E i \in DOMAIN all : all[i] = t
       /\ room.key # NoArg => \E i \in DOMAIN all : all[i] = k
       /\ room.limit # NoArg => \E i \in DOMAIN all : all[i] = l
  BY <1>13, <1>14, <1>15, <1>18
<1>21. AllModes = all
  BY <1>4 DEF all
<1> HIDE DEF all
<1> QED BY <1>9, <1>17, <1>19, <1>20, <1>21 DEF t, k, l

\* A bot that handles the reply still knows the channel.
LEMMA ReplyTracks ==
  ASSUME prefix \in Advertised, room \in Rooms, view \in Views, sure \in BOOLEAN,
         Tracks(view, room), sure => view.key = room.key,
         NEW key \in {"plain", "hidden"}, HandleModeReply(key)
  PROVE  /\ view' \in Views /\ Tracks(view', room)
         /\ sure' \in BOOLEAN /\ (sure' => view'.key = room.key)
<1> DEFINE n == Len(AllModes)
           changes == Paired(AllModes, Shown(AllModes, key))
           shownKey == IF key = "hidden" THEN Hidden ELSE room.key
           modes == {changes[i].mode : i \in DOMAIN changes}
           args(mode) == {changes[i].arg : i \in {i \in DOMAIN changes : changes[i].mode = mode}}
           only(set) == IF set = {} THEN NoArg ELSE CHOOSE x \in set : TRUE
<1>1. /\ room.flags \in SUBSET {"t"} /\ room.key \in Keys \union {NoArg}
      /\ room.limit \in Limits \union {NoArg}
      /\ view.bans = room.bans /\ view.ranks = {x \in room.ranks : x[2] \in Operators}
  BY DEF Rooms, Tracks
<1>2. /\ \A x \in {"b", "k", "l", "t"} : x \notin Ranks
      /\ NoArg \notin Keys /\ NoArg \notin Limits /\ Hidden \notin Keys /\ NoArg # Hidden
  BY RanksApart
<1>3. /\ AllModes \in Seq(ChangeRecords)
      /\ \A i \in DOMAIN AllModes :
           \/ "t" \in room.flags /\ AllModes[i] = Change(TRUE, "t", NoArg)
           \/ room.key # NoArg /\ AllModes[i] = Change(TRUE, "k", room.key)
           \/ room.limit # NoArg /\ AllModes[i] = Change(TRUE, "l", room.limit)
      /\ "t" \in room.flags => \E i \in DOMAIN AllModes : AllModes[i] = Change(TRUE, "t", NoArg)
      /\ room.key # NoArg => \E i \in DOMAIN AllModes : AllModes[i] = Change(TRUE, "k", room.key)
      /\ room.limit # NoArg =>
           \E i \in DOMAIN AllModes : AllModes[i] = Change(TRUE, "l", room.limit)
      /\ \A i, j \in DOMAIN AllModes : AllModes[i].mode = "k" /\ AllModes[j].mode = "k" => i = j
  BY ReplyChanges
<1>4. n \in Nat /\ DOMAIN AllModes = 1..n
  BY <1>3
<1>5. Regular(AllModes)
  <2>1. ASSUME NEW i \in DOMAIN AllModes
        PROVE  AllModes[i].arg # NoArg <=> RequiresArgument(AllModes[i])
    BY <1>2, <1>3 DEF Change, RequiresArgument
  <2> QED BY <1>3, <2>1 DEF Regular
<1>6. /\ DOMAIN changes = 1..n
      /\ \A i \in 1..n : changes[i] = [AllModes[i] EXCEPT !.arg = ShownArg(AllModes[i], key)]
  BY <1>3, <1>5, PairedShown
<1> HIDE DEF changes
<1>7. ASSUME NEW i \in 1..n
      PROVE  changes[i].mode = AllModes[i].mode /\ changes[i].arg = ShownArg(AllModes[i], key)
  BY <1>3, <1>4, <1>6 DEF Change
<1>8. ASSUME NEW i \in 1..n
      PROVE  \/ "t" \in room.flags /\ changes[i].mode = "t"
             \/ room.key # NoArg /\ changes[i].mode = "k" /\ changes[i].arg = shownKey
             \/ room.limit # NoArg /\ changes[i].mode = "l" /\ changes[i].arg = room.limit
  BY <1>3, <1>4, <1>7 DEF Change, ShownArg
<1>9. /\ "t" \in room.flags => \E i \in 1..n : changes[i].mode = "t"
      /\ room.key # NoArg => \E i \in 1..n : changes[i].mode = "k"
      /\ room.limit # NoArg => \E i \in 1..n : changes[i].mode = "l"
  BY <1>3, <1>4, <1>7 DEF Change
<1>10. modes = room.flags \union {x \in {"k"} : room.key # NoArg}
                          \union {x \in {"l"} : room.limit # NoArg}
  BY <1>1, <1>6, <1>8, <1>9
<1>11. args("l") = IF room.limit # NoArg THEN {room.limit} ELSE {}
  BY <1>6, <1>8, <1>9
<1>12. args("k") = IF room.key # NoArg THEN {shownKey} ELSE {}
  BY <1>6, <1>8, <1>9
<1>13. only(args("l")) = room.limit
  <2> HIDE DEF args
  <2> QED BY <1>11
<1>14. room.key = NoArg => args("k") # {Hidden} /\ only(args("k")) = NoArg
  <2> HIDE DEF args
  <2> QED BY <1>12
<1>15. room.key # NoArg => /\ args("k") = {Hidden} <=> key = "hidden"
                           /\ key # "hidden" => only(args("k")) = room.key
  <2> HIDE DEF args
  <2> QED BY <1>1, <1>2, <1>12
<1>16. /\ view' = [view EXCEPT !.letters = modes, !.limit = only(args("l")),
                               !.key = IF args("k") = {Hidden} THEN view.key ELSE only(args("k"))]
       /\ sure' = (sure \/ room.key = NoArg \/ key # "hidden")
  BY DEF HandleModeReply, changes
<1> HIDE DEF modes, args, only
<1>17. /\ view' \in [letters : {view'.letters}, key : {view'.key}, limit : {view'.limit},
                     bans : {view'.bans}, ranks : {view'.ranks}]
       /\ view'.letters = modes /\ view'.limit = only(args("l"))
       /\ view'.key = (IF args("k") = {Hidden} THEN view.key ELSE only(args("k")))
       /\ view'.bans = view.bans /\ view'.ranks = view.ranks
  BY <1>16 DEF Views
<1>18. view'.key \in Keys \union {NoArg}
  BY <1>1, <1>14, <1>15, <1>17 DEF Views
<1>19. view' \in Views
  <2>1. modes \in SUBSET {"k", "l", "t"}
    BY <1>1, <1>10
  <2> QED BY <1>1, <1>13, <1>17, <1>18, <2>1 DEF Views
<1>20. Tracks(view', room)
  BY <1>1, <1>10, <1>13, <1>17 DEF Tracks
<1>21. sure' \in BOOLEAN /\ (sure' => view'.key = room.key)
  BY <1>14, <1>15, <1>16, <1>17
<1> QED BY <1>19, <1>20, <1>21

-----------------------------------------------------------------------------
(* ModeLines: the invariant *)

\* PREFIX stays, and what a bot and the server take from it.
LEMMA InvAfter ==
  ASSUME prefix \in Advertised, prefix' = prefix,
         room' \in Rooms, view' \in Views, sure' \in BOOLEAN, line' \in Seq(ChangeRecords),
         \A i, j \in DOMAIN line' : line'[i].mode = "k" /\ line'[j].mode = "k" => i = j,
         NEW start \in Rooms, Tracks(view', start), sure' => view'.key = start.key,
         LeadsOn(start, line'), Along(start, line')[Len(line')] = room'
  PROVE  ModesInv'
<1>1. Ranks' = Ranks
  BY DEF Ranks
<1>2. Operators' = Operators
  BY DEF Operators
<1>3. Rooms' = Rooms /\ Views' = Views /\ ChangeRecords' = ChangeRecords
  BY <1>1 DEF Rooms, Views, ChangeRecords
<1>4. Tracks(view, start)'
  BY <1>2 DEF Tracks
<1>5. ASSUME NEW r PROVE Changes(r)' = Changes(r)
  <2> DEFINE fixed == {Change(adding, "t", NoArg) : adding \in BOOLEAN}
                       \union {Change(TRUE, "k", key) : key \in Keys} \union {Change(FALSE, "k", r.key)}
                       \union {Change(TRUE, "l", limit) : limit \in Limits} \union {Change(FALSE, "l", NoArg)}
                       \union {Change(adding, "b", mask) : adding \in BOOLEAN, mask \in Masks}
             ranked(ranks) ==
               {Change(adding, rank, who) : adding \in BOOLEAN, rank \in ranks, who \in Members}
  <2>1. Changes(r) = fixed \union ranked(Ranks)
    BY DEF Changes
  <2>2. Changes(r)' = fixed \union ranked(Ranks')
    BY DEF Changes
  <2> HIDE DEF fixed, ranked
  <2> QED BY <1>1, <2>1, <2>2
<1>6. ASSUME NEW i \in DOMAIN line'
      PROVE  /\ line'[i] \in Changes(Along(start, line)[i - 1])'
             /\ Along(start, line')[i] # Along(start, line')[i - 1]
  <2> DEFINE r == Along(start, line')[i - 1]
  <2>1. line'[i] \in Changes(r) /\ Along(start, line')[i] # r
    BY DEF LeadsOn
  <2>2. Changes(Along(start, line)[i - 1])' = Changes(r)
    BY <1>5
  <2> QED BY <2>1, <2>2
<1> QED BY <1>3, <1>4, <1>6 DEF ModesInv

LEMMA EmptyLine ==
  ASSUME NEW start
  PROVE  /\ Along(start, <<>>)[Len(<<>>)] = start /\ LeadsOn(start, <<>>)
         /\ Len(<<>>) = 0 /\ DOMAIN <<>> = {}
<1>1. Len(<<>>) = 0 /\ DOMAIN <<>> = {}
  OBVIOUS
<1>2. Along(start, <<>>)[0] = start
  <2>1. Len(<<>>) \in Nat
    BY <1>1
  <2> QED BY <2>1, AlongByStep
<1> QED BY <1>1, <1>2 DEF LeadsOn

LEMMA ModesInitially == ModesInit => ModesInv
<1>1. SUFFICES ASSUME ModesInit PROVE ModesInv
  OBVIOUS
<1>2. /\ prefix \in Advertised /\ room = EmptyRoom /\ line = <<>> /\ view = EmptyView
      /\ sure = TRUE
  BY <1>1 DEF ModesInit
<1>3. room \in Rooms /\ view \in Views /\ line \in Seq(ChangeRecords) /\ sure \in BOOLEAN
  BY <1>2 DEF EmptyRoom, EmptyView, Rooms, Views
<1>4. Tracks(view, room) /\ view.key = room.key
  BY <1>2 DEF EmptyRoom, EmptyView, Tracks
<1>5. Along(room, line)[Len(line)] = room /\ DOMAIN line = {}
  BY <1>2, EmptyLine
<1> QED BY <1>2, <1>3, <1>4, <1>5 DEF ModesInv

\* What the invariant says of the channel as the bot knows it.
LEMMA InvStart ==
  ASSUME ModesInv
  PROVE  \E start \in Rooms :
           /\ Tracks(view, start) /\ (sure => view.key = start.key)
           /\ LeadsOn(start, line) /\ Along(start, line)[Len(line)] = room
  BY DEF ModesInv, LeadsOn

LEMMA MakeKeeps ==
  ASSUME ModesInv, NEW c \in Changes(room), Make(c)
  PROVE  ModesInv'
<1>1. /\ prefix' = prefix /\ view' = view /\ sure' = sure
      /\ room' = Made(room, c) /\ line' = Append(line, c) /\ Made(room, c) # room
      /\ c.mode = "k" => \A i \in DOMAIN line : line[i].mode # "k"
  BY DEF Make
<1>2. /\ prefix \in Advertised /\ room \in Rooms /\ view \in Views /\ sure \in BOOLEAN
      /\ line \in Seq(ChangeRecords)
      /\ \A i, j \in DOMAIN line : line[i].mode = "k" /\ line[j].mode = "k" => i = j
  BY DEF ModesInv
<1>3. c \in ChangeRecords /\ Made(room, c) \in Rooms
  BY <1>1, <1>2, ChangeFacts
<1>4. PICK start \in Rooms :
        /\ Tracks(view, start) /\ (sure => view.key = start.key)
        /\ LeadsOn(start, line) /\ Along(start, line)[Len(line)] = room
  BY InvStart
<1> DEFINE n == Len(line)
           q == Append(line, c)
           f == Along(start, line)
           g == Along(start, q)
<1>5. /\ n \in Nat /\ DOMAIN line = 1..n /\ q \in Seq(ChangeRecords) /\ Len(q) = n + 1
      /\ DOMAIN q = 1 .. n + 1 /\ q[n + 1] = c /\ \A i \in 1..n : q[i] = line[i]
  BY <1>2, <1>3
<1>6. (\A i \in 0..n : g[i] = f[i]) /\ g[n + 1] = Made(f[n], c)
  BY <1>2, <1>3, AlongAppend
<1>7. f[n] = room /\ \A i \in 1..n : line[i] \in Changes(f[i - 1]) /\ f[i] # f[i - 1]
  BY <1>4, <1>5 DEF LeadsOn
<1>8. line' = q
  BY <1>1
<1> HIDE DEF n, f, g, q
<1>9. ASSUME NEW i \in 1 .. n + 1
      PROVE  q[i] \in Changes(g[i - 1]) /\ g[i] # g[i - 1]
  <2>1. CASE i = n + 1
    <3>1. (n + 1) - 1 = n /\ n \in 0..n
      BY <1>5
    <3>2. g[n] = room
      BY <1>6, <1>7, <3>1
    <3> QED BY <1>1, <1>5, <1>6, <1>7, <2>1, <3>1, <3>2
  <2>2. CASE i # n + 1
    <3>1. i \in 1..n /\ i \in 0..n /\ i - 1 \in 0..n
      BY <1>5, <2>2
    <3> QED BY <1>5, <1>6, <1>7, <3>1
  <2> QED BY <2>1, <2>2
<1>10. LeadsOn(start, q)
  BY <1>5, <1>9 DEF LeadsOn, g
<1>11. Along(start, q)[Len(q)] = room'
  BY <1>1, <1>5, <1>6, <1>7 DEF g
<1>12. \A i, j \in 1 .. n + 1 : q[i].mode = "k" /\ q[j].mode = "k" => i = j
  <2>1. \A i \in 1 .. n + 1 : i \in 1..n \/ i = n + 1
    BY <1>5
  <2> QED BY <1>1, <1>2, <1>5, <2>1
<1> QED BY <1>1, <1>2, <1>3, <1>4, <1>5, <1>8, <1>10, <1>11, <1>12, InvAfter

LEMMA LineKeeps ==
  ASSUME ModesInv, NEW key, HandleModeLine(key)
  PROVE  ModesInv'
<1>1. /\ prefix' = prefix /\ room' = room /\ line' = <<>>
      /\ view' = AppliedInTurn(view, Paired(line, Shown(line, key)))
      /\ sure' = IF \E i \in DOMAIN line : line[i].mode = "k"
                   THEN room.key = NoArg \/ key # "hidden" ELSE sure
  BY DEF HandleModeLine
<1>2. /\ prefix \in Advertised /\ room \in Rooms /\ view \in Views /\ sure \in BOOLEAN
      /\ line \in Seq(ChangeRecords)
      /\ \A i, j \in DOMAIN line : line[i].mode = "k" /\ line[j].mode = "k" => i = j
  BY DEF ModesInv
<1>3. PICK start \in Rooms :
        /\ Tracks(view, start) /\ (sure => view.key = start.key)
        /\ LeadsOn(start, line) /\ Along(start, line)[Len(line)] = room
  BY InvStart
<1>4. Regular(line)
  BY <1>2, <1>3, LeadsFacts DEF Regular
<1>5. /\ view' \in Views /\ Tracks(view', room)
      /\ (IF \E i \in DOMAIN line : line[i].mode = "k"
            THEN room.key = NoArg \/ key # "hidden" ELSE sure) => view'.key = room.key
  BY <1>1, <1>2, <1>3, <1>4, LineTracks
<1>6. sure' \in BOOLEAN /\ (sure' => view'.key = room.key)
  BY <1>1, <1>2, <1>5
<1>7. /\ Along(room, <<>>)[Len(<<>>)] = room /\ LeadsOn(room, <<>>) /\ DOMAIN <<>> = {}
      /\ <<>> \in Seq(ChangeRecords)
  BY EmptyLine
<1> QED BY <1>1, <1>2, <1>5, <1>6, <1>7, InvAfter

LEMMA ReplyKeeps ==
  ASSUME ModesInv, NEW key \in {"plain", "hidden"}, HandleModeReply(key)
  PROVE  ModesInv'
<1>1. prefix' = prefix /\ room' = room /\ line = <<>> /\ line' = line
  BY DEF HandleModeReply
<1>2. prefix \in Advertised /\ room \in Rooms /\ view \in Views /\ sure \in BOOLEAN
  BY DEF ModesInv
<1>3. /\ Along(room, <<>>)[Len(<<>>)] = room /\ LeadsOn(room, <<>>) /\ DOMAIN <<>> = {}
      /\ <<>> \in Seq(ChangeRecords)
  BY EmptyLine
<1>4. Tracks(view, room) /\ (sure => view.key = room.key)
  <2>1. PICK start \in Rooms :
          /\ Tracks(view, start) /\ (sure => view.key = start.key)
          /\ LeadsOn(start, line) /\ Along(start, line)[Len(line)] = room
    BY InvStart
  <2>2. start = room
    BY <1>1, <2>1, EmptyLine
  <2> QED BY <2>1, <2>2
<1>5. /\ view' \in Views /\ Tracks(view', room)
      /\ sure' \in BOOLEAN /\ (sure' => view'.key = room.key)
  BY <1>2, <1>4, ReplyTracks
<1> QED BY <1>1, <1>2, <1>3, <1>5, InvAfter

\* ModesInv holds in every state: a bot knows each channel as it was before the changes it has
\* not been shown, and those changes lead from there to the channel as it is.
THEOREM ModesInductive == ModesSpec => []ModesInv
<1>1. ModesInv /\ [ModesNext]_modeVars => ModesInv'
  <2>1. SUFFICES ASSUME ModesInv, [ModesNext]_modeVars PROVE ModesInv'
    OBVIOUS
  <2>2. CASE \E c \in Changes(room) : Make(c)
    BY <2>1, <2>2, MakeKeeps
  <2>3. CASE \E key \in {"plain", "hidden", "stripped"} : HandleModeLine(key)
    BY <2>1, <2>3, LineKeeps
  <2>4. CASE \E key \in {"plain", "hidden"} : HandleModeReply(key)
    BY <2>1, <2>4, ReplyKeeps
  <2>5. CASE UNCHANGED modeVars
    <3>1. prefix' = prefix /\ room' = room /\ line' = line /\ view' = view /\ sure' = sure
      BY <2>5 DEF modeVars
    <3>2. PICK start \in Rooms :
            /\ Tracks(view, start) /\ (sure => view.key = start.key)
            /\ LeadsOn(start, line) /\ Along(start, line)[Len(line)] = room
      BY <2>1, InvStart
    <3>3. /\ prefix \in Advertised /\ room \in Rooms /\ view \in Views /\ sure \in BOOLEAN
          /\ line \in Seq(ChangeRecords)
          /\ \A i, j \in DOMAIN line : line[i].mode = "k" /\ line[j].mode = "k" => i = j
      BY <2>1 DEF ModesInv
    <3> QED BY <3>1, <3>2, <3>3, InvAfter
  <2> QED BY <2>1, <2>2, <2>3, <2>4, <2>5 DEF ModesNext
<1> QED BY <1>1, ModesInitially, PTL DEF ModesSpec

\* However a server groups changes of modes into lines, and whether or not it shows the key, a bot
\* that has handled every line has the modes, limit, bans and operators of the channel, and the
\* key unless it was hidden: mode_requires_argument and iter_mode_changes give each change its own
\* argument, and the 324 reply corrects nothing that was right.
THEOREM ModesTrackedHolds == ModesSpec => []ModesTracked
<1>1. ModesInv => ModesTracked
  <2>1. SUFFICES ASSUME ModesInv, line = <<>>
                 PROVE  Tracks(view, room) /\ (sure => view.key = room.key)
    BY DEF ModesTracked
  <2>2. PICK start \in Rooms :
          /\ Tracks(view, start) /\ (sure => view.key = start.key)
          /\ LeadsOn(start, line) /\ Along(start, line)[Len(line)] = room
    BY <2>1, InvStart
  <2>3. start = room
    BY <2>1, <2>2, EmptyLine
  <2> QED BY <2>2, <2>3
<1> QED BY <1>1, ModesInductive, PTL

=============================================================================
