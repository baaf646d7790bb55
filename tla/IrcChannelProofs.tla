---------------------------- MODULE IrcChannelProofs ----------------------------
(***************************************************************************)
(* What holds of IrcChannel for any finite set of bots and any budgets.       *)
(*                                                                         *)
(* A bot knows what it has read; what it is about to know is settled by the   *)
(* lines it has not read.  So the invariant follows the bot's view through    *)
(* its inbox, line by line, and says that it ends at the channel as it is.    *)
(***************************************************************************)
EXTENDS IrcChannel, FiniteSetTheorems, SequenceTheorems, TLAPS

USE BotsAssumption, BudgetsAssumption

-----------------------------------------------------------------------------
(* Types *)

Limits == 0 .. Cardinality(Bots)
Snapshots == {"NAMES", "WHO", "MODES"}

Channels ==
  {ch \in [in : SUBSET Bots, ops : SUBSET Bots, bans : SUBSET Bots, invited : SUBSET Bots,
           limit : Limits, inviteOnly : BOOLEAN, topic : BOOLEAN] : ch.ops \subseteq ch.in}

Nicks == [cmd : Commands \ (Snapshots \union {"+l"}), arg : Bots]
Lines == Nicks \union [cmd : {"+l"}, arg : Limits] \union [cmd : Snapshots, arg : Channels]

BotStates(records) ==
  [link : {"down", "up"}, rec : 0..records, desired : BOOLEAN, part : BOOLEAN,
   join : {"idle", "joining", "joined"}, members : SUBSET Bots, ops : SUBSET Bots,
   prefixed : SUBSET Bots, bans : SUBSET Bots, limit : Limits, tasks : SUBSET Tasks]

\* Only members have modes and hosts, and only a bot that wants to be in believes it is.
Tidy(m) ==
  /\ m.ops \union m.prefixed \subseteq m.members
  /\ m.join = "joined" => m.desired

-----------------------------------------------------------------------------
(* The view of a bot, and what a line makes of it *)

Views ==
  [join : {"idle", "joined"}, members : SUBSET Bots, ops : SUBSET Bots,
   prefixed : SUBSET Bots, bans : SUBSET Bots, limit : Limits]

Outside == [join |-> "idle", members |-> {}, ops |-> {}, prefixed |-> {}, bans |-> {},
            limit |-> 0]

Entered(b) == [join |-> "joined", members |-> {b}, ops |-> {}, prefixed |-> {b},
               bans |-> {}, limit |-> 0]

\* What a bot believes of a channel it does not take itself to be in does not count.
View(m) ==
  IF m.join = "joined"
    THEN [join |-> "joined", members |-> m.members, ops |-> m.ops, prefixed |-> m.prefixed,
          bans |-> m.bans, limit |-> m.limit]
    ELSE Outside

\* A line read by b while it is in.
Inside(b, v, line) ==
  CASE line.cmd = "JOIN" -> [Seen(v, {line.arg}) EXCEPT !.prefixed = @ \union {line.arg}]
    [] line.cmd \in {"PART", "QUIT", "KICK"} ->
         IF line.arg = b THEN Outside ELSE Forget(v, line.arg)
    [] line.cmd = "NAMES" -> Listed(v, line.arg)
    [] line.cmd = "WHO" ->
         [Listed(v, line.arg) EXCEPT !.prefixed = @ \union line.arg.in,
            !.bans = @ \union line.arg.bans, !.limit = line.arg.limit]
    [] line.cmd = "MODES" -> [v EXCEPT !.limit = line.arg.limit]
    [] OTHER -> Applied(v, line.cmd, line.arg)

NextView(b, v, line) ==
  IF line = Line("JOIN", b) THEN Entered(b)
  ELSE IF v.join = "joined" THEN Inside(b, v, line) ELSE Outside

\* What is known of the channel at once, and what is known after a WHO at the latest.
Follows(b, v, ch) ==
  v.join = "joined" =>
    /\ b \in ch.in /\ v.members = ch.in /\ v.ops = ch.ops
    /\ v.prefixed \subseteq ch.in /\ v.bans \subseteq ch.bans

Complete(v, ch) == v.prefixed = ch.in /\ v.bans = ch.bans /\ v.limit = ch.limit

\* The names of b's present stay are unread: a WHO will follow.
AwaitsWho(b, q) ==
  \E i \in 1..Len(q) : q[i].cmd = "NAMES" /\ \A j \in i..Len(q) : q[j] # Line("JOIN", b)

\* The view that b has after the lines of q.
Arrives(b, q, v, ch) ==
  /\ Follows(b, v, ch)
  /\ v.join = "joined" /\ "WHO" \notin Droppable => Complete(v, ch) \/ AwaitsWho(b, q)

Trail(b, q, f) ==
  /\ f \in [0..Len(q) -> Views]
  /\ \A i \in 1..Len(q) : f[i] = NextView(b, f[i - 1], q[i])

\* From view v the lines of q lead to the channel ch.
Leads(b, q, v, ch) == \E f : Trail(b, q, f) /\ f[0] = v /\ Arrives(b, q, f[Len(q)], ch)

ChannelInv ==
  /\ budget \in [mesh : SUBSET Bots, settled : BOOLEAN, kinds : SUBSET Disturbances,
                 left : [Faults -> Nat]]
  /\ intent \in Nat
  /\ asks \subseteq Asks
  /\ chan \in Channels
  /\ inbox \in [Bots -> Seq(Lines)]
  /\ me \in [Bots -> BotStates(intent)]
  /\ \A b \in Bots :
       /\ Tidy(me[b])
       /\ b \in chan.in => me[b].link = "up"
       /\ Leads(b, inbox[b], View(me[b]), chan)

LEMMA LimitsAreNumbers == Limits \subseteq Nat /\ 0 \in Limits
  BY FS_CardinalityType DEF Limits

\* What the argument of a line is.
LEMMA LineKinds ==
  ASSUME NEW line \in Lines
  PROVE  /\ line.cmd \in Commands
         /\ line.cmd \in Snapshots => line.arg \in Channels
         /\ line.cmd = "+l" => line.arg \in Limits
         /\ line.cmd \notin Snapshots \union {"+l"} => line.arg \in Bots
<1>1. CASE line \in Nicks
  BY <1>1 DEF Nicks, Snapshots
<1>2. CASE line \in [cmd : {"+l"}, arg : Limits]
  BY <1>2 DEF Snapshots, Commands, Disturbances
<1>3. CASE line \in [cmd : Snapshots, arg : Channels]
  BY <1>3 DEF Snapshots, Commands
<1> QED BY <1>1, <1>2, <1>3 DEF Lines

LEMMA ChannelParts ==
  ASSUME NEW ch \in Channels
  PROVE  /\ ch.in \in SUBSET Bots /\ ch.ops \in SUBSET Bots /\ ch.bans \in SUBSET Bots
         /\ ch.invited \in SUBSET Bots /\ ch.limit \in Limits
         /\ ch.inviteOnly \in BOOLEAN /\ ch.topic \in BOOLEAN
         /\ ch.ops \subseteq ch.in
  BY DEF Channels

LEMMA ViewValues ==
  /\ Outside \in Views
  /\ \A b \in Bots : Entered(b) \in Views
  /\ \A n \in Nat : \A m \in BotStates(n) : View(m) \in Views
<1>1. Outside \in Views
  BY LimitsAreNumbers DEF Outside, Views
<1>2. \A b \in Bots : Entered(b) \in Views
  BY LimitsAreNumbers DEF Entered, Views
<1>3. ASSUME NEW n \in Nat, NEW m \in BotStates(n) PROVE View(m) \in Views
  BY <1>1 DEF View, Views, BotStates
<1> QED BY <1>1, <1>2, <1>3

LEMMA InsideTyped ==
  ASSUME NEW b \in Bots, NEW v \in Views, NEW line \in Lines
  PROVE  Inside(b, v, line) \in Views
<1>1. CASE line.cmd = "JOIN"
  <2>1. line.arg \in Bots
    BY <1>1, LineKinds DEF Snapshots
  <2> QED BY <1>1, <2>1 DEF Inside, Seen, Views
<1>2. CASE line.cmd \in {"PART", "QUIT", "KICK"}
  <2>1. line.arg \in Bots /\ Inside(b, v, line) \in {Outside, Forget(v, line.arg)}
    BY <1>2, LineKinds DEF Snapshots, Inside
  <2>2. Forget(v, line.arg) \in Views
    BY DEF Forget, Views
  <2> QED BY <2>1, <2>2, ViewValues
<1>3. CASE line.cmd \in Snapshots
  <2>1. line.arg \in Channels
    BY <1>3, LineKinds
  <2> DEFINE ch == line.arg
  <2>2. /\ ch.in \in SUBSET Bots /\ ch.ops \in SUBSET Bots /\ ch.bans \in SUBSET Bots
        /\ ch.limit \in Limits
    BY <2>1, ChannelParts
  <2>3. Listed(v, ch) \in Views
    BY <2>2 DEF Listed, Seen, Views
  <2>4. [Listed(v, ch) EXCEPT !.prefixed = @ \union ch.in, !.bans = @ \union ch.bans,
                              !.limit = ch.limit] \in Views
    <3> DEFINE l == Listed(v, ch)
    <3>1. l \in Views
      BY <2>3
    <3> HIDE DEF l
    <3>2. [l EXCEPT !.prefixed = @ \union ch.in, !.bans = @ \union ch.bans,
                    !.limit = ch.limit] \in Views
      BY <2>2, <3>1 DEF Views
    <3> QED BY <3>2 DEF l
  <2>5. [v EXCEPT !.limit = ch.limit] \in Views
    BY <2>2 DEF Views
  <2>6. CASE line.cmd = "NAMES"
    BY <2>3, <2>6 DEF Inside
  <2>7. CASE line.cmd = "WHO"
    BY <2>4, <2>7 DEF Inside
  <2>8. CASE line.cmd = "MODES"
    BY <2>5, <2>8 DEF Inside
  <2> QED BY <1>3, <2>6, <2>7, <2>8 DEF Snapshots
<1>4. CASE line.cmd \notin {"JOIN", "PART", "QUIT", "KICK"} \union Snapshots
  <2>1. Inside(b, v, line) = Applied(v, line.cmd, line.arg)
    BY <1>4 DEF Inside, Snapshots
  <2>2. CASE line.cmd = "+l"
    <3>1. line.arg \in Limits
      BY <2>2, LineKinds
    <3> QED BY <2>1, <2>2, <3>1 DEF Applied, Views
  <2>3. CASE line.cmd # "+l"
    <3>1. line.arg \in Bots
      BY <1>4, <2>3, LineKinds
    <3>2. Applied(v, line.cmd, line.arg) \in Views
      BY <2>3, <3>1 DEF Applied, Seen, Views
    <3> QED BY <2>1, <3>2
  <2> QED BY <2>2, <2>3
<1> QED BY <1>1, <1>2, <1>3, <1>4

LEMMA NextViewTyped ==
  ASSUME NEW b \in Bots, NEW v \in Views, NEW line \in Lines
  PROVE  NextView(b, v, line) \in Views
  BY InsideTyped, ViewValues DEF NextView

-----------------------------------------------------------------------------
(* Trails *)

\* Nothing to read: the view is what it is.
LEMMA StandsStill ==
  ASSUME NEW b \in Bots, NEW v \in Views, NEW ch, Follows(b, v, ch),
         v.join = "joined" => Complete(v, ch)
  PROVE  Leads(b, <<>>, v, ch)
<1> DEFINE f == [i \in 0..0 |-> v]
<1>1. Len(<<>>) = 0
  OBVIOUS
<1>2. f \in [0..0 -> Views] /\ f[0] = v
  OBVIOUS
<1>3. Trail(b, <<>>, f)
  BY <1>1, <1>2 DEF Trail
<1>4. Arrives(b, <<>>, f[0], ch)
  BY <1>2 DEF Arrives
<1> QED BY <1>1, <1>2, <1>3, <1>4 DEF Leads

LEMMA EmptyLeads ==
  ASSUME NEW b \in Bots, NEW ch
  PROVE  Leads(b, <<>>, Outside, ch)
<1>1. Outside \in Views /\ Outside.join = "idle"
  BY ViewValues DEF Outside
<1> QED BY <1>1, StandsStill DEF Follows

LEMMA NothingUnread ==
  ASSUME NEW b \in Bots, NEW v, NEW ch, Leads(b, <<>>, v, ch)
  PROVE  /\ Follows(b, v, ch)
         /\ v.join = "joined" /\ "WHO" \notin Droppable => Complete(v, ch)
<1>1. Len(<<>>) = 0
  OBVIOUS
<1>2. Arrives(b, <<>>, v, ch)
  BY <1>1 DEF Leads
<1>3. ~AwaitsWho(b, <<>>)
  BY <1>1 DEF AwaitsWho
<1> QED BY <1>2, <1>3 DEF Arrives

LEMMA AppendFacts ==
  ASSUME NEW q \in Seq(Lines), NEW line \in Lines
  PROVE  /\ Append(q, line) \in Seq(Lines) /\ Len(q) \in Nat
         /\ Len(Append(q, line)) = Len(q) + 1
         /\ \A i \in 1..Len(q) : Append(q, line)[i] = q[i]
         /\ Append(q, line)[Len(q) + 1] = line
  OBVIOUS

\* One more line, one more view.
LEMMA TrailGrows ==
  ASSUME NEW b \in Bots, NEW q \in Seq(Lines), NEW line \in Lines, NEW f, Trail(b, q, f)
  PROVE  \E g : /\ Trail(b, Append(q, line), g) /\ g[0] = f[0]
                /\ g[Len(Append(q, line))] = NextView(b, f[Len(q)], line)
<1> DEFINE n == Len(q)
           q2 == Append(q, line)
           g == [i \in 0 .. n + 1 |-> IF i \in 0..n THEN f[i] ELSE NextView(b, f[n], line)]
<1>1. /\ n \in Nat /\ Len(q2) = n + 1
      /\ \A i \in 1..n : q2[i] = q[i]
      /\ q2[n + 1] = line
  BY AppendFacts
<1>2. f \in [0..n -> Views] /\ \A i \in 1..n : f[i] = NextView(b, f[i - 1], q[i])
  BY DEF Trail
<1> HIDE DEF n, q2
<1>3. f[n] \in Views /\ NextView(b, f[n], line) \in Views
  BY <1>1, <1>2, NextViewTyped
<1>4. g \in [0 .. n + 1 -> Views]
  BY <1>1, <1>2, <1>3
<1>5. g[0] = f[0] /\ g[n + 1] = NextView(b, f[n], line) /\ \A i \in 0..n : g[i] = f[i]
  BY <1>1
<1> HIDE DEF g
<1>6. ASSUME NEW i \in 1 .. n + 1 PROVE g[i] = NextView(b, g[i - 1], q2[i])
  <2>1. CASE i \in 1..n
    BY <1>1, <1>2, <1>5, <2>1
  <2>2. CASE i = n + 1
    BY <1>1, <1>5, <2>2
  <2> QED BY <1>1, <2>1, <2>2
<1>7. Trail(b, q2, g)
  BY <1>1, <1>4, <1>6 DEF Trail
<1> QED BY <1>1, <1>5, <1>7 DEF n, q2

LEMMA StillAwaits ==
  ASSUME NEW b \in Bots, NEW q \in Seq(Lines), NEW line \in Lines, line # Line("JOIN", b),
         AwaitsWho(b, q)
  PROVE  AwaitsWho(b, Append(q, line))
<1> DEFINE n == Len(q)
           q2 == Append(q, line)
<1>1. /\ n \in Nat /\ Len(q2) = n + 1
      /\ \A i \in 1..n : q2[i] = q[i]
      /\ q2[n + 1] = line
  BY AppendFacts
<1>2. PICK i \in 1..n : q[i].cmd = "NAMES" /\ \A j \in i..n : q[j] # Line("JOIN", b)
  BY DEF AwaitsWho
<1> HIDE DEF n, q2
<1>3. ASSUME NEW j \in i .. n + 1 PROVE q2[j] # Line("JOIN", b)
  <2>1. CASE j \in i..n
    BY <1>1, <1>2, <2>1
  <2>2. CASE j = n + 1
    BY <1>1, <2>2
  <2> QED BY <1>1, <2>1, <2>2
<1>4. i \in 1 .. n + 1 /\ q2[i].cmd = "NAMES"
  BY <1>1, <1>2
<1> QED BY <1>1, <1>3, <1>4 DEF AwaitsWho, q2

\* A line that tells a bot what changed in the channel keeps it on the trail.
LEMMA LineLeads ==
  ASSUME NEW b \in Bots, NEW q \in Seq(Lines), NEW v, NEW ch, NEW ch2,
         NEW line \in Lines, line # Line("JOIN", b), Leads(b, q, v, ch),
         \A w \in Views : w.join = "joined" /\ Follows(b, w, ch) =>
           LET u == Inside(b, w, line) IN
           /\ Follows(b, u, ch2)
           /\ Complete(w, ch) /\ u.join = "joined" => Complete(u, ch2)
  PROVE  Leads(b, Append(q, line), v, ch2)
<1>1. PICK f : Trail(b, q, f) /\ f[0] = v /\ Arrives(b, q, f[Len(q)], ch)
  BY DEF Leads
<1>2. PICK g : /\ Trail(b, Append(q, line), g) /\ g[0] = f[0]
               /\ g[Len(Append(q, line))] = NextView(b, f[Len(q)], line)
  BY <1>1, TrailGrows
<1> DEFINE w == f[Len(q)]
           u == NextView(b, w, line)
<1>3. w \in Views
  BY <1>1 DEF Trail
<1>4. Follows(b, w, ch)
      /\ (w.join = "joined" /\ "WHO" \notin Droppable => Complete(w, ch) \/ AwaitsWho(b, q))
  BY <1>1 DEF Arrives
<1> HIDE DEF w
<1>5. CASE w.join # "joined"
  <2>1. u = Outside /\ Outside.join = "idle"
    BY <1>5 DEF NextView, Outside
  <2>2. Arrives(b, Append(q, line), u, ch2)
    BY <2>1 DEF Arrives, Follows
  <2> QED BY <1>1, <1>2, <2>2 DEF Leads, w
<1>6. CASE w.join = "joined"
  <2>1. u = Inside(b, w, line)
    BY <1>6 DEF NextView
  <2>2. Follows(b, u, ch2) /\ (Complete(w, ch) /\ u.join = "joined" => Complete(u, ch2))
    BY <1>3, <1>4, <1>6, <2>1
  <2>3. AwaitsWho(b, q) => AwaitsWho(b, Append(q, line))
    BY StillAwaits
  <2>4. Arrives(b, Append(q, line), u, ch2)
    BY <1>4, <1>6, <2>2, <2>3 DEF Arrives
  <2> QED BY <1>1, <1>2, <2>4 DEF Leads, w
<1> QED BY <1>5, <1>6

\* So does a change that does not concern it.
LEMMA UnseenLeads ==
  ASSUME NEW b \in Bots, NEW q \in Seq(Lines), NEW v, NEW ch, NEW ch2, Leads(b, q, v, ch),
         \/ b \notin ch.in
         \/ /\ ch2.in = ch.in /\ ch2.ops = ch.ops
            /\ ch2.bans = ch.bans /\ ch2.limit = ch.limit
  PROVE  Leads(b, q, v, ch2)
<1>1. PICK f : Trail(b, q, f) /\ f[0] = v /\ Arrives(b, q, f[Len(q)], ch)
  BY DEF Leads
<1>2. Arrives(b, q, f[Len(q)], ch2)
  BY <1>1 DEF Arrives, Follows, Complete
<1> QED BY <1>1, <1>2 DEF Leads

LEMMA TailFacts ==
  ASSUME NEW q \in Seq(Lines), q # <<>>
  PROVE  /\ Tail(q) \in Seq(Lines) /\ Len(q) \in Nat \ {0} /\ Len(Tail(q)) = Len(q) - 1
         /\ \A i \in 1 .. Len(q) - 1 : Tail(q)[i] = q[i + 1]
         /\ Head(q) \in Lines /\ Head(q) = q[1]
  OBVIOUS

\* One line less, one view less.
LEMMA TrailShrinks ==
  ASSUME NEW b \in Bots, NEW q \in Seq(Lines), q # <<>>, NEW f, Trail(b, q, f)
  PROVE  \E g : /\ Trail(b, Tail(q), g) /\ g[0] = NextView(b, f[0], Head(q))
                /\ g[Len(Tail(q))] = f[Len(q)]
<1> DEFINE n == Len(q)
           q2 == Tail(q)
           g == [i \in 0 .. n - 1 |-> f[i + 1]]
<1>1. /\ n \in Nat \ {0} /\ Len(q2) = n - 1 /\ Head(q) = q[1]
      /\ \A i \in 1 .. n - 1 : q2[i] = q[i + 1]
  BY TailFacts
<1>2. f \in [0..n -> Views] /\ \A i \in 1..n : f[i] = NextView(b, f[i - 1], q[i])
  BY DEF Trail
<1> HIDE DEF n, q2
<1>3. g \in [0 .. n - 1 -> Views] /\ \A i \in 0 .. n - 1 : g[i] = f[i + 1]
  BY <1>1, <1>2
<1> HIDE DEF g
<1>4. ASSUME NEW i \in 1 .. n - 1 PROVE g[i] = NextView(b, g[i - 1], q2[i])
  <2>1. f[i + 1] = NextView(b, f[i], q[i + 1])
    BY <1>1, <1>2
  <2>2. g[i] = f[i + 1] /\ g[i - 1] = f[i] /\ q2[i] = q[i + 1]
    BY <1>1, <1>3
  <2> QED BY <2>1, <2>2
<1>5. Trail(b, q2, g)
  BY <1>1, <1>3, <1>4 DEF Trail
<1>6. g[0] = NextView(b, f[0], Head(q)) /\ g[Len(q2)] = f[n]
  BY <1>1, <1>2, <1>3
<1> QED BY <1>5, <1>6 DEF n, q2

LEMMA AwaitsLater ==
  ASSUME NEW b \in Bots, NEW q \in Seq(Lines), q # <<>>, AwaitsWho(b, q)
  PROVE  AwaitsWho(b, Tail(q)) \/ Head(q).cmd = "NAMES"
<1> DEFINE n == Len(q)
           q2 == Tail(q)
<1>1. /\ n \in Nat \ {0} /\ Len(q2) = n - 1 /\ Head(q) = q[1]
      /\ \A i \in 1 .. n - 1 : q2[i] = q[i + 1]
  BY TailFacts
<1>2. PICK i \in 1..n : q[i].cmd = "NAMES" /\ \A j \in i..n : q[j] # Line("JOIN", b)
  BY DEF AwaitsWho
<1> HIDE DEF n, q2
<1>3. CASE i # 1
  <2>1. i - 1 \in 1 .. n - 1 /\ q2[i - 1].cmd = "NAMES"
    BY <1>1, <1>2, <1>3
  <2>2. ASSUME NEW j \in (i - 1) .. (n - 1) PROVE q2[j] # Line("JOIN", b)
    <3>1. j + 1 \in i..n /\ j \in 1 .. n - 1
      BY <1>1, <1>3
    <3> QED BY <1>1, <1>2, <3>1
  <2> QED BY <1>1, <2>1, <2>2 DEF AwaitsWho, q2
<1> QED BY <1>1, <1>2, <1>3

\* A bot that reads a line goes on where the line leads; the names make it ask, too.
LEMMA ReadLeads ==
  ASSUME NEW b \in Bots, NEW q \in Seq(Lines), q # <<>>, NEW v, NEW ch, Leads(b, q, v, ch),
         Head(q).cmd # "NAMES" \/ b \notin ch.in \/ "WHO" \in Droppable
  PROVE  Leads(b, Tail(q), NextView(b, v, Head(q)), ch)
<1>1. PICK f : Trail(b, q, f) /\ f[0] = v /\ Arrives(b, q, f[Len(q)], ch)
  BY DEF Leads
<1>2. PICK g : /\ Trail(b, Tail(q), g) /\ g[0] = NextView(b, f[0], Head(q))
               /\ g[Len(Tail(q))] = f[Len(q)]
  BY <1>1, TrailShrinks
<1>3. AwaitsWho(b, q) => AwaitsWho(b, Tail(q)) \/ Head(q).cmd = "NAMES"
  BY AwaitsLater
<1>4. Arrives(b, Tail(q), f[Len(q)], ch)
  BY <1>1, <1>3 DEF Arrives, Follows
<1> QED BY <1>1, <1>2, <1>4 DEF Leads

\* What a WHO shows, to a bot that follows the channel.
LEMMA WhoCompletes ==
  ASSUME NEW b \in Bots, NEW ch \in Channels, NEW w \in Views, w.join = "joined",
         Follows(b, w, ch)
  PROVE  LET u == Inside(b, w, Line("WHO", ch)) IN Follows(b, u, ch) /\ Complete(u, ch)
<1>1. ch.ops \subseteq ch.in
  BY ChannelParts
<1>2. w.members = ch.in /\ w.ops = ch.ops /\ w.prefixed \subseteq ch.in /\ w.bans \subseteq ch.bans
  BY DEF Follows
<1> DEFINE l == Listed(w, ch)
           u == [l EXCEPT !.prefixed = @ \union ch.in, !.bans = @ \union ch.bans,
                          !.limit = ch.limit]
<1>3. /\ l.members = ch.in /\ l.ops = ch.ops /\ l.prefixed = w.prefixed /\ l.bans = w.bans
      /\ l.join = "joined"
      /\ l \in [join : {"joined"}, members : {l.members}, ops : {l.ops},
                prefixed : {l.prefixed}, bans : {l.bans}, limit : {l.limit}]
  BY <1>1, <1>2 DEF Listed, Seen, Views
<1> HIDE DEF l
<1>4. /\ u.members = ch.in /\ u.ops = ch.ops /\ u.join = "joined"
      /\ u.prefixed = ch.in /\ u.bans = ch.bans /\ u.limit = ch.limit
  BY <1>2, <1>3
<1>5. Inside(b, w, Line("WHO", ch)) = u
  BY DEF Inside, Line, l
<1> QED BY <1>4, <1>5 DEF Follows, Complete

LEMMA WhoIsALine ==
  ASSUME NEW ch \in Channels, NEW b \in Bots
  PROVE  Line("WHO", ch) \in Lines /\ Line("WHO", ch) # Line("JOIN", b)
<1>1. Line("WHO", ch) \in [cmd : Snapshots, arg : Channels]
  BY DEF Line, Snapshots
<1>2. Line("WHO", ch).cmd # Line("JOIN", b).cmd
  BY DEF Line
<1> QED BY <1>1, <1>2 DEF Lines

LEMMA NamesLead ==
  ASSUME NEW b \in Bots, NEW q \in Seq(Lines), q # <<>>, NEW v, NEW ch \in Channels,
         Leads(b, q, v, ch)
  PROVE  Leads(b, Append(Tail(q), Line("WHO", ch)), NextView(b, v, Head(q)), ch)
<1>1. PICK f : Trail(b, q, f) /\ f[0] = v /\ Arrives(b, q, f[Len(q)], ch)
  BY DEF Leads
<1>2. PICK g : /\ Trail(b, Tail(q), g) /\ g[0] = NextView(b, f[0], Head(q))
               /\ g[Len(Tail(q))] = f[Len(q)]
  BY <1>1, TrailShrinks
<1> DEFINE who == Line("WHO", ch)
           w == f[Len(q)]
           rest == Tail(q)
           q2 == Append(rest, who)
<1>3. who \in Lines /\ who # Line("JOIN", b) /\ rest \in Seq(Lines)
  BY WhoIsALine, TailFacts
<1>8. Trail(b, rest, g)
  BY <1>2
<1> HIDE DEF who, rest
<1>4. PICK h : /\ Trail(b, q2, h) /\ h[0] = g[0]
               /\ h[Len(q2)] = NextView(b, g[Len(rest)], who)
  BY <1>3, <1>8, TrailGrows
<1>5. w \in Views
  BY <1>1 DEF Trail
<1>6. Follows(b, w, ch)
  BY <1>1 DEF Arrives
<1> HIDE DEF w
<1>7. Arrives(b, q2, NextView(b, w, who), ch)
  <2>1. CASE w.join = "joined"
    BY <1>3, <1>5, <1>6, <2>1, WhoCompletes DEF NextView, Arrives, who
  <2>2. CASE w.join # "joined"
    BY <1>3, <2>2 DEF NextView, Arrives, Follows, Outside
  <2> QED BY <2>1, <2>2
<1> QED BY <1>1, <1>2, <1>4, <1>7 DEF Leads, w, rest, who

\* A bot that forgets the channel, with or without the next line, knows nothing until it
\* reads that it joined, and everything it would have known after that.
LEMMA ForgottenLeads ==
  ASSUME NEW b \in Bots, NEW q \in Seq(Lines), NEW v, NEW ch, Leads(b, q, v, ch),
         NEW k \in {0, 1}, NEW q2 \in Seq(Lines), Len(q2) = Len(q) - k,
         \A i \in 1..Len(q2) : q2[i] = q[i + k]
  PROVE  Leads(b, q2, Outside, ch)
<1>1. PICK f : Trail(b, q, f) /\ f[0] = v /\ Arrives(b, q, f[Len(q)], ch)
  BY DEF Leads
<1> DEFINE n == Len(q)
           n2 == Len(q2)
           Back(i) == \E j \in 1..i : q2[j] = Line("JOIN", b)
           g == [i \in 0..n2 |-> IF Back(i) THEN f[i + k] ELSE Outside]
<1>2. n \in Nat /\ n2 \in Nat /\ n2 = n - k /\ k \in Nat
  OBVIOUS
<1>3. f \in [0..n -> Views] /\ \A i \in 1..n : f[i] = NextView(b, f[i - 1], q[i])
  BY <1>1 DEF Trail
<1>4. \A i \in 1..n2 : q2[i] = q[i + k]
  OBVIOUS
<1> HIDE DEF n, n2, Back
<1>5. g \in [0..n2 -> Views] /\ \A i \in 0..n2 : g[i] = IF Back(i) THEN f[i + k] ELSE Outside
  <2>1. \A i \in 0..n2 : f[i + k] \in Views
    BY <1>2, <1>3
  <2> QED BY <2>1, ViewValues
<1>6. ~Back(0)
  BY DEF Back
<1> HIDE DEF g
<1>7. ASSUME NEW i \in 1..n2 PROVE g[i] = NextView(b, g[i - 1], q2[i])
  <2>1. f[i + k] = NextView(b, f[i - 1 + k], q2[i])
    BY <1>2, <1>3, <1>4
  <2>2. g[i] = (IF Back(i) THEN f[i + k] ELSE Outside)
        /\ g[i - 1] = (IF Back(i - 1) THEN f[i - 1 + k] ELSE Outside)
    BY <1>2, <1>5
  <2>3. CASE q2[i] = Line("JOIN", b)
    <3>1. Back(i)
      BY <1>2, <2>3 DEF Back
    <3> QED BY <2>1, <2>2, <2>3, <3>1 DEF NextView
  <2>4. CASE q2[i] # Line("JOIN", b)
    <3>1. Back(i) <=> Back(i - 1)
      BY <1>2, <2>4 DEF Back
    <3>2. NextView(b, Outside, q2[i]) = Outside
      BY <2>4 DEF NextView, Outside
    <3> QED BY <2>1, <2>2, <3>1, <3>2
  <2> QED BY <2>3, <2>4
<1>8. Trail(b, q2, g) /\ g[0] = Outside
  <2>1. g[0] = Outside
    BY <1>2, <1>5, <1>6
  <2>2. Trail(b, q2, g)
    BY <1>5, <1>7 DEF Trail, n2
  <2> QED BY <2>1, <2>2
<1>9. Arrives(b, q2, g[n2], ch)
  <2>1. CASE ~Back(n2)
    <3>1. g[n2].join = "idle"
      BY <1>2, <1>5, <2>1 DEF Outside
    <3> QED BY <3>1 DEF Arrives, Follows
  <2>2. CASE Back(n2)
    <3>1. g[n2] = f[n]
      BY <1>2, <1>5, <2>2
    <3>2. AwaitsWho(b, q) => AwaitsWho(b, q2)
      <4>1. SUFFICES ASSUME AwaitsWho(b, q) PROVE AwaitsWho(b, q2)
        OBVIOUS
      <4>2. PICK i \in 1..n : q[i].cmd = "NAMES" /\ \A j \in i..n : q[j] # Line("JOIN", b)
        BY <4>1 DEF AwaitsWho, n
      <4>3. PICK j \in 1..n2 : q2[j] = Line("JOIN", b)
        BY <2>2 DEF Back
      <4>4. q[j + k] = Line("JOIN", b) /\ j + k \in 1..n
        BY <1>2, <1>4, <4>3
      <4>5. i > j + k
        BY <1>2, <4>2, <4>4
      <4>6. i - k \in 1..n2 /\ q2[i - k].cmd = "NAMES"
        BY <1>2, <1>4, <4>2, <4>5
      <4>7. ASSUME NEW l \in (i - k)..n2 PROVE q2[l] # Line("JOIN", b)
        <5>1. l \in 1..n2 /\ l + k \in i..n
          BY <1>2, <4>6
        <5> QED BY <1>4, <4>2, <5>1
      <4> QED BY <4>6, <4>7 DEF AwaitsWho, n2
    <3> QED BY <1>1, <3>1, <3>2 DEF Arrives, n
  <2> QED BY <2>1, <2>2
<1> QED BY <1>8, <1>9 DEF Leads, n2

LEMMA ForgetsAll ==
  ASSUME NEW b \in Bots, NEW q \in Seq(Lines), NEW v, NEW ch, Leads(b, q, v, ch)
  PROVE  Leads(b, q, Outside, ch)
<1>1. Len(q) = Len(q) - 0 /\ \A i \in 1..Len(q) : q[i] = q[i + 0]
  OBVIOUS
<1> QED BY <1>1, ForgottenLeads

LEMMA SkipsLine ==
  ASSUME NEW b \in Bots, NEW q \in Seq(Lines), q # <<>>, NEW v, NEW ch, Leads(b, q, v, ch)
  PROVE  Leads(b, Tail(q), Outside, ch)
<1>1. /\ Tail(q) \in Seq(Lines) /\ Len(Tail(q)) = Len(q) - 1
      /\ \A i \in 1..Len(Tail(q)) : Tail(q)[i] = q[i + 1]
  BY TailFacts
<1> QED BY <1>1, ForgottenLeads

\* A bot that gets in is told so, and the names.
LEMMA EnterLeads ==
  ASSUME NEW b \in Bots, NEW q \in Seq(Lines), NEW v, NEW ch, Leads(b, q, v, ch),
         NEW ch2 \in Channels, b \in ch2.in
  PROVE  Leads(b, q \o <<Line("JOIN", b), Line("NAMES", ch2)>>, v, ch2)
<1> DEFINE join == Line("JOIN", b)
           names == Line("NAMES", ch2)
           q1 == Append(q, join)
           q2 == Append(q1, names)
<1>1. join \in Lines /\ names \in Lines /\ names # join
  <2>1. join \in Nicks
    BY DEF Line, Nicks, Commands, Snapshots
  <2>2. names \in [cmd : Snapshots, arg : Channels]
    BY DEF Line, Snapshots
  <2>3. names.cmd # join.cmd /\ names.cmd = "NAMES"
    BY DEF Line
  <2> QED BY <2>1, <2>2, <2>3 DEF Lines
<1>2. PICK f : Trail(b, q, f) /\ f[0] = v
  BY DEF Leads
<1>3. PICK g : Trail(b, q1, g) /\ g[0] = f[0] /\ g[Len(q1)] = NextView(b, f[Len(q)], join)
  BY <1>1, <1>2, TrailGrows
<1>4. q1 \in Seq(Lines) /\ q2 \in Seq(Lines)
  BY <1>1, AppendFacts
<1>5. \E h : Trail(b, q2, h) /\ h[0] = g[0] /\ h[Len(q2)] = NextView(b, g[Len(q1)], names)
  <2>1. names \in Lines /\ q1 \in Seq(Lines) /\ Trail(b, q1, g)
    BY <1>1, <1>3, <1>4
  <2> HIDE DEF names, q1
  <2> QED BY <2>1, TrailGrows
<1>12. PICK h : Trail(b, q2, h) /\ h[0] = g[0] /\ h[Len(q2)] = NextView(b, g[Len(q1)], names)
  BY <1>5
<1>6. q \o <<join, names>> = q2
  BY <1>1
<1>7. h[Len(q2)] = Listed(Entered(b), ch2)
  <2>1. g[Len(q1)] = Entered(b)
    BY <1>3 DEF NextView
  <2>2. NextView(b, Entered(b), names) = Inside(b, Entered(b), names)
    BY <1>1 DEF NextView, Entered
  <2>3. Inside(b, Entered(b), names) = Listed(Entered(b), ch2)
    BY DEF Inside, Line
  <2> QED BY <1>12, <2>1, <2>2, <2>3
<1>8. Follows(b, Listed(Entered(b), ch2), ch2)
  BY ChannelParts DEF Follows, Listed, Seen, Entered
<1>9. AwaitsWho(b, q2)
  <2>1. /\ Len(q1) \in Nat /\ Len(q2) = Len(q1) + 1 /\ q2[Len(q1) + 1] = names
    BY <1>1, <1>4, AppendFacts
  <2>2. names.cmd = "NAMES"
    BY DEF Line
  <2> HIDE DEF q1, q2, names
  <2>3. Len(q2) \in 1..Len(q2) /\ q2[Len(q2)].cmd = "NAMES"
        /\ \A j \in Len(q2)..Len(q2) : q2[j] # join
    BY <1>1, <2>1, <2>2
  <2> QED BY <2>3 DEF AwaitsWho
<1>10. Arrives(b, q2, h[Len(q2)], ch2)
  BY <1>7, <1>8, <1>9 DEF Arrives
<1> HIDE DEF q2
<1>11. Leads(b, q2, v, ch2)
  BY <1>2, <1>3, <1>12, <1>10 DEF Leads
<1> QED BY <1>6, <1>11

-----------------------------------------------------------------------------
(* The server: what it does to the channel it tells everyone concerned *)

Modes == {"+o", "-o", "+b", "-b", "+l", "+i", "+t", "-t"}

\* The argument fits the command.
Fits(cmd, arg) == IF cmd = "+l" THEN arg \in Limits ELSE arg \in Bots

Sound(r) ==
  /\ r.chan \in Channels
  /\ r.lines \in [Bots -> Seq(Lines)]
  /\ \A c \in Bots : \A q \in Seq(Lines) : \A v :
       Leads(c, q, v, chan) => Leads(c, q \o r.lines[c], v, r.chan)

\* What a line must do to the view of a bot that is in.
Tells(c, line, ch2) ==
  /\ line # Line("JOIN", c)
  /\ \A w \in Views : w.join = "joined" /\ Follows(c, w, chan) =>
       LET u == Inside(c, w, line) IN
       /\ Follows(c, u, ch2)
       /\ Complete(w, chan) /\ u.join = "joined" => Complete(u, ch2)

Untouched(c, ch2) ==
  \/ c \notin chan.in
  \/ /\ ch2.in = chan.in /\ ch2.ops = chan.ops
     /\ ch2.bans = chan.bans /\ ch2.limit = chan.limit

LEMMA Concatenation ==
  ASSUME NEW q \in Seq(Lines), NEW line \in Lines
  PROVE  q \o <<>> = q /\ q \o <<line>> = Append(q, line)
         /\ <<>> \in Seq(Lines) /\ <<line>> \in Seq(Lines)
  OBVIOUS

LEMMA ToldSound ==
  ASSUME NEW ch2 \in Channels, NEW told \in SUBSET Bots, NEW line \in Lines,
         \A c \in told : Tells(c, line, ch2),
         \A c \in Bots \ told : Untouched(c, ch2)
  PROVE  Sound(Result(ch2, To(told, line)))
<1> DEFINE r == Result(ch2, To(told, line))
<1>1. r.chan = ch2 /\ r.lines = To(told, line)
  BY DEF Result
<1>2. \A c \in Bots : r.lines[c] = IF c \in told THEN <<line>> ELSE <<>>
  BY <1>1 DEF To
<1>3. r.lines \in [Bots -> Seq(Lines)]
  <2>1. <<>> \in Seq(Lines) /\ <<line>> \in Seq(Lines)
    BY Concatenation
  <2> QED BY <1>1, <2>1 DEF To
<1> HIDE DEF r
<1>4. ASSUME NEW c \in Bots, NEW q \in Seq(Lines), NEW v, Leads(c, q, v, chan)
      PROVE  Leads(c, q \o r.lines[c], v, ch2)
  <2>1. CASE c \in told
    <3>1. line # Line("JOIN", c)
      BY <2>1 DEF Tells
    <3>2. \A w \in Views : w.join = "joined" /\ Follows(c, w, chan) =>
            LET u == Inside(c, w, line) IN
            /\ Follows(c, u, ch2)
            /\ Complete(w, chan) /\ u.join = "joined" => Complete(u, ch2)
      BY <2>1 DEF Tells
    <3>3. Leads(c, Append(q, line), v, ch2)
      BY <1>4, <3>1, <3>2, LineLeads
    <3> QED BY <1>2, <2>1, <3>3, Concatenation
  <2>2. CASE c \notin told
    <3>1. Leads(c, q, v, ch2)
      BY <1>4, <2>2, UnseenLeads DEF Untouched
    <3> QED BY <1>2, <2>2, <3>1, Concatenation
  <2> QED BY <2>1, <2>2
<1>5. Sound(r)
  BY <1>1, <1>3, <1>4 DEF Sound
<1> QED BY <1>5 DEF r

LEMMA IgnoredSound ==
  ASSUME chan \in Channels
  PROVE  Sound(Ignored)
<1>1. Ignored.chan = chan /\ Ignored.lines = [c \in Bots |-> <<>>]
  BY DEF Ignored, Result, Silence
<1>2. Ignored.lines \in [Bots -> Seq(Lines)]
  <2>1. <<>> \in Seq(Lines)
    OBVIOUS
  <2> QED BY <1>1, <2>1
<1>3. ASSUME NEW c \in Bots, NEW q \in Seq(Lines) PROVE q \o Ignored.lines[c] = q
  <2>1. q \o <<>> = q
    OBVIOUS
  <2> QED BY <1>1, <2>1
<1> QED BY <1>1, <1>2, <1>3 DEF Sound

\* Lines with a nickname.
LEMMA NickCommands ==
  {"JOIN", "PART", "QUIT", "KICK", "INVITE", "471", "473", "474",
   "+o", "-o", "+b", "-b", "+i", "+t", "-t"} \subseteq Commands \ (Snapshots \union {"+l"})
<1>1. {"+o", "-o", "+b", "-b", "+i", "-t", "KICK", "INVITE"} \subseteq Commands
  BY DEF Commands, Disturbances, AdminCommands
<1>2. {"JOIN", "PART", "QUIT", "+t", "471", "473", "474"} \subseteq Commands
  BY DEF Commands
<1>3. /\ {"JOIN", "PART", "QUIT", "KICK", "INVITE"} \intersect (Snapshots \union {"+l"}) = {}
      /\ {"471", "473", "474", "+o", "-o"} \intersect (Snapshots \union {"+l"}) = {}
      /\ {"+b", "-b", "+i", "+t", "-t"} \intersect (Snapshots \union {"+l"}) = {}
  BY DEF Snapshots
<1> QED BY <1>1, <1>2, <1>3

LEMMA NickLine ==
  ASSUME NEW cmd \in Commands \ (Snapshots \union {"+l"}), NEW b \in Bots
  PROVE  Line(cmd, b) \in Lines /\ Line(cmd, b).cmd = cmd /\ Line(cmd, b).arg = b
<1>1. Line(cmd, b) \in Nicks
  BY DEF Line, Nicks
<1> QED BY <1>1 DEF Line, Lines

LEMMA RefusalSound ==
  ASSUME chan \in Channels, NEW b \in Bots, NEW code \in {"471", "473", "474"}
  PROVE  Sound(Refusal(b, code))
<1> DEFINE line == Line(code, b)
<1>1. line \in Lines /\ line.cmd = code
  BY NickLine, NickCommands
<1> HIDE DEF line
<1>2. Tells(b, line, chan)
  <2>1. line # Line("JOIN", b)
    BY <1>1 DEF Line
  <2>2. \A w \in Views : Inside(b, w, line) = w
    BY <1>1 DEF Inside, Applied
  <2> QED BY <2>1, <2>2 DEF Tells
<1>3. \A c \in Bots \ {b} : Untouched(c, chan)
  BY DEF Untouched
<1>4. Sound(Result(chan, To({b}, line)))
  BY <1>1, <1>2, <1>3, ToldSound
<1> QED BY <1>4 DEF Refusal, line

LEMMA WithParts ==
  ASSUME chan \in Channels, NEW b \in Bots
  PROVE  /\ With(b) \in Channels /\ With(b).in = chan.in \union {b}
         /\ With(b).bans = chan.bans /\ With(b).limit = chan.limit
         /\ chan.in # {} => With(b).ops = chan.ops
<1> DEFINE ops == IF chan.in = {} THEN {b} ELSE chan.ops
           ch2 == With(b)
<1>1. /\ ch2 = [chan EXCEPT !.in = chan.in \union {b}, !.invited = chan.invited \ {b},
                             !.ops = ops]
      /\ ops \in SUBSET (chan.in \union {b})
      /\ chan.in # {} => ops = chan.ops
  BY ChannelParts DEF With
<1>2. chan.in \union {b} \in SUBSET Bots /\ chan.invited \ {b} \in SUBSET Bots
  BY ChannelParts
<1> HIDE DEF ops, ch2
<1>3. /\ ch2.in = chan.in \union {b} /\ ch2.ops = ops /\ ch2.bans = chan.bans
      /\ ch2.limit = chan.limit
  BY <1>1 DEF Channels
<1>4. ch2 \in Channels
  BY <1>1, <1>2 DEF Channels
<1> QED BY <1>1, <1>3, <1>4 DEF ch2

LEMMA WelcomedSound ==
  ASSUME chan \in Channels, NEW b \in Bots, b \notin chan.in
  PROVE  Sound(Welcomed(b))
<1> DEFINE ch2 == With(b)
           line == Line("JOIN", b)
           r == Welcomed(b)
<1>1. /\ ch2 \in Channels /\ ch2.in = chan.in \union {b}
      /\ ch2.bans = chan.bans /\ ch2.limit = chan.limit
      /\ chan.in # {} => ch2.ops = chan.ops
  BY WithParts
<1>2. line \in Lines /\ line.cmd = "JOIN" /\ line.arg = b
  BY NickLine, NickCommands
<1>3. <<>> \in Seq(Lines) /\ <<line>> \in Seq(Lines)
      /\ <<line, Line("NAMES", ch2)>> \in Seq(Lines)
  <2>1. Line("NAMES", ch2) \in Lines
    BY <1>1 DEF Lines, Line, Snapshots
  <2> QED BY <1>2, <2>1
<1>4. r.chan = ch2 /\ \A c \in Bots : r.lines[c] =
        IF c = b THEN <<line, Line("NAMES", ch2)>>
                 ELSE IF c \in chan.in THEN <<line>> ELSE <<>>
  BY DEF Welcomed, Result
<1>5. r.lines \in [Bots -> Seq(Lines)]
  BY <1>3 DEF Welcomed, Result
<1> HIDE DEF ch2, r
<1>6. ASSUME NEW c \in Bots, NEW q \in Seq(Lines), NEW v, Leads(c, q, v, chan)
      PROVE  Leads(c, q \o r.lines[c], v, ch2)
  <2>1. CASE c = b
    <3>1. Leads(b, q \o <<line, Line("NAMES", ch2)>>, v, ch2)
      BY <1>1, <1>6, <2>1, EnterLeads
    <3> QED BY <1>4, <2>1, <3>1
  <2>2. CASE c # b /\ c \in chan.in
    <3>1. line # Line("JOIN", c)
      BY <2>2 DEF Line
    <3>2. ASSUME NEW w \in Views, w.join = "joined", Follows(c, w, chan)
          PROVE  LET u == Inside(c, w, line) IN
                 /\ Follows(c, u, ch2)
                 /\ Complete(w, chan) /\ u.join = "joined" => Complete(u, ch2)
      <4> DEFINE u == Inside(c, w, line)
      <4>1. u = [Seen(w, {b}) EXCEPT !.prefixed = @ \union {b}]
        BY <1>2 DEF Inside
      <4>2. /\ u.members = w.members \union {b} /\ u.ops = w.ops
            /\ u.prefixed = w.prefixed \union {b} /\ u.bans = w.bans /\ u.limit = w.limit
        BY <4>1 DEF Seen, Views
      <4>3. /\ c \in chan.in /\ w.members = chan.in /\ w.ops = chan.ops
            /\ w.prefixed \subseteq chan.in /\ w.bans \subseteq chan.bans
        BY <3>2 DEF Follows
      <4> HIDE DEF u
      <4>4. Follows(c, u, ch2)
        BY <1>1, <4>2, <4>3 DEF Follows
      <4>5. Complete(w, chan) => Complete(u, ch2)
        BY <1>1, <4>2 DEF Complete
      <4> QED BY <4>4, <4>5 DEF u
    <3>3. Leads(c, Append(q, line), v, ch2)
      <4> HIDE DEF line
      <4> QED BY <1>2, <1>6, <3>1, <3>2, LineLeads
    <3> QED BY <1>2, <1>4, <2>2, <3>3, Concatenation
  <2>3. CASE c # b /\ c \notin chan.in
    <3>1. Leads(c, q, v, ch2)
      BY <1>6, <2>3, UnseenLeads
    <3>2. q \o <<>> = q
      OBVIOUS
    <3> QED BY <1>4, <2>3, <3>1, <3>2
  <2> QED BY <2>1, <2>2, <2>3
<1>7. Sound(r)
  BY <1>1, <1>4, <1>5, <1>6 DEF Sound
<1> QED BY <1>7 DEF r

LEMMA JoinedSound ==
  ASSUME chan \in Channels, NEW b \in Bots
  PROVE  Sound(Joined(b))
  BY IgnoredSound, RefusalSound, WelcomedSound DEF Joined

LEMMA WithoutParts ==
  ASSUME chan \in Channels, NEW b \in Bots
  PROVE  /\ Without(b) \in Channels
         /\ chan.in # {b} =>
              /\ Without(b).in = chan.in \ {b} /\ Without(b).ops = chan.ops \ {b}
              /\ Without(b).bans = chan.bans /\ Without(b).limit = chan.limit
<1>1. NoChannel \in Channels
  BY LimitsAreNumbers DEF NoChannel, Channels
<1>2. [chan EXCEPT !.in = @ \ {b}, !.ops = @ \ {b}] \in Channels
  BY DEF Channels
<1> QED BY <1>1, <1>2 DEF Without, Channels

\* Who leaves, or is made to.
LEMMA GoneTells ==
  ASSUME chan \in Channels, NEW b \in Bots, b \in chan.in, NEW cmd \in {"PART", "QUIT", "KICK"},
         NEW c \in chan.in
  PROVE  Tells(c, Line(cmd, b), Without(b))
<1> DEFINE line == Line(cmd, b)
           ch2 == Without(b)
<1>0. cmd \in Commands \ (Snapshots \union {"+l"})
  BY NickCommands
<1>1. line \in Lines /\ line.cmd = cmd /\ line.arg = b
  BY <1>0, NickLine
<1>2. line # Line("JOIN", c)
  BY DEF Line
<1> HIDE DEF line
<1>3. ASSUME NEW w \in Views, w.join = "joined", Follows(c, w, chan)
      PROVE  LET u == Inside(c, w, line) IN
             /\ Follows(c, u, ch2)
             /\ Complete(w, chan) /\ u.join = "joined" => Complete(u, ch2)
  <2> DEFINE u == Inside(c, w, line)
  <2>1. CASE c = b
    <3>1. u = Outside /\ Outside.join = "idle"
      BY <1>1, <2>1 DEF Inside, Outside
    <3> QED BY <3>1 DEF Follows
  <2>2. CASE c # b
    <3>1. u = Forget(w, b)
      BY <1>1, <2>2 DEF Inside
    <3>2. /\ u.members = w.members \ {b} /\ u.ops = w.ops \ {b}
          /\ u.prefixed = w.prefixed \ {b} /\ u.bans = w.bans /\ u.limit = w.limit
      BY <3>1 DEF Forget, Views
    <3>3. /\ c \in chan.in /\ w.members = chan.in /\ w.ops = chan.ops
          /\ w.prefixed \subseteq chan.in /\ w.bans \subseteq chan.bans
      BY <1>3 DEF Follows
    <3>4. /\ ch2.in = chan.in \ {b} /\ ch2.ops = chan.ops \ {b}
          /\ ch2.bans = chan.bans /\ ch2.limit = chan.limit
      BY <2>2, <3>3, WithoutParts
    <3> HIDE DEF u, ch2
    <3>5. Follows(c, u, ch2)
      BY <2>2, <3>2, <3>3, <3>4 DEF Follows
    <3>6. Complete(w, chan) => Complete(u, ch2)
      BY <3>2, <3>4 DEF Complete
    <3> QED BY <3>5, <3>6 DEF u, ch2
  <2> QED BY <2>1, <2>2
<1> QED BY <1>2, <1>3 DEF Tells, line

LEMMA GoneSound ==
  ASSUME chan \in Channels, NEW b \in Bots, NEW cmd \in {"PART", "QUIT", "KICK"}
  PROVE  Sound(Gone(b, cmd))
<1>1. CASE b \in chan.in
  <2>1. Line(cmd, b) \in Lines /\ Without(b) \in Channels /\ chan.in \in SUBSET Bots
    <3>1. cmd \in Commands \ (Snapshots \union {"+l"})
      BY NickCommands
    <3> QED BY <3>1, NickLine, WithoutParts, ChannelParts
  <2>2. \A c \in chan.in : Tells(c, Line(cmd, b), Without(b))
    BY <1>1, GoneTells
  <2>3. \A c \in Bots \ chan.in : Untouched(c, Without(b))
    BY DEF Untouched
  <2>4. Sound(Result(Without(b), To(chan.in, Line(cmd, b))))
    BY <2>1, <2>2, <2>3, ToldSound
  <2> QED BY <1>1, <2>4 DEF Gone
<1>2. CASE b \notin chan.in
  BY <1>2, IgnoredSound DEF Gone
<1> QED BY <1>1, <1>2


LEMMA GoneStays ==
  ASSUME chan \in Channels, NEW b \in Bots, NEW cmd
  PROVE  Gone(b, cmd).chan.in = chan.in \ {b}
<1>1. Without(b).in = chan.in \ {b}
  BY DEF Without, NoChannel, Channels
<1> QED BY <1>1 DEF Gone, Result, Ignored

LEMMA InvitedSound ==
  ASSUME chan \in Channels, NEW b \in Bots
  PROVE  Sound(Invited(b)) /\ Invited(b).chan.in = chan.in
<1> DEFINE line == Line("INVITE", b)
           ch2 == [chan EXCEPT !.invited = @ \union {b}]
<1>1. line \in Lines /\ line.cmd = "INVITE"
  BY NickLine, NickCommands
<1>2. /\ ch2 \in Channels /\ ch2.in = chan.in /\ ch2.ops = chan.ops
      /\ ch2.bans = chan.bans /\ ch2.limit = chan.limit
  BY DEF Channels
<1>3. line # Line("JOIN", b)
  BY DEF Line
<1> HIDE DEF line, ch2
<1>4. \A w \in Views : Inside(b, w, line) = w
  BY <1>1 DEF Inside, Applied
<1>5. Tells(b, line, ch2)
  BY <1>2, <1>3, <1>4 DEF Tells, Follows, Complete
<1>6. \A c \in Bots \ {b} : Untouched(c, ch2)
  BY <1>2 DEF Untouched
<1>7. Sound(Result(ch2, To({b}, line)))
  BY <1>1, <1>2, <1>5, <1>6, ToldSound
<1>8. Result(ch2, To({b}, line)).chan.in = chan.in /\ Ignored.chan.in = chan.in
  BY <1>2 DEF Result, Ignored
<1> QED BY <1>7, <1>8, IgnoredSound DEF Invited, line, ch2

-----------------------------------------------------------------------------
(* Modes *)

LEMMA ChangedParts ==
  ASSUME chan \in Channels, NEW cmd \in Modes, NEW arg, Fits(cmd, arg)
  PROVE  Changed(cmd, arg) \in Channels /\ Changed(cmd, arg).in = chan.in
<1>1. CASE cmd = "+o"
  <2>1. arg \in Bots
    BY <1>1 DEF Fits
  <2> QED BY <1>1, <2>1 DEF Changed, Channels
<1>2. CASE cmd = "-o"
  BY <1>2 DEF Changed, Channels
<1>3. CASE cmd = "+b"
  <2>1. arg \in Bots
    BY <1>3 DEF Fits
  <2> QED BY <1>3, <2>1 DEF Changed, Channels
<1>4. CASE cmd = "-b"
  BY <1>4 DEF Changed, Channels
<1>5. CASE cmd = "+l"
  <2>1. arg \in Limits
    BY <1>5 DEF Fits
  <2> QED BY <1>5, <2>1 DEF Changed, Channels
<1>6. CASE cmd = "+i"
  BY <1>6 DEF Changed, Channels
<1>7. CASE cmd = "+t"
  BY <1>7 DEF Changed, Channels
<1>8. CASE cmd = "-t"
  BY <1>8 DEF Changed, Channels
<1> QED BY <1>1, <1>2, <1>3, <1>4, <1>5, <1>6, <1>7, <1>8 DEF Modes

LEMMA ModeLine ==
  ASSUME NEW cmd \in Modes, NEW arg, Fits(cmd, arg)
  PROVE  /\ Line(cmd, arg) \in Lines /\ Line(cmd, arg).cmd = cmd /\ Line(cmd, arg).arg = arg
         /\ cmd \notin {"JOIN", "PART", "QUIT", "KICK", "NAMES", "WHO", "MODES"}
<1>1. CASE cmd = "+l"
  BY <1>1 DEF Fits, Line, Lines
<1>2. CASE cmd # "+l"
  <2>1. arg \in Bots /\ cmd \in {"+o", "-o", "+b", "-b", "+i", "+t", "-t"}
    BY <1>2 DEF Fits, Modes
  <2> QED BY <2>1, NickLine, NickCommands
<1>3. cmd \notin {"JOIN", "PART", "QUIT", "KICK", "NAMES", "WHO", "MODES"}
  BY DEF Modes
<1> QED BY <1>1, <1>2, <1>3 DEF Line

\* A mode line makes of the view what the mode made of the channel.
LEMMA ModeFollowed ==
  ASSUME chan \in Channels, NEW cmd \in Modes, NEW arg, Fits(cmd, arg),
         Changed(cmd, arg) # chan, NEW c \in chan.in, NEW w \in Views, w.join = "joined",
         Follows(c, w, chan)
  PROVE  /\ Follows(c, Applied(w, cmd, arg), Changed(cmd, arg))
         /\ Complete(w, chan) => Complete(Applied(w, cmd, arg), Changed(cmd, arg))
<1> DEFINE u == Applied(w, cmd, arg)
           ch2 == Changed(cmd, arg)
<1>1. /\ w.members = chan.in /\ w.ops = chan.ops
      /\ w.prefixed \subseteq chan.in /\ w.bans \subseteq chan.bans
  BY DEF Follows
<1>2. CASE cmd = "+o"
  <2>1. ch2 = [chan EXCEPT !.ops = @ \union ({arg} \intersect chan.in)]
    BY <1>2 DEF Changed
  <2>2. arg \in chan.in
    <3>1. SUFFICES ASSUME arg \notin chan.in PROVE FALSE
      OBVIOUS
    <3>2. chan.ops \union ({arg} \intersect chan.in) = chan.ops
      BY <3>1
    <3>3. [chan EXCEPT !.ops = chan.ops] = chan
      BY DEF Channels
    <3> QED BY <2>1, <3>2, <3>3
  <2>3. /\ ch2.in = chan.in /\ ch2.ops = chan.ops \union {arg}
        /\ ch2.bans = chan.bans /\ ch2.limit = chan.limit
    BY <2>1, <2>2 DEF Channels
  <2>4. u = [Seen(w, {arg}) EXCEPT !.ops = @ \union {arg}]
    BY <1>2 DEF Applied
  <2>5. /\ u.join = w.join /\ u.members = w.members \union {arg}
        /\ u.ops = w.ops \union {arg} /\ u.prefixed = w.prefixed
        /\ u.bans = w.bans /\ u.limit = w.limit
    BY <2>4 DEF Seen, Views
  <2> HIDE DEF u, ch2
  <2> QED BY <1>1, <2>2, <2>3, <2>5 DEF Follows, Complete, u, ch2
<1>3. CASE cmd = "-o"
  <2>1. ch2 = [chan EXCEPT !.ops = @ \ {arg}]
    BY <1>3 DEF Changed
  <2>2. arg \in chan.in
    <3>1. SUFFICES ASSUME arg \notin chan.in PROVE FALSE
      OBVIOUS
    <3>2. chan.ops \ {arg} = chan.ops
      BY <3>1, ChannelParts
    <3>3. [chan EXCEPT !.ops = chan.ops] = chan
      BY DEF Channels
    <3> QED BY <2>1, <3>2, <3>3
  <2>3. /\ ch2.in = chan.in /\ ch2.ops = chan.ops \ {arg}
        /\ ch2.bans = chan.bans /\ ch2.limit = chan.limit
    BY <2>1, <2>2 DEF Channels
  <2>4. u = [Seen(w, {arg}) EXCEPT !.ops = @ \ {arg}]
    BY <1>3 DEF Applied
  <2>5. /\ u.join = w.join /\ u.members = w.members \union {arg}
        /\ u.ops = w.ops \ {arg} /\ u.prefixed = w.prefixed
        /\ u.bans = w.bans /\ u.limit = w.limit
    BY <2>4 DEF Seen, Views
  <2> HIDE DEF u, ch2
  <2> QED BY <1>1, <2>2, <2>3, <2>5 DEF Follows, Complete, u, ch2
<1>4. CASE cmd = "+b"
  <2>1. /\ ch2.in = chan.in /\ ch2.ops = chan.ops
        /\ ch2.bans = chan.bans \union {arg} /\ ch2.limit = chan.limit
    BY <1>4 DEF Changed, Channels
  <2>2. u = [w EXCEPT !.bans = @ \union {arg}]
    BY <1>4 DEF Applied
  <2> HIDE DEF ch2
  <2> QED BY <1>1, <2>1, <2>2 DEF Follows, Complete, Views, ch2
<1>5. CASE cmd = "-b"
  <2>1. /\ ch2.in = chan.in /\ ch2.ops = chan.ops
        /\ ch2.bans = chan.bans \ {arg} /\ ch2.limit = chan.limit
    BY <1>5 DEF Changed, Channels
  <2>2. u = [w EXCEPT !.bans = @ \ {arg}]
    BY <1>5 DEF Applied
  <2> HIDE DEF ch2
  <2> QED BY <1>1, <2>1, <2>2 DEF Follows, Complete, Views, ch2
<1>6. CASE cmd = "+l"
  <2>1. /\ ch2.in = chan.in /\ ch2.ops = chan.ops
        /\ ch2.bans = chan.bans /\ ch2.limit = arg
    BY <1>6 DEF Changed, Channels
  <2>2. u = [w EXCEPT !.limit = arg]
    BY <1>6 DEF Applied
  <2> HIDE DEF ch2
  <2> QED BY <1>1, <2>1, <2>2 DEF Follows, Complete, Views, ch2
<1>7. CASE cmd \in {"+i", "+t", "-t"}
  <2>1. /\ ch2.in = chan.in /\ ch2.ops = chan.ops
        /\ ch2.bans = chan.bans /\ ch2.limit = chan.limit
    BY <1>7 DEF Changed, Channels
  <2>2. u = w
    BY <1>7 DEF Applied
  <2> HIDE DEF u, ch2
  <2> QED BY <1>1, <2>1, <2>2 DEF Follows, Complete, u, ch2
<1> QED BY <1>2, <1>3, <1>4, <1>5, <1>6, <1>7 DEF Modes

LEMMA ModeSound ==
  ASSUME chan \in Channels, NEW cmd \in Modes, NEW arg, Fits(cmd, arg)
  PROVE  Sound(Mode(cmd, arg)) /\ Mode(cmd, arg).chan.in = chan.in
<1> DEFINE line == Line(cmd, arg)
           ch2 == Changed(cmd, arg)
<1>1. /\ line \in Lines /\ line.cmd = cmd /\ line.arg = arg
      /\ cmd \notin {"JOIN", "PART", "QUIT", "KICK", "NAMES", "WHO", "MODES"}
      /\ ch2 \in Channels /\ ch2.in = chan.in /\ chan.in \in SUBSET Bots
  BY ModeLine, ChangedParts, ChannelParts
<1>2. Ignored.chan.in = chan.in
  BY DEF Ignored, Result
<1>3. CASE ch2 = chan
  BY <1>2, <1>3, IgnoredSound DEF Mode
<1>4. CASE ch2 # chan
  <2>1. Mode(cmd, arg) = Result(ch2, To(chan.in, line))
    BY <1>4 DEF Mode
  <2>2. ASSUME NEW c \in chan.in PROVE Tells(c, line, ch2)
    <3>1. line # Line("JOIN", c)
      BY <1>1 DEF Line
    <3>2. \A w \in Views : Inside(c, w, line) = Applied(w, cmd, arg)
      BY <1>1 DEF Inside
    <3> HIDE DEF line
    <3>3. ASSUME NEW w \in Views, w.join = "joined", Follows(c, w, chan)
          PROVE  /\ Follows(c, Inside(c, w, line), ch2)
                 /\ Complete(w, chan) => Complete(Inside(c, w, line), ch2)
      BY <1>4, <3>2, <3>3, ModeFollowed
    <3> QED BY <3>1, <3>3 DEF Tells
  <2>3. \A c \in Bots \ chan.in : Untouched(c, ch2)
    BY DEF Untouched
  <2> HIDE DEF line, ch2
  <2>4. Sound(Result(ch2, To(chan.in, line)))
    BY <1>1, <2>2, <2>3, ToldSound
  <2> QED BY <1>1, <2>1, <2>4 DEF Result
<1> QED BY <1>3, <1>4

-----------------------------------------------------------------------------
(* What a bot sends *)

\* A snapshot of the channel, for a bot that is in.
LEMMA SnapshotSound ==
  ASSUME chan \in Channels, NEW b \in chan.in, NEW cmd \in {"WHO", "MODES"}
  PROVE  Sound(Result(chan, To({b}, Line(cmd, chan))))
<1> DEFINE line == Line(cmd, chan)
<1>1. line \in Lines /\ line.cmd = cmd /\ line.arg = chan /\ line # Line("JOIN", b)
  BY DEF Line, Lines, Snapshots
<1>2. b \in Bots
  BY ChannelParts
<1>3. ASSUME NEW w \in Views, w.join = "joined", Follows(b, w, chan)
      PROVE  /\ Follows(b, Inside(b, w, line), chan)
             /\ Complete(w, chan) => Complete(Inside(b, w, line), chan)
  <2>1. CASE cmd = "WHO"
    BY <1>2, <1>3, <2>1, WhoCompletes
  <2>2. CASE cmd = "MODES"
    <3>1. Inside(b, w, line) = [w EXCEPT !.limit = chan.limit]
      BY <1>1, <2>2 DEF Inside
    <3> QED BY <1>3, <3>1 DEF Follows, Complete, Views
  <2> QED BY <2>1, <2>2
<1> HIDE DEF line
<1>4. Tells(b, line, chan)
  BY <1>1, <1>3 DEF Tells
<1>5. \A c \in Bots \ {b} : Untouched(c, chan)
  BY DEF Untouched
<1>6. Sound(Result(chan, To({b}, line)))
  BY <1>1, <1>2, <1>4, <1>5, ToldSound
<1> QED BY <1>6 DEF line

Operations == {"KICK", "INVITE"} \union Modes

LEMMA OperatedSound ==
  ASSUME chan \in Channels, NEW cmd \in Operations, NEW arg, Fits(cmd, arg)
  PROVE  Sound(Operated(cmd, arg)) /\ Operated(cmd, arg).chan.in \subseteq chan.in
<1>1. CASE cmd = "KICK"
  <2>1. arg \in Bots
    BY <1>1 DEF Fits
  <2>2. Operated(cmd, arg) = Gone(arg, "KICK")
    BY <1>1 DEF Operated
  <2>3. Gone(arg, "KICK").chan.in \subseteq chan.in
    BY <2>1, GoneStays
  <2> QED BY <2>1, <2>2, <2>3, GoneSound
<1>2. CASE cmd = "INVITE"
  <2>1. arg \in Bots
    BY <1>2 DEF Fits
  <2>2. Operated(cmd, arg) = Invited(arg)
    BY <1>2 DEF Operated
  <2> QED BY <2>1, <2>2, InvitedSound
<1>3. CASE cmd \in Modes
  <2>1. Operated(cmd, arg) = Mode(cmd, arg)
    BY <1>3 DEF Operated, Modes
  <2> QED BY <1>3, <2>1, ModeSound
<1> QED BY <1>1, <1>2, <1>3 DEF Operations

\* The lines that bots send.
Sends == {"JOIN", "PART", "WHO", "MODES"} \union Operations

\* The server serves every bot soundly, and nobody but a bot that joins gets in.
LEMMA ServedSound ==
  ASSUME chan \in Channels, NEW b \in Bots, NEW cmd \in Sends, NEW arg, Fits(cmd, arg)
  PROVE  /\ Sound(Served(b, Line(cmd, arg)))
         /\ Served(b, Line(cmd, arg)).chan.in \subseteq
              IF cmd = "JOIN" THEN chan.in \union {b} ELSE chan.in
<1> DEFINE line == Line(cmd, arg)
<1>1. line.cmd = cmd /\ line.arg = arg
  BY DEF Line
<1>2. Ignored.chan.in = chan.in
  BY DEF Ignored, Result
<1> HIDE DEF line
<1>3. CASE cmd = "JOIN"
  <2>1. Served(b, line) = Joined(b)
    BY <1>1, <1>3 DEF Served
  <2>2. \A code : Refusal(b, code).chan.in = chan.in
    BY DEF Refusal, Result
  <2>3. Welcomed(b).chan.in = chan.in \union {b}
    BY WithParts DEF Welcomed, Result
  <2>4. Joined(b).chan.in \subseteq chan.in \union {b}
    BY <1>2, <2>2, <2>3 DEF Joined
  <2> QED BY <1>3, <2>1, <2>4, JoinedSound DEF line
<1>4. CASE cmd = "PART"
  <2>1. Served(b, line) = Gone(b, "PART")
    BY <1>1, <1>4 DEF Served
  <2> QED BY <1>4, <2>1, GoneSound, GoneStays DEF line
<1>5. CASE cmd \in {"WHO", "MODES"}
  <2>1. Served(b, line) =
          IF b \in chan.in THEN Result(chan, To({b}, Line(cmd, chan))) ELSE Ignored
    BY <1>1, <1>5 DEF Served
  <2>2. Result(chan, To({b}, Line(cmd, chan))).chan = chan
    BY DEF Result
  <2> QED BY <1>2, <1>5, <2>1, <2>2, IgnoredSound, SnapshotSound DEF line
<1>6. CASE cmd \in Operations
  <2>1. cmd \notin {"JOIN", "PART", "WHO", "MODES"}
    BY <1>6 DEF Operations, Modes
  <2>2. Served(b, line) = IF b \in chan.ops THEN Operated(cmd, arg) ELSE Ignored
    BY <1>1, <2>1 DEF Served
  <2> QED BY <1>2, <1>6, <2>1, <2>2, IgnoredSound, OperatedSound DEF line
<1> QED BY <1>3, <1>4, <1>5, <1>6 DEF Sends

-----------------------------------------------------------------------------
(* What a bot makes of what it holds *)

\* The state m of a bot is one that the invariant allows.
Proper(m) == m \in BotStates(intent) /\ Tidy(m)

LEMMA FreshProper ==
  ASSUME NEW m, Proper(m)
  PROVE  /\ Proper(Fresh(m)) /\ View(Fresh(m)) = Outside /\ Fresh(m).link = m.link
         /\ Fresh(m).join = "idle" /\ Fresh(m).desired = m.desired
<1>1. m \in BotStates(intent)
  BY DEF Proper
<1>2. Fresh(m) \in BotStates(intent)
  BY <1>1, LimitsAreNumbers DEF Fresh, BotStates
<1>3. /\ Fresh(m).link = m.link /\ Fresh(m).join = "idle" /\ Fresh(m).desired = m.desired
      /\ Fresh(m).ops = {} /\ Fresh(m).prefixed = {}
  BY <1>1 DEF Fresh, BotStates
<1> QED BY <1>2, <1>3 DEF Proper, Tidy, View

LEMMA ForgetProper ==
  ASSUME NEW m, Proper(m), NEW nick
  PROVE  Proper(Forget(m, nick)) /\ Forget(m, nick).link = m.link
  BY DEF Forget, Proper, Tidy, BotStates

LEMMA TaskProper ==
  ASSUME NEW m, Proper(m), NEW tasks \in SUBSET Tasks
  PROVE  LET m2 == [m EXCEPT !.tasks = tasks] IN
         Proper(m2) /\ m2.link = m.link /\ m2.join = m.join /\ View(m2) = View(m)
  BY DEF Proper, Tidy, BotStates, View

LEMMA AddTaskProper ==
  ASSUME NEW m, Proper(m), NEW task \in Tasks
  PROVE  /\ Proper(AddTask(m, task)) /\ AddTask(m, task).link = m.link
         /\ View(AddTask(m, task)) = View(m)
<1>1. m.tasks \union {task} \in SUBSET Tasks
  BY DEF Proper, BotStates
<1>2. AddTask(m, task) = [m EXCEPT !.tasks = m.tasks \union {task}]
  BY DEF AddTask
<1> HIDE DEF Proper
<1> QED BY <1>1, <1>2, TaskProper

LEMMA AfterSendProper ==
  ASSUME NEW m, Proper(m), NEW line, line.cmd = "JOIN" => m.join # "joined", NEW sent \in BOOLEAN
  PROVE  LET m2 == AfterSend(m, line, sent) IN
         Proper(m2) /\ m2.link = m.link /\ View(m2) = View(m)
<1> DEFINE m2 == AfterSend(m, line, sent)
           join == IF line.cmd = "JOIN" /\ sent THEN "joining" ELSE m.join
           part == IF line.cmd = "PART" THEN ~sent ELSE m.part
<1>1. m \in BotStates(intent) /\ Tidy(m)
  BY DEF Proper
<1>2. /\ m2 = [m EXCEPT !.join = join, !.part = part]
      /\ join \in {"idle", "joining", "joined"} /\ part \in BOOLEAN
      /\ join = "joined" <=> m.join = "joined"
  BY <1>1 DEF AfterSend, BotStates
<1> HIDE DEF m2, join, part
<1>3. m2 \in BotStates(intent)
  BY <1>1, <1>2 DEF BotStates
<1>4. /\ m2.join = join /\ m2.link = m.link /\ m2.desired = m.desired /\ m2.members = m.members
      /\ m2.ops = m.ops /\ m2.prefixed = m.prefixed /\ m2.bans = m.bans /\ m2.limit = m.limit
  BY <1>1, <1>2 DEF BotStates
<1>5. Tidy(m2)
  BY <1>1, <1>2, <1>4 DEF Tidy
<1>6. View(m2) = View(m)
  BY <1>2, <1>4 DEF View
<1> QED BY <1>3, <1>4, <1>5, <1>6 DEF Proper, m2

-----------------------------------------------------------------------------
(* A bot that goes on and sends *)

Budgeted ==
  budget \in [mesh : SUBSET Bots, settled : BOOLEAN, kinds : SUBSET Disturbances,
              left : [Faults -> Nat]]

LEMMA SpentBudgeted ==
  ASSUME Budgeted, NEW what \in Faults, Left(what)
  PROVE  Spent(what) \in [mesh : SUBSET Bots, settled : BOOLEAN, kinds : SUBSET Disturbances,
                          left : [Faults -> Nat]]
<1> DEFINE left == [budget.left EXCEPT ![what] = @ - 1]
<1>1. budget.left \in [Faults -> Nat] /\ budget.left[what] > 0
  BY DEF Budgeted, Left
<1>2. left \in [Faults -> Nat]
  BY <1>1
<1>3. Spent(what) = [budget EXCEPT !.left = left]
  BY DEF Spent
<1> HIDE DEF left
<1> QED BY <1>2, <1>3 DEF Budgeted

\* What a bot may send.
Sendable(line) ==
  line = NoLine \/ \E cmd \in Sends : \E arg : Fits(cmd, arg) /\ line = Line(cmd, arg)

Answered(b, line, sent) == IF sent /\ line # NoLine THEN Served(b, line) ELSE Ignored

LEMMA AnsweredSound ==
  ASSUME chan \in Channels, NEW b \in Bots, NEW line, Sendable(line), NEW sent \in BOOLEAN
  PROVE  /\ Sound(Answered(b, line, sent))
         /\ Answered(b, line, sent).chan.in \subseteq
              IF sent /\ line.cmd = "JOIN" THEN chan.in \union {b} ELSE chan.in
<1>1. Sound(Ignored) /\ Ignored.chan.in = chan.in
  BY IgnoredSound DEF Ignored, Result
<1>2. CASE sent /\ line # NoLine
  <2>0. PICK cmd \in Sends : \E arg : Fits(cmd, arg) /\ line = Line(cmd, arg)
    BY <1>2 DEF Sendable
  <2>1. PICK arg : Fits(cmd, arg) /\ line = Line(cmd, arg)
    BY <2>0
  <2>2. line.cmd = cmd
    BY <2>1 DEF Line
  <2> QED BY <1>2, <2>1, <2>2, ServedSound DEF Answered
<1>3. CASE ~(sent /\ line # NoLine)
  BY <1>1, <1>3 DEF Answered
<1> QED BY <1>2, <1>3

\* Bot b goes on as m and sends: what must be so of b for the invariant to hold again.
LEMMA ActFollowed ==
  ASSUME ChannelInv, UNCHANGED intent, asks' \subseteq Asks,
         NEW b \in Bots, NEW m, Proper(m), b \in chan.in => m.link = "up",
         NEW line, Sendable(line), line.cmd = "JOIN" => m.join # "joined",
         NEW unread \in [Bots -> Seq(Lines)], \A c \in Bots \ {b} : unread[c] = inbox[c],
         \A sent \in Outcomes(m, line) :
           LET r == Answered(b, line, sent) IN
           Leads(b, unread[b] \o r.lines[b], View(m), r.chan),
         Act(b, m, line, unread)
  PROVE  ChannelInv'
<1>1. PICK sent \in Outcomes(m, line) :
        /\ me' = [me EXCEPT ![b] = AfterSend(m, line, sent)]
        /\ budget' = IF ~sent /\ m.link = "up" THEN Spent("full") ELSE budget
        /\ Serve(IF sent /\ line # NoLine THEN Served(b, line) ELSE Ignored, unread)
  BY DEF Act
<1> DEFINE r == Answered(b, line, sent)
           m2 == AfterSend(m, line, sent)
<1>2. chan' = r.chan /\ inbox' = [c \in Bots |-> unread[c] \o r.lines[c]]
  BY <1>1 DEF Serve, Answered
<1>3. sent \in BOOLEAN
  BY <1>1 DEF Outcomes
<1>4. /\ chan \in Channels /\ Budgeted /\ me \in [Bots -> BotStates(intent)]
      /\ \A c \in Bots : Proper(me[c]) /\ (c \in chan.in => me[c].link = "up")
      /\ \A c \in Bots : Leads(c, inbox[c], View(me[c]), chan)
  BY DEF ChannelInv, Budgeted, Proper
<1>5. Sound(r) /\ r.chan.in \subseteq
        IF sent /\ line.cmd = "JOIN" THEN chan.in \union {b} ELSE chan.in
  BY <1>3, <1>4, AnsweredSound
<1>6. Proper(m2) /\ m2.link = m.link /\ View(m2) = View(m)
  BY <1>3, AfterSendProper
<1>7. Leads(b, unread[b] \o r.lines[b], View(m2), r.chan)
  BY <1>1, <1>6
<1>8. budget' \in [mesh : SUBSET Bots, settled : BOOLEAN, kinds : SUBSET Disturbances,
                   left : [Faults -> Nat]]
  <2>1. CASE ~sent /\ m.link = "up"
    <3>1. Left("full")
      BY <1>1, <2>1 DEF Outcomes
    <3>2. "full" \in Faults
      BY DEF Faults
    <3> QED BY <1>1, <1>4, <2>1, <3>1, <3>2, SpentBudgeted
  <2>2. CASE ~(~sent /\ m.link = "up")
    BY <1>1, <1>4, <2>2 DEF Budgeted
  <2> QED BY <2>1, <2>2
<1>9. me' = [me EXCEPT ![b] = m2]
  BY <1>1
<1> HIDE DEF r, m2
<1>10. me' \in [Bots -> BotStates(intent)]
  BY <1>4, <1>6, <1>9 DEF Proper
<1>11. chan' \in Channels /\ inbox' \in [Bots -> Seq(Lines)]
  <2>1. ASSUME NEW c \in Bots PROVE unread[c] \o r.lines[c] \in Seq(Lines)
    <3>1. unread[c] \in Seq(Lines) /\ r.lines[c] \in Seq(Lines)
      BY <1>5 DEF Sound
    <3> QED BY <3>1
  <2> QED BY <1>2, <1>5, <2>1 DEF Sound
<1>12. ASSUME NEW c \in Bots
       PROVE  /\ Tidy(me'[c]) /\ (c \in chan'.in => me'[c].link = "up")
              /\ Leads(c, inbox'[c], View(me'[c]), chan')
  <2>1. CASE c = b
    <3>1. me'[c] = m2
      BY <1>4, <1>9, <2>1
    <3>2. inbox'[c] = unread[b] \o r.lines[b]
      BY <1>2, <2>1
    <3>3. Tidy(me'[c])
      BY <1>6, <3>1 DEF Proper
    <3>4. c \in chan'.in => me'[c].link = "up"
      <4>1. sent /\ line # NoLine => m.link = "up"
        <5>1. m.link \in {"down", "up"}
          BY DEF Proper, BotStates
        <5> QED BY <1>1, <5>1 DEF Outcomes
      <4>2. NoLine.cmd # "JOIN"
        BY DEF NoLine, Line
      <4> QED BY <1>2, <1>5, <1>6, <2>1, <3>1, <4>1, <4>2
    <3>5. Leads(c, inbox'[c], View(me'[c]), chan')
      BY <1>2, <1>7, <2>1, <3>1, <3>2
    <3> QED BY <3>3, <3>4, <3>5
  <2>2. CASE c # b
    <3>1. me'[c] = me[c]
      BY <1>4, <1>9, <2>2
    <3>2. inbox'[c] = inbox[c] \o r.lines[c]
      BY <1>2, <2>2
    <3>3. Tidy(me'[c]) /\ (c \in chan'.in => me'[c].link = "up")
      BY <1>2, <1>4, <1>5, <2>2, <3>1 DEF Proper
    <3>4. inbox[c] \in Seq(Lines) /\ Leads(c, inbox[c], View(me[c]), chan)
      BY <1>4 DEF ChannelInv
    <3>5. Leads(c, inbox[c] \o r.lines[c], View(me[c]), r.chan)
      BY <1>5, <3>4 DEF Sound
    <3> QED BY <1>2, <3>1, <3>2, <3>3, <3>5
  <2> QED BY <2>1, <2>2
<1>13. intent' \in Nat /\ me' \in [Bots -> BotStates(intent')]
  BY <1>10 DEF ChannelInv
<1> QED BY <1>8, <1>11, <1>12, <1>13 DEF ChannelInv

\* What b sends is answered soundly, so it is enough that what it goes on as is right.
LEMMA ActKeeps ==
  ASSUME ChannelInv, UNCHANGED intent, asks' \subseteq Asks,
         NEW b \in Bots, NEW m, Proper(m), b \in chan.in => m.link = "up",
         NEW line, Sendable(line), line.cmd = "JOIN" => m.join # "joined",
         NEW unread \in [Bots -> Seq(Lines)], \A c \in Bots \ {b} : unread[c] = inbox[c],
         Leads(b, unread[b], View(m), chan),
         Act(b, m, line, unread)
  PROVE  ChannelInv'
<1>1. ASSUME NEW sent \in Outcomes(m, line)
      PROVE  LET r == Answered(b, line, sent) IN
             Leads(b, unread[b] \o r.lines[b], View(m), r.chan)
  <2>1. sent \in BOOLEAN /\ chan \in Channels
    BY DEF Outcomes, ChannelInv
  <2>2. Sound(Answered(b, line, sent))
    BY <2>1, AnsweredSound
  <2> QED BY <2>2 DEF Sound
<1> QED BY <1>1, ActFollowed

-----------------------------------------------------------------------------
(* The handlers: what a bot makes of a line is what the view makes of it *)

LEMMA LineShape ==
  ASSUME NEW line \in Lines
  PROVE  line = Line(line.cmd, line.arg)
  BY DEF Line, Lines, Nicks

LEMMA ViewsEqual ==
  ASSUME NEW u \in Views, NEW w \in Views, u.join = w.join, u.members = w.members,
         u.ops = w.ops, u.prefixed = w.prefixed, u.bans = w.bans, u.limit = w.limit
  PROVE  u = w
  BY DEF Views

LEMMA ViewParts ==
  ASSUME NEW m, Proper(m)
  PROVE  /\ View(m) \in Views
         /\ m.join = "joined" =>
              /\ View(m).join = "joined" /\ View(m).members = m.members
              /\ View(m).ops = m.ops /\ View(m).prefixed = m.prefixed
              /\ View(m).bans = m.bans /\ View(m).limit = m.limit
         /\ m.join # "joined" => View(m) = Outside /\ View(m).join = "idle"
<1>1. m \in BotStates(intent)
  BY DEF Proper
<1>2. m.members \in SUBSET Bots /\ m.ops \in SUBSET Bots /\ m.prefixed \in SUBSET Bots
      /\ m.bans \in SUBSET Bots /\ m.limit \in Limits
  BY <1>1 DEF BotStates
<1>3. View(m) \in Views
  BY <1>2, ViewValues DEF View, Views
<1> QED BY <1>3 DEF View, Outside

Shows(m, u) ==
  /\ m.members = u.members /\ m.ops = u.ops /\ m.prefixed = u.prefixed
  /\ m.bans = u.bans /\ m.limit = u.limit

\* A bot whose part of the view is what the line makes of the view.
LEMMA SameView ==
  ASSUME NEW b \in Bots, NEW m, Proper(m), NEW m2, Proper(m2), m2.join = m.join,
         NEW line \in Lines, line # Line("JOIN", b),
         Inside(b, View(m), line).join = View(m).join,
         m.join = "joined" => Shows(m2, Inside(b, View(m), line))
  PROVE  View(m2) = NextView(b, View(m), line)
<1> DEFINE u == Inside(b, View(m), line)
<1>1. CASE m.join = "joined"
  <2>1. View(m) \in Views /\ View(m2) \in Views /\ View(m).join = "joined"
    BY <1>1, ViewParts
  <2>2. u \in Views
    BY <2>1, InsideTyped
  <2>3. View(m2) = u
    BY <1>1, <2>1, <2>2, ViewParts, ViewsEqual DEF Shows
  <2> QED BY <2>1, <2>3 DEF NextView
<1>2. CASE m.join # "joined"
  <2>1. View(m).join = "idle" /\ View(m2) = Outside
    BY <1>2, ViewParts
  <2> QED BY <2>1 DEF NextView
<1> QED BY <1>1, <1>2

LEMMA InvBot ==
  ASSUME ChannelInv, NEW b \in Bots
  PROVE  /\ Proper(me[b]) /\ chan \in Channels /\ inbox[b] \in Seq(Lines)
         /\ b \in chan.in => me[b].link = "up"
         /\ Leads(b, inbox[b], View(me[b]), chan)
  BY DEF ChannelInv, Proper

LEMMA UnreadFacts ==
  ASSUME ChannelInv, NEW b \in Bots, inbox[b] # <<>>
  PROVE  LET unread == [inbox EXCEPT ![b] = Tail(@)] IN
         /\ unread \in [Bots -> Seq(Lines)] /\ unread[b] = Tail(inbox[b])
         /\ \A c \in Bots \ {b} : unread[c] = inbox[c]
         /\ Head(inbox[b]) \in Lines
<1>1. inbox \in [Bots -> Seq(Lines)]
  BY DEF ChannelInv
<1>2. Tail(inbox[b]) \in Seq(Lines) /\ Head(inbox[b]) \in Lines
  BY <1>1, TailFacts
<1> DEFINE rest == Tail(inbox[b])
<1> HIDE DEF rest
<1>3. [inbox EXCEPT ![b] = rest] \in [Bots -> Seq(Lines)]
  BY <1>1, <1>2 DEF rest
<1> QED BY <1>1, <1>2, <1>3 DEF rest

LEMMA ReadKeeps ==
  ASSUME ChannelInv, NEW b \in Bots, inbox[b] # <<>>, Head(inbox[b]).cmd # "NAMES",
         NEW m, Proper(m), m.link = me[b].link,
         View(m) = NextView(b, View(me[b]), Head(inbox[b])),
         NEW line, Sendable(line), line.cmd = "JOIN" => m.join # "joined", Read(b, m, line)
  PROVE  ChannelInv'
<1> DEFINE unread == [inbox EXCEPT ![b] = Tail(@)]
<1>1. /\ unread \in [Bots -> Seq(Lines)] /\ unread[b] = Tail(inbox[b])
      /\ \A c \in Bots \ {b} : unread[c] = inbox[c]
  BY UnreadFacts
<1>2. Act(b, m, line, unread) /\ UNCHANGED <<intent, asks>>
  BY DEF Read
<1>3. Leads(b, Tail(inbox[b]), View(m), chan)
  BY InvBot, ReadLeads
<1>4. asks' \subseteq Asks /\ UNCHANGED intent
  BY <1>2 DEF ChannelInv
<1> HIDE DEF unread
<1>5. Leads(b, unread[b], View(m), chan)
  BY <1>1, <1>3
<1> QED BY <1>1, <1>2, <1>4, <1>5, InvBot, ActKeeps

LEMMA NothingSent == Sendable(NoLine) /\ NoLine.cmd # "JOIN"
  BY DEF Sendable, NoLine, Line

LEMMA NickSent ==
  ASSUME NEW cmd \in Sends \ {"+l"}, NEW b \in Bots
  PROVE  Sendable(Line(cmd, b)) /\ Line(cmd, b).cmd = cmd
<1>1. Fits(cmd, b)
  BY DEF Fits
<1>2. Line(cmd, b).cmd = cmd
  BY DEF Line
<1> QED BY <1>1, <1>2 DEF Sendable

LEMMA SendsCommands ==
  {"JOIN", "PART", "WHO", "MODES", "KICK", "INVITE", "+t", "+o", "-o", "+b", "-b", "+i", "-t"}
    \subseteq Sends \ {"+l"}
  BY DEF Sends, Operations, Modes

LEMMA JoinHandled ==
  ASSUME ChannelInv, NEW b \in Bots, HandleJoin(b)
  PROVE  ChannelInv'
<1> DEFINE line == Head(inbox[b])
           nick == Arg(b)
           m0 == IF nick = b THEN [Fresh(me[b]) EXCEPT !.join = "joined"] ELSE me[b]
           m2 == [Seen(m0, {nick}) EXCEPT !.prefixed = @ \union {nick}]
<1>1. /\ inbox[b] # <<>> /\ line.cmd = "JOIN" /\ me[b].desired /\ line.arg = nick
      /\ Read(b, m2, NoLine)
  BY DEF HandleJoin, Reads, Cmd, Arg
<1>2. line \in Lines /\ nick \in Bots
  BY <1>1, UnreadFacts, LineKinds DEF Snapshots
<1>3. line = Line("JOIN", nick)
  BY <1>1, <1>2, LineShape
<1>4. Proper(me[b])
  BY InvBot
<1> HIDE DEF line
<1>5. CASE nick = b
  <2> DEFINE m1 == Fresh(me[b])
  <2>1. /\ Proper(m1) /\ m1.link = me[b].link /\ m1.desired /\ m1.members = {} /\ m1.ops = {}
        /\ m1.prefixed = {} /\ m1.bans = {} /\ m1.limit = 0
    <3>1. me[b] \in BotStates(intent)
      BY <1>4 DEF Proper
    <3>2. /\ m1.members = {} /\ m1.ops = {} /\ m1.prefixed = {} /\ m1.bans = {}
          /\ m1.limit = 0
      BY <3>1 DEF Fresh, BotStates
    <3>3. Proper(m1) /\ m1.link = me[b].link /\ m1.desired
      BY <1>1, <1>4, FreshProper
    <3> QED BY <3>2, <3>3
  <2>2. m2 = [Seen([m1 EXCEPT !.join = "joined"], {b}) EXCEPT !.prefixed = @ \union {b}]
    BY <1>5
  <2> HIDE DEF m1, m0, m2, nick
  <2>3. /\ m2 \in BotStates(intent) /\ m2.link = me[b].link /\ m2.join = "joined"
        /\ m2.members = {b} /\ m2.ops = {} /\ m2.prefixed = {b} /\ m2.bans = {} /\ m2.limit = 0
        /\ m2.desired
    BY <2>1, <2>2 DEF Proper, Seen, BotStates
  <2>4. Proper(m2)
    BY <2>3 DEF Proper, Tidy
  <2>5. View(m2) = Entered(b)
    BY <2>3 DEF View, Entered
  <2>6. View(m2) = NextView(b, View(me[b]), line)
    BY <1>3, <1>5, <2>5 DEF NextView
  <2> QED BY <1>1, <2>3, <2>4, <2>6, NothingSent, ReadKeeps DEF line
<1>6. CASE nick # b
  <2>1. line # Line("JOIN", b)
    BY <1>3, <1>6 DEF Line
  <2>2. m2 = [Seen(me[b], {nick}) EXCEPT !.prefixed = @ \union {nick}]
    BY <1>6
  <2> HIDE DEF m0, m2, nick
  <2>3. /\ m2 \in BotStates(intent) /\ m2.link = me[b].link /\ m2.join = me[b].join
        /\ m2.members = me[b].members \union {nick} /\ m2.ops = me[b].ops
        /\ m2.prefixed = me[b].prefixed \union {nick} /\ m2.bans = me[b].bans
        /\ m2.limit = me[b].limit /\ m2.desired = me[b].desired
    BY <1>2, <1>4, <2>2 DEF Proper, Seen, BotStates
  <2>4. Proper(m2)
    BY <1>4, <2>3 DEF Proper, Tidy
  <2> DEFINE v == View(me[b])
             u == Inside(b, v, line)
  <2>5. u = [Seen(v, {nick}) EXCEPT !.prefixed = @ \union {nick}]
    BY <1>1 DEF Inside
  <2>6. v \in Views
    BY <1>4, ViewParts
  <2> HIDE DEF v, u
  <2>7. /\ u.join = v.join /\ u.members = v.members \union {nick} /\ u.ops = v.ops
        /\ u.prefixed = v.prefixed \union {nick} /\ u.bans = v.bans /\ u.limit = v.limit
    BY <2>5, <2>6 DEF Seen, Views
  <2>8. View(m2) = NextView(b, View(me[b]), line)
    <3>1. me[b].join = "joined" => Shows(m2, u)
      BY <1>4, <2>3, <2>7, ViewParts DEF Shows, v
    <3>2. u = Inside(b, View(me[b]), line) /\ u.join = View(me[b]).join
      BY <2>7 DEF u, v
    <3> QED BY <1>2, <1>4, <2>1, <2>3, <2>4, <3>1, <3>2, SameView
  <2> QED BY <1>1, <2>3, <2>4, <2>8, NothingSent, ReadKeeps DEF line
<1> QED BY <1>5, <1>6

LEMMA AwayView ==
  ASSUME ChannelInv, NEW b \in Bots, inbox[b] # <<>>,
         Head(inbox[b]).cmd \in {"PART", "QUIT", "KICK"}
  PROVE  LET m2 == Away(b, Arg(b)) IN
         /\ Proper(m2) /\ m2.link = me[b].link
         /\ View(m2) = NextView(b, View(me[b]), Head(inbox[b]))
<1> DEFINE line == Head(inbox[b])
           nick == Arg(b)
<1>1. line \in Lines /\ nick \in Bots /\ line.arg = nick
  BY UnreadFacts, LineKinds DEF Snapshots, Arg
<1>2. line # Line("JOIN", b)
  BY DEF Line
<1>3. Proper(me[b])
  BY InvBot
<1>4. line.cmd \in {"PART", "QUIT", "KICK"}
  OBVIOUS
<1> HIDE DEF line
<1>5. CASE nick = b
  <2>1. Away(b, nick) = Fresh(me[b])
    BY <1>5 DEF Away
  <2>2. NextView(b, View(me[b]), line) = Outside
    BY <1>1, <1>2, <1>4, <1>5 DEF NextView, Inside
  <2> QED BY <1>3, <2>1, <2>2, FreshProper DEF line
<1>6. CASE nick # b
  <2> DEFINE m2 == Forget(me[b], nick)
             v == View(me[b])
             u == Inside(b, v, line)
  <2>1. Away(b, nick) = m2
    BY <1>6 DEF Away
  <2>2. Proper(m2) /\ m2.link = me[b].link
    BY <1>3, ForgetProper
  <2>3. /\ m2.join = me[b].join /\ m2.members = me[b].members \ {nick}
        /\ m2.ops = me[b].ops \ {nick} /\ m2.prefixed = me[b].prefixed \ {nick}
        /\ m2.bans = me[b].bans /\ m2.limit = me[b].limit
    BY <1>3 DEF Forget, Proper, BotStates
  <2>4. u = Forget(v, nick)
    BY <1>1, <1>4, <1>6 DEF Inside
  <2>5. v \in Views
    BY <1>3, ViewParts
  <2> HIDE DEF v, u, m2
  <2>6. /\ u.join = v.join /\ u.members = v.members \ {nick} /\ u.ops = v.ops \ {nick}
        /\ u.prefixed = v.prefixed \ {nick} /\ u.bans = v.bans /\ u.limit = v.limit
    BY <2>4, <2>5 DEF Forget, Views
  <2>7. View(m2) = NextView(b, View(me[b]), line)
    <3>1. me[b].join = "joined" => Shows(m2, u)
      BY <1>3, <2>3, <2>6, ViewParts DEF Shows, v
    <3>2. u = Inside(b, View(me[b]), line) /\ u.join = View(me[b]).join
      BY <2>6 DEF u, v
    <3> QED BY <1>1, <1>2, <1>3, <2>2, <2>3, <3>1, <3>2, SameView
  <2> QED BY <2>1, <2>2, <2>7 DEF line
<1> QED BY <1>5, <1>6

LEMMA LeaveHandled ==
  ASSUME ChannelInv, NEW b \in Bots, HandleLeave(b)
  PROVE  ChannelInv'
<1>1. /\ inbox[b] # <<>> /\ Head(inbox[b]).cmd \in {"PART", "QUIT"}
      /\ Read(b, Away(b, Arg(b)), NoLine)
  BY DEF HandleLeave, Reads
<1> DEFINE m2 == Away(b, Arg(b))
<1>2. /\ Proper(m2) /\ m2.link = me[b].link
      /\ View(m2) = NextView(b, View(me[b]), Head(inbox[b]))
  BY <1>1, AwayView
<1> HIDE DEF m2
<1> QED BY <1>1, <1>2, NothingSent, ReadKeeps DEF m2

LEMMA KickHandled ==
  ASSUME ChannelInv, NEW b \in Bots, HandleKick(b)
  PROVE  ChannelInv'
<1> DEFINE m1 == Away(b, Arg(b))
           m2 == IF Arg(b) = b THEN AddTask(Away(b, b), "unban") ELSE Away(b, Arg(b))
<1>1. inbox[b] # <<>> /\ Head(inbox[b]).cmd = "KICK" /\ Read(b, m2, NoLine)
  BY DEF HandleKick, Reads
<1>2. /\ Proper(m1) /\ m1.link = me[b].link
      /\ View(m1) = NextView(b, View(me[b]), Head(inbox[b]))
  BY <1>1, AwayView
<1>3. m2 \in {m1, AddTask(m1, "unban")} /\ "unban" \in Tasks
  BY DEF Tasks, Kinds
<1> HIDE DEF m1, m2
<1>4. /\ Proper(m2) /\ m2.link = me[b].link
      /\ View(m2) = NextView(b, View(me[b]), Head(inbox[b]))
  BY <1>2, <1>3, AddTaskProper
<1> QED BY <1>1, <1>4, NothingSent, ReadKeeps

LEMMA ListedProper ==
  ASSUME NEW m, Proper(m), NEW ch \in Channels
  PROVE  LET m2 == Listed(m, ch) IN
         /\ Proper(m2) /\ m2.link = m.link /\ m2.join = m.join /\ m2.desired = m.desired
         /\ m2.members = m.members \union ch.in /\ m2.ops = (m.ops \ ch.in) \union ch.ops
         /\ m2.prefixed = m.prefixed /\ m2.bans = m.bans /\ m2.limit = m.limit
<1> DEFINE m2 == Listed(m, ch)
<1>1. m \in BotStates(intent) /\ Tidy(m)
  BY DEF Proper
<1>2. /\ ch.in \in SUBSET Bots /\ ch.ops \in SUBSET ch.in
  BY ChannelParts
<1>3. m2 = [[m EXCEPT !.members = @ \union ch.in] EXCEPT !.ops = (@ \ ch.in) \union ch.ops]
  BY DEF Listed, Seen
<1> HIDE DEF m2
<1>4. /\ m2 \in BotStates(intent) /\ m2.link = m.link /\ m2.join = m.join
      /\ m2.desired = m.desired
      /\ m2.members = m.members \union ch.in /\ m2.ops = (m.ops \ ch.in) \union ch.ops
      /\ m2.prefixed = m.prefixed /\ m2.bans = m.bans /\ m2.limit = m.limit
  BY <1>1, <1>2, <1>3 DEF BotStates
<1>5. Tidy(m2)
  BY <1>1, <1>2, <1>4 DEF Tidy
<1> QED BY <1>4, <1>5 DEF Proper, m2

LEMMA ListedView ==
  ASSUME NEW v \in Views, NEW ch \in Channels
  PROVE  LET u == Listed(v, ch) IN
         /\ u \in Views /\ u.join = v.join
         /\ u.members = v.members \union ch.in /\ u.ops = (v.ops \ ch.in) \union ch.ops
         /\ u.prefixed = v.prefixed /\ u.bans = v.bans /\ u.limit = v.limit
<1>1. ch.in \in SUBSET Bots /\ ch.ops \in SUBSET Bots
  BY ChannelParts
<1> QED BY <1>1 DEF Listed, Seen, Views

LEMMA WhoHandled ==
  ASSUME ChannelInv, NEW b \in Bots, HandleWho(b)
  PROVE  ChannelInv'
<1> DEFINE line == Head(inbox[b])
           ch == Arg(b)
           l == Listed(me[b], ch)
           m2 == [l EXCEPT !.prefixed = @ \union ch.in, !.bans = @ \union ch.bans,
                           !.limit = ch.limit]
           v == View(me[b])
           lv == Listed(v, ch)
           u == Inside(b, v, line)
<1>1. inbox[b] # <<>> /\ line.cmd = "WHO" /\ line.arg = ch /\ Read(b, m2, NoLine)
  BY DEF HandleWho, Reads, Arg
<1>2. line \in Lines /\ ch \in Channels /\ line # Line("JOIN", b)
  BY <1>1, UnreadFacts, LineKinds DEF Snapshots, Line
<1>3. Proper(me[b]) /\ v \in Views
  BY InvBot, ViewParts
<1> HIDE DEF line, ch
<1>4. /\ ch.in \in SUBSET Bots /\ ch.bans \in SUBSET Bots /\ ch.limit \in Limits
  BY <1>2, ChannelParts
<1>5. /\ Proper(l) /\ l.link = me[b].link /\ l.join = me[b].join
      /\ l.members = me[b].members \union ch.in
      /\ l.ops = (me[b].ops \ ch.in) \union ch.ops
      /\ l.prefixed = me[b].prefixed /\ l.bans = me[b].bans
  BY <1>2, <1>3, ListedProper
<1>6. u = [lv EXCEPT !.prefixed = @ \union ch.in, !.bans = @ \union ch.bans,
                     !.limit = ch.limit]
  BY <1>1 DEF Inside
<1> HIDE DEF v
<1>7. /\ lv \in Views /\ lv.join = v.join /\ lv.members = v.members \union ch.in
      /\ lv.ops = (v.ops \ ch.in) \union ch.ops
      /\ lv.prefixed = v.prefixed /\ lv.bans = v.bans
  BY <1>2, <1>3, ListedView
<1>8. m2 = [l EXCEPT !.prefixed = @ \union ch.in, !.bans = @ \union ch.bans,
                     !.limit = ch.limit]
  OBVIOUS
<1> HIDE DEF l, lv, m2, u
<1>9. /\ m2 \in BotStates(intent) /\ m2.link = l.link /\ m2.join = l.join
      /\ m2.members = l.members /\ m2.ops = l.ops /\ m2.desired = l.desired
      /\ m2.prefixed = l.prefixed \union ch.in /\ m2.bans = l.bans \union ch.bans
      /\ m2.limit = ch.limit
  BY <1>4, <1>5, <1>8 DEF Proper, BotStates
<1>10. Proper(m2)
  BY <1>5, <1>9 DEF Proper, Tidy
<1>11. /\ u.join = lv.join /\ u.members = lv.members /\ u.ops = lv.ops
       /\ u.prefixed = lv.prefixed \union ch.in /\ u.bans = lv.bans \union ch.bans
       /\ u.limit = ch.limit
  BY <1>6, <1>7 DEF Views
<1>12. View(m2) = NextView(b, View(me[b]), line)
  <2>1. me[b].join = "joined" => Shows(m2, u)
    BY <1>3, <1>5, <1>7, <1>9, <1>11, ViewParts DEF Shows, v
  <2>2. u = Inside(b, View(me[b]), line) /\ u.join = View(me[b]).join
    BY <1>7, <1>11 DEF u, v
  <2>3. m2.join = me[b].join
    BY <1>5, <1>9
  <2> QED BY <1>2, <1>3, <1>10, <2>1, <2>2, <2>3, SameView
<1>13. m2.link = me[b].link
  BY <1>5, <1>9
<1> QED BY <1>1, <1>10, <1>12, <1>13, NothingSent, ReadKeeps DEF line

LEMMA ChannelModesHandled ==
  ASSUME ChannelInv, NEW b \in Bots, HandleChannelModes(b)
  PROVE  ChannelInv'
<1> DEFINE line == Head(inbox[b])
           ch == Arg(b)
           m2 == [me[b] EXCEPT !.limit = ch.limit]
           v == View(me[b])
           u == Inside(b, v, line)
<1>1. inbox[b] # <<>> /\ line.cmd = "MODES" /\ line.arg = ch /\ Read(b, m2, NoLine)
  BY DEF HandleChannelModes, Reads, Arg
<1>2. line \in Lines /\ ch \in Channels /\ line # Line("JOIN", b)
  BY <1>1, UnreadFacts, LineKinds DEF Snapshots, Line
<1>3. Proper(me[b]) /\ v \in Views /\ ch.limit \in Limits
  BY <1>2, InvBot, ViewParts, ChannelParts
<1>4. u = [v EXCEPT !.limit = ch.limit] /\ m2 = [me[b] EXCEPT !.limit = ch.limit]
  BY <1>1 DEF Inside
<1> HIDE DEF line, ch, v, u, m2
<1>5. /\ m2 \in BotStates(intent) /\ m2.link = me[b].link /\ m2.join = me[b].join
      /\ m2.members = me[b].members /\ m2.ops = me[b].ops /\ m2.desired = me[b].desired
      /\ m2.prefixed = me[b].prefixed /\ m2.bans = me[b].bans /\ m2.limit = ch.limit
  BY <1>3, <1>4 DEF Proper, BotStates
<1>6. Proper(m2)
  BY <1>3, <1>5 DEF Proper, Tidy
<1>7. /\ u.join = v.join /\ u.members = v.members /\ u.ops = v.ops
      /\ u.prefixed = v.prefixed /\ u.bans = v.bans /\ u.limit = ch.limit
  BY <1>3, <1>4 DEF Views
<1>8. View(m2) = NextView(b, View(me[b]), line)
  <2>1. me[b].join = "joined" => Shows(m2, u)
    BY <1>3, <1>5, <1>7, ViewParts DEF Shows, v
  <2>2. u = Inside(b, View(me[b]), line) /\ u.join = View(me[b]).join
    BY <1>7 DEF u, v
  <2> QED BY <1>2, <1>3, <1>5, <1>6, <2>1, <2>2, SameView
<1> QED BY <1>1, <1>5, <1>6, <1>8, NothingSent, ReadKeeps DEF line

\* A mode changes what a bot holds as it changes the view.
LEMMA AppliedSame ==
  ASSUME NEW m, Proper(m), NEW v \in Views, NEW cmd, NEW arg, Fits(cmd, arg)
  PROVE  LET m2 == Applied(m, cmd, arg)
             u == Applied(v, cmd, arg) IN
         /\ Proper(m2) /\ m2.link = m.link /\ m2.join = m.join
         /\ u.join = v.join /\ (Shows(m, v) => Shows(m2, u))
<1> DEFINE m2 == Applied(m, cmd, arg)
           u == Applied(v, cmd, arg)
<1>1. m \in BotStates(intent) /\ Tidy(m)
  BY DEF Proper
<1>2. CASE cmd = "+o"
  <2>1. /\ m2 = [Seen(m, {arg}) EXCEPT !.ops = @ \union {arg}]
        /\ u = [Seen(v, {arg}) EXCEPT !.ops = @ \union {arg}]
        /\ arg \in Bots
    BY <1>2 DEF Applied, Fits
  <2> HIDE DEF m2, u
  <2>2. /\ m2 \in BotStates(intent) /\ m2.link = m.link /\ m2.join = m.join
        /\ m2.desired = m.desired /\ m2.members = m.members \union {arg}
        /\ m2.ops = m.ops \union {arg} /\ m2.prefixed = m.prefixed /\ m2.bans = m.bans
        /\ m2.limit = m.limit
    BY <1>1, <2>1 DEF Seen, BotStates
  <2>3. /\ u.join = v.join /\ u.members = v.members \union {arg}
        /\ u.ops = v.ops \union {arg} /\ u.prefixed = v.prefixed /\ u.bans = v.bans
        /\ u.limit = v.limit
    BY <2>1 DEF Seen, Views
  <2> QED BY <1>1, <2>2, <2>3 DEF Proper, Tidy, Shows, m2, u
<1>3. CASE cmd = "-o"
  <2>1. /\ m2 = [Seen(m, {arg}) EXCEPT !.ops = @ \ {arg}]
        /\ u = [Seen(v, {arg}) EXCEPT !.ops = @ \ {arg}]
        /\ arg \in Bots
    BY <1>3 DEF Applied, Fits
  <2> HIDE DEF m2, u
  <2>2. /\ m2 \in BotStates(intent) /\ m2.link = m.link /\ m2.join = m.join
        /\ m2.desired = m.desired /\ m2.members = m.members \union {arg}
        /\ m2.ops = m.ops \ {arg} /\ m2.prefixed = m.prefixed /\ m2.bans = m.bans
        /\ m2.limit = m.limit
    BY <1>1, <2>1 DEF Seen, BotStates
  <2>3. /\ u.join = v.join /\ u.members = v.members \union {arg}
        /\ u.ops = v.ops \ {arg} /\ u.prefixed = v.prefixed /\ u.bans = v.bans
        /\ u.limit = v.limit
    BY <2>1 DEF Seen, Views
  <2> QED BY <1>1, <2>2, <2>3 DEF Proper, Tidy, Shows, m2, u
<1>4. CASE cmd \in {"+b", "-b"}
  <2> DEFINE Now(bans) == IF cmd = "+b" THEN bans \union {arg} ELSE bans \ {arg}
  <2>1. /\ m2 = [m EXCEPT !.bans = Now(m.bans)] /\ u = [v EXCEPT !.bans = Now(v.bans)]
        /\ arg \in Bots
    BY <1>4 DEF Applied, Fits
  <2>2. Now(m.bans) \in SUBSET Bots
    BY <1>1, <2>1 DEF BotStates
  <2> HIDE DEF m2, u, Now
  <2>3. /\ m2 \in BotStates(intent) /\ m2.link = m.link /\ m2.join = m.join
        /\ m2.desired = m.desired /\ m2.members = m.members
        /\ m2.ops = m.ops /\ m2.prefixed = m.prefixed /\ m2.bans = Now(m.bans)
        /\ m2.limit = m.limit
    BY <1>1, <2>1, <2>2 DEF BotStates
  <2>4. /\ u.join = v.join /\ u.members = v.members
        /\ u.ops = v.ops /\ u.prefixed = v.prefixed /\ u.bans = Now(v.bans)
        /\ u.limit = v.limit
    BY <2>1 DEF Views
  <2> QED BY <1>1, <2>3, <2>4 DEF Proper, Tidy, Shows, m2, u
<1>5. CASE cmd = "+l"
  <2>1. m2 = [m EXCEPT !.limit = arg] /\ u = [v EXCEPT !.limit = arg] /\ arg \in Limits
    BY <1>5 DEF Applied, Fits
  <2> HIDE DEF m2, u
  <2>2. /\ m2 \in BotStates(intent) /\ m2.link = m.link /\ m2.join = m.join
        /\ m2.desired = m.desired /\ m2.members = m.members
        /\ m2.ops = m.ops /\ m2.prefixed = m.prefixed /\ m2.bans = m.bans
        /\ m2.limit = arg
    BY <1>1, <2>1 DEF BotStates
  <2>3. /\ u.join = v.join /\ u.members = v.members
        /\ u.ops = v.ops /\ u.prefixed = v.prefixed /\ u.bans = v.bans
        /\ u.limit = arg
    BY <2>1 DEF Views
  <2> QED BY <1>1, <2>2, <2>3 DEF Proper, Tidy, Shows, m2, u
<1>6. CASE cmd \notin {"+o", "-o", "+b", "-b", "+l"}
  BY <1>6 DEF Applied
<1> QED BY <1>2, <1>3, <1>4, <1>5, <1>6

LEMMA ModeHandled ==
  ASSUME ChannelInv, NEW b \in Bots, HandleMode(b)
  PROVE  ChannelInv'
<1> DEFINE line == Head(inbox[b])
           m1 == Applied(me[b], line.cmd, line.arg)
           tasks == m1.tasks \union ModeTasks(b, b \in m1.ops, line.cmd, line.arg)
           m2 == [m1 EXCEPT !.tasks = tasks]
           asked == IF b \in m1.ops /\ ~SelfOpped(b) THEN Line("MODES", b) ELSE NoLine
           v == View(me[b])
           u == Inside(b, v, line)
<1>1. /\ inbox[b] # <<>> /\ line.cmd \in {"+o", "-o", "+b", "-b", "+l", "+i", "+t", "-t"}
      /\ Read(b, m2, asked)
  BY DEF HandleMode, Reads, Arg, Cmd
<1>2. line \in Lines /\ line # Line("JOIN", b) /\ Fits(line.cmd, line.arg)
  <2>1. line \in Lines
    BY <1>1, UnreadFacts
  <2> HIDE DEF line
  <2>2. Fits(line.cmd, line.arg)
    BY <1>1, <2>1, LineKinds DEF Snapshots, Fits
  <2> QED BY <1>1, <2>1, <2>2 DEF Line
<1>3. Proper(me[b]) /\ v \in Views /\ (me[b].join = "joined" => Shows(me[b], v))
  BY InvBot, ViewParts DEF Shows
<1> HIDE DEF line
<1>4. u = Applied(v, line.cmd, line.arg)
  BY <1>1 DEF Inside
<1>5. /\ Proper(m1) /\ m1.link = me[b].link /\ m1.join = me[b].join
      /\ u.join = v.join /\ (me[b].join = "joined" => Shows(m1, u))
  <2> HIDE DEF v
  <2>1. LET m3 == Applied(me[b], line.cmd, line.arg)
            w == Applied(v, line.cmd, line.arg) IN
        /\ Proper(m3) /\ m3.link = me[b].link /\ m3.join = me[b].join
        /\ w.join = v.join /\ (Shows(me[b], v) => Shows(m3, w))
    BY <1>2, <1>3, AppliedSame
  <2> HIDE DEF u
  <2> QED BY <1>3, <1>4, <2>1
<1>6. View(m1) = NextView(b, View(me[b]), line)
  <2> HIDE DEF m1
  <2> QED BY <1>2, <1>3, <1>5, SameView
<1>7. tasks \in SUBSET Tasks
  <2>1. m1.tasks \in SUBSET Tasks
    BY <1>5 DEF Proper, BotStates
  <2>2. ModeTasks(b, b \in m1.ops, line.cmd, line.arg) \in SUBSET Tasks
    BY DEF ModeTasks, Tasks, Kinds
  <2> QED BY <2>1, <2>2
<1> HIDE DEF m1, tasks
<1>8. Proper(m2) /\ m2.link = m1.link /\ View(m2) = View(m1)
  BY <1>5, <1>7, TaskProper
<1>9. Sendable(asked) /\ asked.cmd # "JOIN"
  BY NothingSent, NickSent, SendsCommands
<1>10. line.cmd # "NAMES"
  BY <1>1
<1> HIDE DEF m2, asked
<1> QED BY <1>1, <1>5, <1>6, <1>8, <1>9, <1>10, ReadKeeps DEF line

LEMMA InviteHandled ==
  ASSUME ChannelInv, NEW b \in Bots, HandleInvite(b)
  PROVE  ChannelInv'
<1> DEFINE line == Head(inbox[b])
           sent == IF me[b].join = "joined" THEN NoLine ELSE Line("JOIN", b)
           v == View(me[b])
<1>1. inbox[b] # <<>> /\ line.cmd = "INVITE" /\ Read(b, me[b], sent)
  BY DEF HandleInvite, Reads
<1>2. line \in Lines /\ line # Line("JOIN", b)
  BY <1>1, UnreadFacts DEF Line
<1>3. Proper(me[b])
  BY InvBot
<1> HIDE DEF line
<1>4. Inside(b, v, line) = v
  BY <1>1 DEF Inside, Applied
<1>5. me[b].join = "joined" => Shows(me[b], Inside(b, v, line))
  BY <1>3, <1>4, ViewParts DEF Shows
<1>6. View(me[b]) = NextView(b, View(me[b]), line)
  BY <1>2, <1>3, <1>4, <1>5, SameView
<1>7. Sendable(sent) /\ (sent.cmd = "JOIN" => me[b].join # "joined")
  BY NothingSent, NickSent, SendsCommands
<1> HIDE DEF sent
<1> QED BY <1>1, <1>3, <1>6, <1>7, ReadKeeps DEF line

LEMMA IdleProper ==
  ASSUME NEW m, Proper(m)
  PROVE  Proper(Idle(m)) /\ Idle(m).link = m.link /\ View(Idle(m)) = View(m)
<1>1. CASE m.join = "joining"
  <2>1. Idle(m) = [m EXCEPT !.join = "idle"]
    BY <1>1 DEF Idle
  <2> DEFINE m2 == Idle(m)
  <2>2. /\ m2 \in BotStates(intent) /\ m2.link = m.link /\ m2.join = "idle"
        /\ m2.members = m.members /\ m2.ops = m.ops /\ m2.prefixed = m.prefixed
    BY <2>1 DEF Proper, BotStates
  <2> HIDE DEF m2
  <2>3. Proper(m2)
    BY <2>2 DEF Proper, Tidy
  <2>4. View(m2) = Outside /\ View(m) = Outside
    BY <1>1, <2>2 DEF View
  <2> QED BY <2>2, <2>3, <2>4 DEF m2
<1>2. CASE m.join # "joining"
  BY <1>2 DEF Idle
<1> QED BY <1>1, <1>2

LEMMA RefusalHandled ==
  ASSUME ChannelInv, NEW b \in Bots, HandleRefusal(b)
  PROVE  ChannelInv'
<1> DEFINE line == Head(inbox[b])
           kind == CASE line.cmd = "471" -> "limit" [] line.cmd = "473" -> "invite"
                     [] OTHER -> "unban"
           m1 == Idle(me[b])
           m2 == AddTask(m1, kind)
           v == View(me[b])
<1>1. inbox[b] # <<>> /\ line.cmd \in {"471", "473", "474"} /\ Read(b, m2, NoLine)
  BY DEF HandleRefusal, Reads, Cmd
<1>2. line \in Lines /\ line # Line("JOIN", b)
  BY <1>1, UnreadFacts DEF Line
<1>3. Proper(me[b]) /\ kind \in Tasks
  BY InvBot DEF Tasks, Kinds
<1> HIDE DEF line, kind
<1>4. Inside(b, v, line) = v
  BY <1>1 DEF Inside, Applied
<1>5. me[b].join = "joined" => Shows(me[b], Inside(b, v, line))
  BY <1>3, <1>4, ViewParts DEF Shows
<1>6. View(me[b]) = NextView(b, View(me[b]), line)
  BY <1>2, <1>3, <1>4, <1>5, SameView
<1>7. Proper(m1) /\ m1.link = me[b].link /\ View(m1) = View(me[b])
  BY <1>3, IdleProper
<1> HIDE DEF m1
<1>8. Proper(m2) /\ m2.link = m1.link /\ View(m2) = View(m1)
  BY <1>3, <1>7, AddTaskProper
<1>9. line.cmd # "NAMES"
  BY <1>1
<1> HIDE DEF m2
<1> QED BY <1>1, <1>6, <1>7, <1>8, <1>9, NothingSent, ReadKeeps DEF line

\* A bot that does not want to be in skips what it reads.
LEMMA UndesiredHandled ==
  ASSUME ChannelInv, NEW b \in Bots, HandleUndesired(b)
  PROVE  ChannelInv'
<1> DEFINE sent == IF Head(inbox[b]) = Line("JOIN", b) THEN Line("PART", b) ELSE NoLine
           unread == [inbox EXCEPT ![b] = Tail(@)]
<1>1. inbox[b] # <<>> /\ ~me[b].desired /\ Read(b, me[b], sent)
  BY DEF HandleUndesired
<1>2. Proper(me[b]) /\ me[b].join # "joined"
  BY <1>1, InvBot DEF Proper, Tidy
<1>3. View(me[b]) = Outside
  BY <1>2 DEF View
<1>4. Leads(b, Tail(inbox[b]), View(me[b]), chan)
  BY <1>1, <1>3, InvBot, SkipsLine
<1>5. /\ unread \in [Bots -> Seq(Lines)] /\ unread[b] = Tail(inbox[b])
      /\ \A c \in Bots \ {b} : unread[c] = inbox[c]
  BY <1>1, UnreadFacts
<1>6. Sendable(sent)
  BY NothingSent, NickSent, SendsCommands
<1>7. Act(b, me[b], sent, unread) /\ UNCHANGED <<intent, asks>>
  BY <1>1 DEF Read
<1>8. asks' \subseteq Asks /\ UNCHANGED intent
  BY <1>7 DEF ChannelInv
<1> HIDE DEF sent, unread
<1>9. Leads(b, unread[b], View(me[b]), chan)
  BY <1>4, <1>5
<1> QED BY <1>2, <1>5, <1>6, <1>7, <1>8, <1>9, InvBot, ActKeeps

\* The names are followed by a WHO, whose reply completes what the bot knows.
LEMMA NamesHandled ==
  ASSUME ChannelInv, NEW b \in Bots, HandleNames(b)
  PROVE  ChannelInv'
<1> DEFINE line == Head(inbox[b])
           ch == Arg(b)
           m1 == Listed(me[b], ch)
           task == IF b \in m1.ops THEN "enforce" ELSE "op"
           m2 == AddTask(m1, task)
           who == Line("WHO", b)
           unread == [inbox EXCEPT ![b] = Tail(@)]
           v == View(me[b])
           u == Inside(b, v, line)
<1>1. inbox[b] # <<>> /\ line.cmd = "NAMES" /\ line.arg = ch /\ Read(b, m2, who)
  BY DEF HandleNames, Reads, Arg
<1>2. line \in Lines /\ ch \in Channels /\ line # Line("JOIN", b)
  BY <1>1, UnreadFacts, LineKinds DEF Snapshots, Line
<1>3. Proper(me[b]) /\ v \in Views /\ task \in Tasks
  BY InvBot, ViewParts DEF Tasks, Kinds
<1> HIDE DEF line, ch, task
<1>4. /\ Proper(m1) /\ m1.link = me[b].link /\ m1.join = me[b].join
      /\ m1.members = me[b].members \union ch.in
      /\ m1.ops = (me[b].ops \ ch.in) \union ch.ops
      /\ m1.prefixed = me[b].prefixed /\ m1.bans = me[b].bans /\ m1.limit = me[b].limit
  BY <1>2, <1>3, ListedProper
<1>5. /\ u.join = v.join /\ u.members = v.members \union ch.in
      /\ u.ops = (v.ops \ ch.in) \union ch.ops
      /\ u.prefixed = v.prefixed /\ u.bans = v.bans /\ u.limit = v.limit
  <2>1. u = Listed(v, ch)
    BY <1>1 DEF Inside
  <2> HIDE DEF v, u
  <2> QED BY <1>2, <1>3, <2>1, ListedView
<1>6. View(m1) = NextView(b, View(me[b]), line)
  <2> HIDE DEF v, u, m1
  <2>1. me[b].join = "joined" => Shows(m1, u)
    BY <1>3, <1>4, <1>5, ViewParts DEF Shows, v
  <2>2. u = Inside(b, View(me[b]), line) /\ u.join = View(me[b]).join
    BY <1>5 DEF u, v
  <2> QED BY <1>2, <1>3, <1>4, <2>1, <2>2, SameView
<1> HIDE DEF m1
<1>7. Proper(m2) /\ m2.link = me[b].link /\ View(m2) = NextView(b, View(me[b]), line)
  BY <1>3, <1>4, <1>6, AddTaskProper
<1>8. /\ unread \in [Bots -> Seq(Lines)] /\ unread[b] = Tail(inbox[b])
      /\ \A c \in Bots \ {b} : unread[c] = inbox[c]
  BY <1>1, UnreadFacts
<1>9. Act(b, m2, who, unread) /\ UNCHANGED <<intent, asks>>
  BY <1>1 DEF Read
<1>10. asks' \subseteq Asks /\ UNCHANGED intent
  BY <1>9 DEF ChannelInv
<1>11. Sendable(who) /\ who.cmd = "WHO" /\ who # NoLine
  BY NickSent, SendsCommands DEF Line, NoLine
<1> HIDE DEF m2, unread
<1>12. ASSUME NEW sent \in Outcomes(m2, who)
       PROVE  LET r == Answered(b, who, sent) IN
              Leads(b, unread[b] \o r.lines[b], View(m2), r.chan)
  <2> DEFINE r == Answered(b, who, sent)
             q == inbox[b]
  <2>1. sent \in BOOLEAN /\ chan \in Channels
    BY InvBot DEF Outcomes
  <2>2. q \in Seq(Lines) /\ q # <<>> /\ Head(q) = line /\ Leads(b, q, View(me[b]), chan)
    BY <1>1, InvBot DEF line
  <2>3. CASE b \in chan.in /\ sent
    <3>1. r = Result(chan, To({b}, Line("WHO", chan)))
      BY <1>11, <2>3 DEF Answered, Served, Line
    <3>2. r.chan = chan /\ r.lines[b] = <<Line("WHO", chan)>>
      BY <3>1 DEF Result, To
    <3>3. Leads(b, Append(Tail(q), Line("WHO", chan)), View(m2), chan)
      BY <1>7, <2>1, <2>2, NamesLead
    <3>4. Tail(q) \in Seq(Lines) /\ Line("WHO", chan) \in Lines
      BY <2>1, <2>2, TailFacts, WhoIsALine
    <3> DEFINE rest == Tail(q)
               shown == Line("WHO", chan)
    <3> HIDE DEF rest, shown, r, q
    <3>5. rest \o <<shown>> = Append(rest, shown)
      BY <3>4, Concatenation DEF rest, shown
    <3> QED BY <1>8, <3>2, <3>3, <3>5 DEF rest, shown, r, q
  <2>4. CASE b \notin chan.in \/ ~sent
    <3>1. b \notin chan.in \/ "WHO" \in Droppable
      <4>1. SUFFICES ASSUME b \in chan.in, ~sent PROVE "WHO" \in Droppable
        BY <2>4
      <4>2. m2.link = "up"
        BY <1>7, <4>1, InvBot
      <4> QED BY <1>11, <1>12, <4>1, <4>2 DEF Outcomes
    <3>2. Leads(b, Tail(q), View(m2), chan)
      BY <1>7, <2>2, <3>1, ReadLeads
    <3>3. Sound(r)
      BY <1>11, <2>1, AnsweredSound
    <3>4. unread[b] \in Seq(Lines) /\ Leads(b, unread[b], View(m2), chan)
      BY <1>8, <3>2
    <3> HIDE DEF r
    <3> QED BY <3>3, <3>4 DEF Sound, r
  <2> QED BY <2>1, <2>3, <2>4
<1>13. b \in chan.in => m2.link = "up"
  BY <1>7, InvBot
<1>14. who.cmd # "JOIN"
  BY <1>11
<1> HIDE DEF who
<1> QED BY <1>7, <1>8, <1>9, <1>10, <1>11, <1>12, <1>13, <1>14, ActFollowed

LEMMA LineHandled ==
  ASSUME ChannelInv, NEW b \in Bots, HandleLine(b)
  PROVE  ChannelInv'
  BY UndesiredHandled, JoinHandled, LeaveHandled, KickHandled, NamesHandled, WhoHandled,
     ChannelModesHandled, ModeHandled, InviteHandled, RefusalHandled DEF HandleLine

-----------------------------------------------------------------------------
(* The other steps *)

\* A step that leaves the channel and every inbox as they are.
LEMMA HeldKeeps ==
  ASSUME ChannelInv, UNCHANGED <<chan, intent, inbox>>, asks' \subseteq Asks, Budgeted',
         NEW b \in Bots, NEW m, Proper(m), m.link = me[b].link, View(m) = View(me[b]),
         me' = [me EXCEPT ![b] = m]
  PROVE  ChannelInv'
<1>1. me \in [Bots -> BotStates(intent)] /\ me' \in [Bots -> BotStates(intent)]
  BY DEF ChannelInv, Proper
<1>2. ASSUME NEW c \in Bots
      PROVE  /\ Tidy(me'[c]) /\ (c \in chan.in => me'[c].link = "up")
             /\ Leads(c, inbox[c], View(me'[c]), chan)
  <2>1. /\ Proper(me[c]) /\ (c \in chan.in => me[c].link = "up")
        /\ Leads(c, inbox[c], View(me[c]), chan)
    BY InvBot
  <2>2. CASE c = b
    <3>1. me'[c] = m
      BY <1>1, <2>2
    <3> QED BY <2>1, <2>2, <3>1 DEF Proper
  <2>3. CASE c # b
    <3>1. me'[c] = me[c]
      BY <1>1, <2>3
    <3> QED BY <2>1, <3>1 DEF Proper
  <2> QED BY <2>2, <2>3
<1>3. /\ chan' = chan /\ intent' = intent /\ inbox' = inbox
      /\ chan \in Channels /\ intent \in Nat /\ inbox \in [Bots -> Seq(Lines)]
  BY DEF ChannelInv
<1> QED BY <1>1, <1>2, <1>3 DEF ChannelInv, Budgeted

\* A step of the server that leaves what the bots hold as it is.
LEMMA ServeKeeps ==
  ASSUME ChannelInv, UNCHANGED <<intent, me, asks>>, Budgeted',
         NEW r, Sound(r), \A c \in r.chan.in : me[c].link = "up", Serve(r, inbox)
  PROVE  ChannelInv'
<1>1. chan' = r.chan /\ inbox' = [c \in Bots |-> inbox[c] \o r.lines[c]]
  BY DEF Serve
<1>2. ASSUME NEW c \in Bots
      PROVE  /\ inbox[c] \o r.lines[c] \in Seq(Lines)
             /\ Tidy(me[c]) /\ (c \in r.chan.in => me[c].link = "up")
             /\ Leads(c, inbox[c] \o r.lines[c], View(me[c]), r.chan)
  <2>1. /\ Proper(me[c]) /\ inbox[c] \in Seq(Lines)
        /\ Leads(c, inbox[c], View(me[c]), chan)
    BY InvBot
  <2>2. r.lines[c] \in Seq(Lines)
    BY DEF Sound
  <2>3. inbox[c] \o r.lines[c] \in Seq(Lines)
    BY <2>1, <2>2
  <2> QED BY <2>1, <2>3 DEF Sound, Proper
<1>3. /\ chan' \in Channels /\ inbox' \in [Bots -> Seq(Lines)]
      /\ \A c \in Bots : inbox'[c] = inbox[c] \o r.lines[c]
  BY <1>1, <1>2 DEF Sound
<1>4. ASSUME NEW c \in Bots
      PROVE  /\ Tidy(me'[c]) /\ (c \in chan'.in => me'[c].link = "up")
             /\ Leads(c, inbox'[c], View(me'[c]), chan')
  BY <1>1, <1>2, <1>3
<1>5. /\ intent' = intent /\ me' = me /\ asks' = asks
      /\ intent \in Nat /\ me \in [Bots -> BotStates(intent)] /\ asks \subseteq Asks
  BY DEF ChannelInv
<1> QED BY <1>3, <1>4, <1>5 DEF ChannelInv, Budgeted

LEMMA SpendBudgeted ==
  ASSUME ChannelInv, NEW what \in Faults, Spend(what)
  PROVE  Budgeted'
<1>1. Budgeted /\ Left(what) /\ budget' = Spent(what)
  BY DEF ChannelInv, Budgeted, Spend
<1>2. Spent(what) \in [mesh : SUBSET Bots, settled : BOOLEAN, kinds : SUBSET Disturbances,
                       left : [Faults -> Nat]]
  BY <1>1, SpentBudgeted
<1> QED BY <1>1, <1>2 DEF Budgeted

LEMMA MeshBots ==
  ASSUME ChannelInv
  PROVE  Mesh \in SUBSET Bots
  BY DEF ChannelInv, Mesh

LEMMA DisturbKeeps ==
  ASSUME ChannelInv, NEW b \in Bots, NEW cmd \in Disturbances, Disturb(cmd, b)
  PROVE  ChannelInv'
<1> DEFINE arg == IF cmd = "+l" THEN Cardinality(chan.in) ELSE b
           r == Operated(cmd, arg)
<1>1. Serve(r, inbox) /\ UNCHANGED <<intent, me, asks>> /\ Spend("disturb")
  BY DEF Disturb
<1>2. chan \in Channels /\ chan.in \in SUBSET Bots
  BY ChannelParts DEF ChannelInv
<1>3. Cardinality(chan.in) \in Limits
  BY <1>2, FS_Subset, FS_CardinalityType DEF Limits
<1>4. Fits(cmd, arg)
  BY <1>3 DEF Fits
<1>5. cmd \in Operations
  BY DEF Disturbances, Operations, Modes
<1> HIDE DEF arg
<1>6. Sound(r) /\ r.chan.in \subseteq chan.in
  BY <1>2, <1>4, <1>5, OperatedSound
<1>7. \A c \in r.chan.in : me[c].link = "up"
  BY <1>2, <1>6, InvBot
<1>8. Budgeted'
  BY <1>1, SpendBudgeted DEF Faults
<1> HIDE DEF r
<1> QED BY <1>1, <1>6, <1>7, <1>8, ServeKeeps

LEMMA CommandKeeps ==
  ASSUME ChannelInv, NEW b \in Bots, NEW cmd \in AdminCommands, NEW nick \in Mesh,
         Command(b, cmd, nick)
  PROVE  ChannelInv'
<1> DEFINE r == Served(b, Line(cmd, nick))
<1>1. Serve(r, inbox) /\ UNCHANGED <<intent, me, asks>> /\ Spend("admin")
  BY DEF Command
<1>2. chan \in Channels /\ chan.in \in SUBSET Bots /\ nick \in Bots
  BY ChannelParts, MeshBots DEF ChannelInv
<1>3. cmd \in Sends /\ cmd # "JOIN" /\ Fits(cmd, nick)
  <2>1. cmd \in Sends /\ cmd # "JOIN" /\ cmd # "+l"
    BY DEF AdminCommands, Sends, Operations, Modes
  <2> QED BY <1>2, <2>1 DEF Fits
<1>4. Sound(r) /\ r.chan.in \subseteq chan.in
  BY <1>2, <1>3, ServedSound
<1>5. \A c \in r.chan.in : me[c].link = "up"
  BY <1>2, <1>4, InvBot
<1>6. Budgeted'
  BY <1>1, SpendBudgeted DEF Faults
<1> HIDE DEF r
<1> QED BY <1>1, <1>4, <1>5, <1>6, ServeKeeps

LEMMA JoinAgainKeeps ==
  ASSUME ChannelInv, NEW b \in Bots, JoinAgain(b)
  PROVE  ChannelInv'
<1> DEFINE r == Served(b, Line("JOIN", b))
<1>1. /\ me[b].link = "up" /\ Spend("late") /\ Serve(Joined(b), inbox)
      /\ UNCHANGED <<intent, me, asks>>
  BY DEF JoinAgain
<1>2. r = Joined(b)
  BY DEF Served, Line
<1>3. chan \in Channels /\ chan.in \in SUBSET Bots
  BY ChannelParts DEF ChannelInv
<1>4. "JOIN" \in Sends /\ Fits("JOIN", b)
  BY DEF Sends, Fits
<1>5. Sound(r) /\ r.chan.in \subseteq chan.in \union {b}
  BY <1>3, <1>4, ServedSound
<1>6. \A c \in r.chan.in : me[c].link = "up"
  BY <1>1, <1>3, <1>5, InvBot
<1>7. Budgeted'
  BY <1>1, SpendBudgeted DEF Faults
<1> HIDE DEF r
<1> QED BY <1>1, <1>2, <1>5, <1>6, <1>7, ServeKeeps

LEMMA RequestKeeps ==
  ASSUME ChannelInv, NEW b \in Bots, NEW m, Proper(m), m.link = me[b].link,
         View(m) = View(me[b]), NEW kind \in Kinds, Request(b, m, kind)
  PROVE  ChannelInv'
<1>1. me' = [me EXCEPT ![b] = m] /\ UNCHANGED <<chan, intent, inbox>>
  BY DEF Request
<1>2. asks \subseteq Asks /\ Budgeted /\ Mesh \in SUBSET Bots
  BY MeshBots DEF ChannelInv, Budgeted
<1>3. asks' \subseteq Asks /\ Budgeted'
  <2>1. CASE MayRequest(m, b, kind)
    <3>1. PICK reached \in SUBSET (Mesh \ {b}) :
            /\ IF reached = Mesh \ {b} THEN UNCHANGED budget ELSE Spend("lost")
            /\ asks' = asks \union {[kind |-> kind, from |-> b, to |-> p] : p \in reached}
      BY <2>1 DEF Request
    <3>2. \A p \in reached : [kind |-> kind, from |-> b, to |-> p] \in Asks
      BY <1>2 DEF Asks
    <3>3. asks' \subseteq Asks
      BY <1>2, <3>1, <3>2
    <3>4. Budgeted'
      <4>1. CASE UNCHANGED budget
        BY <1>2, <4>1 DEF Budgeted
      <4>2. CASE Spend("lost")
        BY <4>2, SpendBudgeted DEF Faults
      <4> QED BY <3>1, <4>1, <4>2
    <3> QED BY <3>3, <3>4
  <2>2. CASE ~MayRequest(m, b, kind)
    <3>1. UNCHANGED <<asks, budget>>
      BY <2>2 DEF Request
    <3> QED BY <1>2, <3>1 DEF Budgeted
  <2> QED BY <2>1, <2>2
<1> QED BY <1>1, <1>3, HeldKeeps

\* A step of b that reads nothing.
LEMMA SendKeeps ==
  ASSUME ChannelInv, UNCHANGED intent, asks' \subseteq Asks,
         NEW b \in Bots, NEW m, Proper(m), b \in chan.in => m.link = "up",
         View(m) \in {View(me[b]), Outside},
         NEW line, Sendable(line), line.cmd = "JOIN" => m.join # "joined",
         Act(b, m, line, inbox)
  PROVE  ChannelInv'
<1>1. Leads(b, inbox[b], View(m), chan)
  <2>1. inbox[b] \in Seq(Lines) /\ Leads(b, inbox[b], View(me[b]), chan)
    BY InvBot
  <2> QED BY <2>1, ForgetsAll
<1>2. inbox \in [Bots -> Seq(Lines)]
  BY DEF ChannelInv
<1> QED BY <1>1, <1>2, ActKeeps

LEMMA TaskKeeps ==
  ASSUME ChannelInv, NEW b \in Bots, NEW task \in Tasks, RunTask(b, task)
  PROVE  ChannelInv'
<1> DEFINE tasks == me[b].tasks \ {task}
           m == [me[b] EXCEPT !.tasks = tasks]
<1>1. IF task = "enforce" THEN Act(b, m, Line("+t", b), inbox) /\ UNCHANGED <<intent, asks>>
                          ELSE Request(b, m, task)
  BY DEF RunTask
<1>2. Proper(me[b]) /\ tasks \in SUBSET Tasks /\ (b \in chan.in => me[b].link = "up")
  BY InvBot DEF Proper, BotStates
<1> HIDE DEF tasks
<1>3. Proper(m) /\ m.link = me[b].link /\ View(m) = View(me[b])
  BY <1>2, TaskProper
<1> HIDE DEF m
<1>4. CASE task = "enforce"
  <2>1. Sendable(Line("+t", b)) /\ Line("+t", b).cmd # "JOIN"
    BY NickSent, SendsCommands
  <2>2. UNCHANGED intent /\ asks' \subseteq Asks
    BY <1>1, <1>4 DEF ChannelInv
  <2> DEFINE line == Line("+t", b)
  <2>3. Act(b, m, line, inbox) /\ Sendable(line) /\ line.cmd # "JOIN"
    BY <1>1, <1>4, <2>1
  <2> HIDE DEF line
  <2> QED BY <1>2, <1>3, <2>2, <2>3, SendKeeps
<1>5. CASE task # "enforce"
  <2>1. task \in Kinds
    BY <1>5 DEF Tasks
  <2> QED BY <1>1, <1>3, <1>5, <2>1, RequestKeeps
<1> QED BY <1>4, <1>5

\* An answer fits the channel: there is room for every bot at most.
LEMMA RoomFits ==
  ASSUME ChannelInv, NEW b \in Bots
  PROVE  Room(b) \in Limits
<1> DEFINE members == me[b].members
           out == LeftOut(b)
<1>1. members \in SUBSET Bots /\ out \in SUBSET Bots /\ members \intersect out = {}
  BY InvBot, MeshBots DEF Proper, BotStates, LeftOut
<1> HIDE DEF members, out
<1>2. IsFiniteSet(members) /\ IsFiniteSet(out)
  BY <1>1, FS_Subset
<1>3. Cardinality(members \union out) = Cardinality(members) + Cardinality(out)
  <2>1. /\ Cardinality(members \union out)
             = Cardinality(members) + Cardinality(out) - Cardinality(members \intersect out)
        /\ Cardinality(members) \in Nat /\ Cardinality(out) \in Nat
    BY <1>2, FS_Union, FS_CardinalityType
  <2>2. Cardinality(members \intersect out) = 0
    BY <1>1, FS_EmptySet
  <2> QED BY <2>1, <2>2
<1>4. Cardinality(members \union out) \in Limits
  <2>1. members \union out \in SUBSET Bots
    BY <1>1
  <2> QED BY <2>1, FS_Subset, FS_CardinalityType DEF Limits
<1> QED BY <1>3, <1>4 DEF Room, members, out

LEMMA HelpKeeps ==
  ASSUME ChannelInv, NEW ask \in asks, Help(ask)
  PROVE  ChannelInv'
<1> DEFINE b == ask.to
           line == Answer(ask)
<1>1. ask \in Asks /\ b \in Bots /\ ask.from \in Bots
  BY DEF ChannelInv, Asks
<1>2. /\ asks' = asks \ {ask} /\ Act(b, me[b], line, inbox) /\ UNCHANGED intent
  BY DEF Help
<1>3. asks' \subseteq Asks
  BY <1>2 DEF ChannelInv
<1>4. Sendable(line) /\ line.cmd # "JOIN"
  <2>1. line \in {Line("+o", ask.from), Line("INVITE", ask.from), Line("-b", ask.from),
                  Line("+l", Room(b)), NoLine}
    BY DEF Answer
  <2>2. Sendable(Line("+l", Room(b)))
    <3>1. "+l" \in Sends /\ Fits("+l", Room(b))
      BY <1>1, RoomFits DEF Sends, Operations, Modes, Fits
    <3> QED BY <3>1 DEF Sendable
  <2>3. Line("+l", Room(b)).cmd # "JOIN"
    BY DEF Line
  <2>4. /\ Sendable(Line("+o", ask.from)) /\ Line("+o", ask.from).cmd # "JOIN"
        /\ Sendable(Line("INVITE", ask.from)) /\ Line("INVITE", ask.from).cmd # "JOIN"
        /\ Sendable(Line("-b", ask.from)) /\ Line("-b", ask.from).cmd # "JOIN"
    BY <1>1, NickSent, SendsCommands
  <2> HIDE DEF line
  <2> QED BY <2>1, <2>2, <2>3, <2>4, NothingSent
<1> HIDE DEF line, b
<1>5. Proper(me[b]) /\ (b \in chan.in => me[b].link = "up")
  BY <1>1, InvBot
<1> QED BY <1>1, <1>2, <1>3, <1>4, <1>5, SendKeeps

LEMMA RecordKeeps ==
  ASSUME ChannelInv, WriteRecord
  PROVE  ChannelInv'
<1>1. intent' = intent + 1 /\ UNCHANGED <<chan, me, inbox, asks>> /\ Spend("records")
  BY DEF WriteRecord
<1>2. Budgeted'
  BY <1>1, SpendBudgeted DEF Faults
<1>3. intent' \in Nat /\ BotStates(intent) \subseteq BotStates(intent')
  <2>1. intent \in Nat
    BY DEF ChannelInv
  <2>2. intent' \in Nat /\ 0..intent \subseteq 0..intent'
    BY <1>1, <2>1
  <2> QED BY <2>2 DEF BotStates
<1>4. me' \in [Bots -> BotStates(intent')]
  <2>1. me \in [Bots -> BotStates(intent)] /\ me' = me
    BY <1>1 DEF ChannelInv
  <2> HIDE DEF BotStates
  <2> QED BY <1>3, <2>1
<1>5. chan' \in Channels /\ inbox' \in [Bots -> Seq(Lines)] /\ asks' \subseteq Asks
  BY <1>1 DEF ChannelInv
<1>6. ASSUME NEW c \in Bots
      PROVE  /\ Tidy(me'[c]) /\ (c \in chan'.in => me'[c].link = "up")
             /\ Leads(c, inbox'[c], View(me'[c]), chan')
  BY <1>1, InvBot DEF Proper
<1> QED BY <1>2, <1>3, <1>4, <1>5, <1>6 DEF ChannelInv, Budgeted

LEMMA ApplyKeeps ==
  ASSUME ChannelInv, NEW b \in Bots, ApplyRecord(b)
  PROVE  ChannelInv'
<1>1. PICK rec \in me[b].rec + 1 .. intent :
        /\ LET m == [me[b] EXCEPT !.rec = rec] IN
           IF Present(rec)
             THEN Act(b, [m EXCEPT !.desired = TRUE, !.part = FALSE],
                      IF m.link = "up" /\ m.join = "idle" THEN Line("JOIN", b) ELSE NoLine,
                      inbox)
             ELSE Act(b, [Fresh(m) EXCEPT !.desired = FALSE],
                      IF m.desired THEN Line("PART", b) ELSE NoLine, inbox)
        /\ UNCHANGED <<intent, asks>>
  BY Zenon DEF ApplyRecord
<1> DEFINE m == [me[b] EXCEPT !.rec = rec]
           joined == [m EXCEPT !.desired = TRUE, !.part = FALSE]
           parted == [Fresh(m) EXCEPT !.desired = FALSE]
           join == IF m.link = "up" /\ m.join = "idle" THEN Line("JOIN", b) ELSE NoLine
           part == IF m.desired THEN Line("PART", b) ELSE NoLine
<1>2. /\ Proper(me[b]) /\ intent \in Nat /\ (b \in chan.in => me[b].link = "up")
      /\ UNCHANGED intent /\ asks' \subseteq Asks
  BY <1>1, InvBot DEF ChannelInv
<1>3. me[b].rec \in 0..intent
  BY <1>2 DEF Proper, BotStates
<1>4. rec \in 0..intent
  BY <1>1, <1>2, <1>3
<1>5. /\ m \in BotStates(intent) /\ m.link = me[b].link /\ m.join = me[b].join
      /\ m.desired = me[b].desired /\ m.members = me[b].members /\ m.ops = me[b].ops
      /\ m.prefixed = me[b].prefixed /\ m.bans = me[b].bans /\ m.limit = me[b].limit
  BY <1>2, <1>4 DEF Proper, BotStates
<1>6. Proper(m) /\ View(m) = View(me[b])
  BY <1>2, <1>5 DEF Proper, Tidy, View
<1>7. CASE Present(rec)
  <2>1. Act(b, joined, join, inbox)
    BY <1>1, <1>7
  <2>2. Sendable(join) /\ (join.cmd = "JOIN" => m.join = "idle")
    BY NothingSent, NickSent, SendsCommands
  <2>3. joined = [m EXCEPT !.desired = TRUE, !.part = FALSE]
    OBVIOUS
  <2> HIDE DEF m, joined, join
  <2>4. /\ joined \in BotStates(intent) /\ joined.link = m.link /\ joined.join = m.join
        /\ joined.desired = TRUE /\ joined.members = m.members /\ joined.ops = m.ops
        /\ joined.prefixed = m.prefixed /\ joined.bans = m.bans /\ joined.limit = m.limit
    BY <1>6, <2>3 DEF Proper, BotStates
  <2>5. Proper(joined) /\ View(joined) = View(me[b])
    BY <1>6, <2>4 DEF Proper, Tidy, View
  <2>6. (b \in chan.in => joined.link = "up") /\ (join.cmd = "JOIN" => joined.join # "joined")
    BY <1>2, <1>5, <2>2, <2>4
  <2> QED BY <1>2, <2>1, <2>2, <2>5, <2>6, SendKeeps
<1>8. CASE ~Present(rec)
  <2>1. Act(b, parted, part, inbox)
    BY <1>1, <1>8
  <2>2. Sendable(part) /\ part.cmd # "JOIN"
    BY NothingSent, NickSent, SendsCommands
  <2> DEFINE f == Fresh(m)
  <2>3. parted = [f EXCEPT !.desired = FALSE]
    OBVIOUS
  <2> HIDE DEF m, parted, part
  <2>4. Proper(f) /\ f.link = m.link /\ f.join = "idle"
    BY <1>6, FreshProper
  <2> HIDE DEF f
  <2>5. /\ parted \in BotStates(intent) /\ parted.link = m.link /\ parted.join = "idle"
        /\ parted.members = f.members /\ parted.ops = f.ops /\ parted.prefixed = f.prefixed
    BY <2>3, <2>4 DEF Proper, BotStates
  <2>6. Proper(parted) /\ View(parted) = Outside
    BY <2>4, <2>5 DEF Proper, Tidy, View
  <2>7. b \in chan.in => parted.link = "up"
    BY <1>2, <1>5, <2>5
  <2> QED BY <1>2, <2>1, <2>2, <2>6, <2>7, SendKeeps
<1> QED BY <1>7, <1>8

LEMMA RetryKeeps ==
  ASSUME ChannelInv, NEW b \in Bots, RetryPart(b)
  PROVE  ChannelInv'
<1> DEFINE m == [me[b] EXCEPT !.part = FALSE]
           line == IF me[b].desired THEN NoLine ELSE Line("PART", b)
<1>1. Act(b, m, line, inbox) /\ UNCHANGED <<intent, asks>>
  BY DEF RetryPart
<1>2. Proper(me[b]) /\ (b \in chan.in => me[b].link = "up")
  BY InvBot
<1>3. /\ m \in BotStates(intent) /\ m.link = me[b].link /\ m.join = me[b].join
      /\ m.desired = me[b].desired /\ m.members = me[b].members /\ m.ops = me[b].ops
      /\ m.prefixed = me[b].prefixed /\ m.bans = me[b].bans /\ m.limit = me[b].limit
  BY <1>2 DEF Proper, BotStates
<1>4. Sendable(line) /\ line.cmd # "JOIN"
  BY NothingSent, NickSent, SendsCommands
<1>5. UNCHANGED intent /\ asks' \subseteq Asks
  BY <1>1 DEF ChannelInv
<1> HIDE DEF m, line
<1>6. Proper(m) /\ View(m) = View(me[b])
  BY <1>2, <1>3 DEF Proper, Tidy, View
<1> QED BY <1>1, <1>2, <1>3, <1>4, <1>5, <1>6, SendKeeps

LEMMA JoinKeeps ==
  ASSUME ChannelInv, NEW b \in Bots, JoinDesired(b)
  PROVE  ChannelInv'
<1> DEFINE line == Line("JOIN", b)
<1>1. Act(b, me[b], line, inbox) /\ UNCHANGED <<intent, asks>> /\ me[b].join # "joined"
  BY DEF JoinDesired, Overdue
<1>2. Proper(me[b]) /\ (b \in chan.in => me[b].link = "up")
  BY InvBot
<1>3. Sendable(line)
  BY NickSent, SendsCommands
<1>4. UNCHANGED intent /\ asks' \subseteq Asks
  BY <1>1 DEF ChannelInv
<1> HIDE DEF line
<1> QED BY <1>1, <1>2, <1>3, <1>4, SendKeeps

LEMMA AskKeeps ==
  ASSUME ChannelInv, NEW b \in Bots, AskForOp(b)
  PROVE  ChannelInv'
  BY InvBot, RequestKeeps DEF AskForOp, Kinds

LEMMA ConnectKeeps ==
  ASSUME ChannelInv, NEW b \in Bots, Connect(b)
  PROVE  ChannelInv'
<1> DEFINE f == Fresh(me[b])
           m == [f EXCEPT !.link = "up", !.part = FALSE]
           line == IF m.desired THEN Line("JOIN", b) ELSE NoLine
<1>1. Act(b, m, line, inbox) /\ UNCHANGED <<intent, asks>>
  BY DEF Connect
<1>2. Proper(f) /\ f.join = "idle"
  BY InvBot, FreshProper
<1>3. Sendable(line)
  BY NothingSent, NickSent, SendsCommands
<1>4. UNCHANGED intent /\ asks' \subseteq Asks
  BY <1>1 DEF ChannelInv
<1>5. m = [f EXCEPT !.link = "up", !.part = FALSE]
  OBVIOUS
<1> HIDE DEF f, m, line
<1>6. /\ m \in BotStates(intent) /\ m.link = "up" /\ m.join = "idle"
      /\ m.members = f.members /\ m.ops = f.ops /\ m.prefixed = f.prefixed
  BY <1>2, <1>5 DEF Proper, BotStates
<1>7. Proper(m) /\ View(m) = Outside
  BY <1>2, <1>6 DEF Proper, Tidy, View
<1> QED BY <1>1, <1>3, <1>4, <1>6, <1>7, SendKeeps

LEMMA DropKeeps ==
  ASSUME ChannelInv, NEW b \in Bots, NEW crash \in BOOLEAN, Drop(b, crash)
  PROVE  ChannelInv'
<1> DEFINE r == Gone(b, "QUIT")
           f == Fresh(me[b])
           lost == [f EXCEPT !.link = "down", !.part = FALSE]
           m == IF crash THEN NoBot ELSE lost
           ch2 == [r.chan EXCEPT !.invited = @ \ {b}]
<1>1. /\ me' = [me EXCEPT ![b] = m] /\ Spend("drops") /\ chan' = ch2
      /\ inbox' = [c \in Bots |-> IF c = b THEN <<>> ELSE inbox[c] \o r.lines[c]]
      /\ UNCHANGED intent
  BY DEF Drop, ChannelInv
<1>2. asks' \subseteq Asks
  BY DEF Drop, ChannelInv
<1>3. Budgeted'
  BY <1>1, SpendBudgeted DEF Faults
<1>4. chan \in Channels /\ intent \in Nat /\ me \in [Bots -> BotStates(intent)]
  BY DEF ChannelInv
<1>5. Sound(r) /\ r.chan \in Channels /\ r.chan.in = chan.in \ {b}
  BY <1>4, GoneSound, GoneStays DEF Sound
<1> HIDE DEF r
<1>6. /\ ch2 \in Channels /\ ch2.in = r.chan.in /\ ch2.ops = r.chan.ops
      /\ ch2.bans = r.chan.bans /\ ch2.limit = r.chan.limit
  BY <1>5 DEF Channels
<1>7. Proper(m) /\ View(m) = Outside
  <2>1. Proper(f) /\ f.join = "idle"
    BY InvBot, FreshProper
  <2> HIDE DEF f
  <2>2. /\ lost \in BotStates(intent) /\ lost.join = "idle"
        /\ lost.members = f.members /\ lost.ops = f.ops /\ lost.prefixed = f.prefixed
    BY <2>1 DEF Proper, BotStates
  <2> HIDE DEF lost
  <2>3. Proper(lost) /\ View(lost) = Outside
    BY <2>1, <2>2 DEF Proper, Tidy, View
  <2>4. NoBot \in BotStates(intent) /\ NoBot.join = "idle" /\ NoBot.ops = {}
        /\ NoBot.prefixed = {}
    BY <1>4, LimitsAreNumbers DEF NoBot, BotStates
  <2>5. Proper(NoBot) /\ View(NoBot) = Outside
    BY <2>4 DEF Proper, Tidy, View
  <2> QED BY <2>3, <2>5
<1> HIDE DEF m, ch2, f, lost
<1>8. me' \in [Bots -> BotStates(intent)]
  BY <1>1, <1>4, <1>7 DEF Proper
<1>9. ASSUME NEW c \in Bots
      PROVE  /\ inbox'[c] \in Seq(Lines) /\ Tidy(me'[c])
             /\ c \in chan'.in => me'[c].link = "up"
             /\ Leads(c, inbox'[c], View(me'[c]), chan')
  <2>1. CASE c = b
    <3>1. me'[c] = m /\ inbox'[c] = <<>> /\ c \notin chan'.in
      BY <1>1, <1>4, <1>5, <1>6, <2>1
    <3>2. <<>> \in Seq(Lines)
      OBVIOUS
    <3>3. Leads(c, <<>>, Outside, chan')
      BY EmptyLeads
    <3> QED BY <1>7, <3>1, <3>2, <3>3 DEF Proper
  <2>2. CASE c # b
    <3> DEFINE q == inbox[c] \o r.lines[c]
    <3>1. me'[c] = me[c] /\ inbox'[c] = q
      BY <1>1, <1>4, <2>2
    <3>2. /\ Proper(me[c]) /\ inbox[c] \in Seq(Lines) /\ (c \in chan.in => me[c].link = "up")
          /\ Leads(c, inbox[c], View(me[c]), chan)
      BY InvBot
    <3>3. r.lines[c] \in Seq(Lines) /\ Leads(c, q, View(me[c]), r.chan)
      BY <1>5, <3>2 DEF Sound
    <3>4. q \in Seq(Lines)
      BY <3>2, <3>3
    <3> HIDE DEF q
    <3>5. Leads(c, q, View(me[c]), ch2)
      BY <1>6, <3>3, <3>4, UnseenLeads
    <3> QED BY <1>1, <1>5, <1>6, <3>1, <3>2, <3>4, <3>5 DEF Proper
  <2> QED BY <2>1, <2>2
<1>10. inbox' \in [Bots -> Seq(Lines)]
  BY <1>1, <1>9
<1>11. chan' \in Channels /\ intent' = intent
  BY <1>1, <1>6
<1> QED BY <1>2, <1>3, <1>4, <1>8, <1>9, <1>10, <1>11 DEF ChannelInv, Budgeted

-----------------------------------------------------------------------------
(* The invariant *)

LEMMA ChannelInit == Init => ChannelInv
<1> SUFFICES ASSUME Init PROVE ChannelInv
  OBVIOUS
<1>1. Budgeted /\ Mesh \in SUBSET Bots
  BY DEF Init, Budgeted, Mesh
<1>2. inbox = [b \in Bots |-> <<>>] /\ asks = {}
  BY DEF Init
<1>3. inbox \in [Bots -> Seq(Lines)] /\ asks \subseteq Asks
  <2>1. <<>> \in Seq(Lines)
    OBVIOUS
  <2> QED BY <1>2, <2>1
<1>4. CASE budget.settled
  <2>1. /\ chan = [NoChannel EXCEPT !.in = Mesh, !.ops = Mesh, !.topic = TRUE] /\ intent = 1
        /\ me = [b \in Bots |-> IF b \in Mesh THEN SettledBot(Mesh) ELSE NoBot]
    BY <1>4 DEF Init
  <2>2. chan \in Channels /\ chan.in = Mesh /\ chan.ops = Mesh /\ chan.bans = {} /\ chan.limit = 0
    BY <1>1, <2>1, LimitsAreNumbers DEF NoChannel, Channels
  <2>3. NoBot \in BotStates(1) /\ Tidy(NoBot) /\ View(NoBot) = Outside
    BY LimitsAreNumbers DEF NoBot, BotStates, Tidy, View
  <2> DEFINE s == SettledBot(Mesh)
  <2>4. /\ s \in BotStates(1) /\ s.link = "up" /\ s.desired /\ s.join = "joined"
        /\ s.members = Mesh /\ s.ops = Mesh /\ s.prefixed = Mesh /\ s.bans = {} /\ s.limit = 0
    <3> DEFINE up == [NoBot EXCEPT !.link = "up", !.rec = 1, !.desired = TRUE, !.join = "joined"]
    <3>1. NoBot \in BotStates(1) /\ NoBot.bans = {} /\ NoBot.limit = 0
      BY LimitsAreNumbers DEF NoBot, BotStates
    <3>2. s = [up EXCEPT !.members = Mesh, !.ops = Mesh, !.prefixed = Mesh]
      BY DEF SettledBot
    <3>3. /\ up \in BotStates(1) /\ up.link = "up" /\ up.desired = TRUE /\ up.join = "joined"
          /\ up.bans = NoBot.bans /\ up.limit = NoBot.limit
      <4> DEFINE one == [NoBot EXCEPT !.link = "up", !.rec = 1]
      <4>1. 1 \in 0..1
        OBVIOUS
      <4>2. one \in BotStates(1) /\ one.link = "up" /\ one.bans = NoBot.bans
            /\ one.limit = NoBot.limit
        BY <3>1, <4>1 DEF BotStates
      <4>3. up = [one EXCEPT !.desired = TRUE, !.join = "joined"]
        OBVIOUS
      <4> HIDE DEF one, up
      <4> QED BY <4>2, <4>3 DEF BotStates
    <3> HIDE DEF s, up
    <3>4. /\ s \in BotStates(1) /\ s.link = up.link /\ s.desired = up.desired
          /\ s.join = up.join /\ s.members = Mesh /\ s.ops = Mesh /\ s.prefixed = Mesh
          /\ s.bans = up.bans /\ s.limit = up.limit
      BY <1>1, <3>2, <3>3 DEF BotStates
    <3> QED BY <3>1, <3>3, <3>4
  <2> HIDE DEF s
  <2>5. Tidy(s)
    BY <2>4 DEF Tidy
  <2>6. me \in [Bots -> BotStates(1)]
    BY <2>1, <2>3, <2>4 DEF s
  <2>7. ASSUME NEW b \in Bots
        PROVE  /\ Tidy(me[b]) /\ (b \in chan.in => me[b].link = "up")
               /\ Leads(b, inbox[b], View(me[b]), chan)
    <3>1. inbox[b] = <<>>
      BY <1>2
    <3>2. CASE b \notin Mesh
      <4>1. me[b] = NoBot
        BY <2>1, <3>2
      <4> QED BY <2>2, <2>3, <3>1, <3>2, <4>1, EmptyLeads
    <3>3. CASE b \in Mesh
      <4>1. me[b] = s
        BY <2>1, <3>3 DEF s
      <4>2. /\ View(s) \in Views /\ View(s).members = Mesh /\ View(s).ops = Mesh
            /\ View(s).prefixed = Mesh /\ View(s).bans = {} /\ View(s).limit = 0
        BY <2>4, ViewValues DEF View
      <4>3. Follows(b, View(s), chan) /\ Complete(View(s), chan)
        BY <2>2, <3>3, <4>2 DEF Follows, Complete
      <4>4. Leads(b, <<>>, View(s), chan)
        BY <4>2, <4>3, StandsStill
      <4> QED BY <2>4, <2>5, <3>1, <4>1, <4>4
    <3> QED BY <3>2, <3>3
  <2> QED BY <1>1, <1>3, <2>1, <2>2, <2>6, <2>7 DEF ChannelInv, Budgeted
<1>5. CASE ~budget.settled
  <2>1. /\ chan = NoChannel /\ intent = 0
        /\ me = [b \in Bots |-> IF b \in Mesh THEN [NoBot EXCEPT !.link = "up"] ELSE NoBot]
    BY <1>5 DEF Init
  <2>2. chan \in Channels /\ chan.in = {}
    BY <2>1, LimitsAreNumbers DEF NoChannel, Channels
  <2> DEFINE s == [NoBot EXCEPT !.link = "up"]
  <2>3. /\ NoBot \in BotStates(0) /\ Tidy(NoBot) /\ View(NoBot) = Outside
        /\ s \in BotStates(0) /\ Tidy(s) /\ View(s) = Outside
    <3>1. /\ NoBot \in BotStates(0) /\ NoBot.join = "idle" /\ NoBot.ops = {}
          /\ NoBot.prefixed = {}
      BY LimitsAreNumbers DEF NoBot, BotStates
    <3>2. /\ s \in BotStates(0) /\ s.join = NoBot.join /\ s.ops = NoBot.ops
          /\ s.prefixed = NoBot.prefixed
      BY <3>1 DEF BotStates
    <3> HIDE DEF s
    <3> QED BY <3>1, <3>2 DEF Tidy, View
  <2>4. me \in [Bots -> BotStates(0)]
    BY <2>1, <2>3
  <2>5. ASSUME NEW b \in Bots
        PROVE  /\ Tidy(me[b]) /\ b \notin chan.in
               /\ Leads(b, inbox[b], View(me[b]), chan)
    <3>1. inbox[b] = <<>> /\ me[b] \in {s, NoBot}
      BY <1>2, <2>1
    <3> HIDE DEF s
    <3> QED BY <2>2, <2>3, <3>1, EmptyLeads
  <2> QED BY <1>1, <1>3, <2>1, <2>2, <2>4, <2>5 DEF ChannelInv, Budgeted
<1> QED BY <1>4, <1>5

LEMMA ChannelStep == ChannelInv /\ [Next]_vars => ChannelInv'
<1> SUFFICES ASSUME ChannelInv, [Next]_vars PROVE ChannelInv'
  OBVIOUS
<1>1. CASE UNCHANGED vars
  BY <1>1 DEF vars, ChannelInv
<1>2. CASE WriteRecord
  BY <1>2, RecordKeeps
<1>3. CASE \E ask \in asks : Help(ask)
  BY <1>3, HelpKeeps
<1>4. ASSUME NEW b \in Mesh,
             \/ HandleLine(b)
             \/ \E task \in Tasks : RunTask(b, task)
             \/ ApplyRecord(b)
             \/ RetryPart(b) \/ JoinDesired(b) \/ JoinAgain(b) \/ AskForOp(b)
             \/ Connect(b)
             \/ \E crash \in BOOLEAN : Drop(b, crash)
             \/ \E cmd \in Disturbances : Disturb(cmd, b)
             \/ \E cmd \in AdminCommands, nick \in Mesh : Command(b, cmd, nick)
      PROVE  ChannelInv'
  <2>1. b \in Bots
    BY MeshBots
  <2> QED BY <1>4, <2>1, LineHandled, TaskKeeps, ApplyKeeps, RetryKeeps, JoinKeeps,
             JoinAgainKeeps, AskKeeps, ConnectKeeps, DropKeeps, DisturbKeeps, CommandKeeps
<1> QED BY <1>1, <1>2, <1>3, <1>4 DEF Next

LEMMA ChannelInvHolds == Spec => []ChannelInv
  BY ChannelInit, ChannelStep, PTL DEF Spec

-----------------------------------------------------------------------------
(* Theorems *)

\* What the server and the bots hold is of its type in every state: only members of the
\* channel are operators of it (Without, With and Changed keep it so), and a bot knows modes
\* and hosts of members alone (Channel.forget, apply_mode_changes and the NAMES reply).
THEOREM ChannelTypeCorrect == Spec => []TypeOK
<1>1. ChannelInv => TypeOK
  <2> SUFFICES ASSUME ChannelInv PROVE TypeOK
    OBVIOUS
  <2>1. /\ chan \in [in : SUBSET Bots, ops : SUBSET Bots, bans : SUBSET Bots,
                     invited : SUBSET Bots, limit : 0 .. Cardinality(Bots),
                     inviteOnly : BOOLEAN, topic : BOOLEAN]
        /\ chan.ops \subseteq chan.in
    BY DEF ChannelInv, Channels, Limits
  <2>2. intent \in Nat /\ asks \subseteq Asks
    BY DEF ChannelInv
  <2>3. me \in [Bots ->
          [link : {"down", "up"}, rec : 0..intent, desired : BOOLEAN, part : BOOLEAN,
           join : {"idle", "joining", "joined"}, members : SUBSET Bots, ops : SUBSET Bots,
           prefixed : SUBSET Bots, bans : SUBSET Bots, limit : 0 .. Cardinality(Bots),
           tasks : SUBSET Tasks]]
    BY DEF ChannelInv, BotStates, Limits
  <2>4. \A b \in Bots : me[b].ops \union me[b].prefixed \subseteq me[b].members
    BY DEF ChannelInv, Tidy
  <2>5. ASSUME NEW b \in Bots, NEW i \in DOMAIN inbox[b] PROVE inbox[b][i].cmd \in Commands
    <3>1. inbox[b] \in Seq(Lines)
      BY DEF ChannelInv
    <3>2. inbox[b][i] \in Lines
      BY <3>1
    <3> QED BY <3>2, LineKinds
  <2> QED BY <2>1, <2>2, <2>3, <2>4, <2>5 DEF TypeOK
<1> QED BY <1>1, ChannelInvHolds, PTL

\* A bot that is in and has read every line knows the channel: who is in, who is opped, whose
\* prefix it has seen, the bans and the limit, whatever was queued, dropped, refused and
\* answered in between; if its WHO is not refused by a full queue (it is sent once, and
\* nothing sends it again during the stay).
THEOREM ViewTracksHolds ==
  ASSUME "WHO" \notin Droppable
  PROVE  Spec => []ViewTracks
<1>1. ChannelInv => ViewTracks
  <2> SUFFICES ASSUME ChannelInv, NEW b \in Bots, me[b].join = "joined", inbox[b] = <<>>
               PROVE  /\ b \in chan.in /\ me[b].members = chan.in /\ me[b].ops = chan.ops
                      /\ me[b].prefixed = chan.in /\ me[b].limit = chan.limit
                      /\ me[b].bans = chan.bans
    BY DEF ViewTracks
  <2> DEFINE v == View(me[b])
  <2>1. Proper(me[b]) /\ Leads(b, <<>>, v, chan)
    BY InvBot
  <2>2. /\ v.join = "joined" /\ v.members = me[b].members /\ v.ops = me[b].ops
        /\ v.prefixed = me[b].prefixed /\ v.bans = me[b].bans /\ v.limit = me[b].limit
    BY <2>1, ViewParts
  <2> HIDE DEF v
  <2>3. Follows(b, v, chan) /\ Complete(v, chan)
    BY <2>1, <2>2, NothingUnread
  <2> QED BY <2>2, <2>3 DEF Follows, Complete
<1> QED BY <1>1, ChannelInvHolds, PTL

\* Whatever lines a full queue refuses, such a bot knows who is in and who is opped: what it
\* takes itself to be, and who it can op, do not depend on the WHO.
THEOREM MembersTracked ==
  Spec => [](\A b \in Bots : me[b].join = "joined" /\ inbox[b] = <<>> =>
               b \in chan.in /\ me[b].members = chan.in /\ me[b].ops = chan.ops)
<1>1. ChannelInv => \A b \in Bots : me[b].join = "joined" /\ inbox[b] = <<>> =>
                      b \in chan.in /\ me[b].members = chan.in /\ me[b].ops = chan.ops
  <2> SUFFICES ASSUME ChannelInv, NEW b \in Bots, me[b].join = "joined", inbox[b] = <<>>
               PROVE  b \in chan.in /\ me[b].members = chan.in /\ me[b].ops = chan.ops
    OBVIOUS
  <2> DEFINE v == View(me[b])
  <2>1. Proper(me[b]) /\ Leads(b, <<>>, v, chan)
    BY InvBot
  <2>2. v.join = "joined" /\ v.members = me[b].members /\ v.ops = me[b].ops
    BY <2>1, ViewParts
  <2> HIDE DEF v
  <2>3. Follows(b, v, chan)
    BY <2>1, NothingUnread
  <2> QED BY <2>2, <2>3 DEF Follows
<1> QED BY <1>1, ChannelInvHolds, PTL
=============================================================================
