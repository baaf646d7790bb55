------------------------------- MODULE IrcChannel -------------------------------
(***************************************************************************)
(* The bots of a mesh in ONE channel of an IRC network: joining, leaving and  *)
(* help requests of ChannelManager (channel.py), the handlers that track the  *)
(* channel (irc/events.py), the maintenance tick (bot.py), the operator       *)
(* commands (commands.py) and HelpRequests (nats/coordinator.py).             *)
(*                                                                         *)
(* `chan' is the channel as the IRC server has it (external).  A bot reads    *)
(* the lines the server sends it in order and at its own pace, so what it     *)
(* knows lags.  A line a bot queues reaches the server at once, or is refused  *)
(* by a full queue: bots have no clock in common, so a line that waits in its  *)
(* queue is a bot that acts later.  A ban is a mask that matches one bot, and  *)
(* config.channel_modes is "+t".                                             *)
(***************************************************************************)
EXTENDS Naturals, Sequences, FiniteSets

CONSTANTS
  Bots,
  Budgets,    \* how a behaviour starts and what may happen in it: one of these
  Droppable   \* lines that a full queue may refuse

VARIABLES
  chan,       \* the channel on the IRC server
  intent,     \* channel records written: odd ones say present, even ones parted
  me,         \* what each bot holds: its connection and its ChannelRuntime
  inbox,      \* lines from the server a bot has not read
  asks,       \* help requests in a peer's random delay
  budget      \* what may still happen

vars == <<chan, intent, me, inbox, asks, budget>>

Kinds == {"invite", "limit", "op", "unban"}
Tasks == Kinds \union {"enforce"}
Asks == [kind : Kinds, from : Bots, to : Bots]
Disturbances == {"-o", "KICK", "+b", "+l", "+i", "-t"}
AdminCommands == {"+o", "-o", "KICK", "+b", "-b", "INVITE"}
Faults == {"records", "drops", "full", "lost", "late", "admin", "disturb"}

ASSUME BotsAssumption == IsFiniteSet(Bots)

ASSUME BudgetsAssumption ==
  Budgets \subseteq [mesh : SUBSET Bots, settled : BOOLEAN, kinds : SUBSET Disturbances,
                    left : [Faults -> Nat]]

Line(cmd, arg) == [cmd |-> cmd, arg |-> arg]
Commands == Disturbances \union AdminCommands \union
  {"JOIN", "PART", "QUIT", "NAMES", "WHO", "MODES", "+t", "471", "473", "474"}

NoChannel == [in |-> {}, ops |-> {}, bans |-> {}, invited |-> {}, limit |-> 0,
              inviteOnly |-> FALSE, topic |-> FALSE]

NoBot == [link |-> "down", rec |-> 0, desired |-> FALSE, part |-> FALSE, join |-> "idle",
          members |-> {}, ops |-> {}, prefixed |-> {}, bans |-> {}, limit |-> 0, tasks |-> {}]

\* What a bot knows of the channel is about bots, and its lines are ones it handles.
TypeOK ==
  /\ chan \in [in : SUBSET Bots, ops : SUBSET Bots, bans : SUBSET Bots, invited : SUBSET Bots,
               limit : 0 .. Cardinality(Bots), inviteOnly : BOOLEAN, topic : BOOLEAN]
  /\ chan.ops \subseteq chan.in
  /\ intent \in Nat
  /\ me \in [Bots ->
       [link : {"down", "up"}, rec : 0..intent, desired : BOOLEAN, part : BOOLEAN,
        join : {"idle", "joining", "joined"}, members : SUBSET Bots, ops : SUBSET Bots,
        prefixed : SUBSET Bots, bans : SUBSET Bots, limit : 0 .. Cardinality(Bots),
        tasks : SUBSET Tasks]]
  /\ \A b \in Bots : me[b].ops \union me[b].prefixed \subseteq me[b].members
  /\ \A b \in Bots : \A i \in DOMAIN inbox[b] : inbox[b][i].cmd \in Commands
  /\ asks \subseteq Asks

\* The bots of a behaviour.
Mesh == budget.mesh

SettledBot(mesh) ==
  [NoBot EXCEPT !.link = "up", !.rec = 1, !.desired = TRUE, !.join = "joined",
                !.members = mesh, !.ops = mesh, !.prefixed = mesh]

\* Every bot is connected, and knows no record; or all have joined long ago.
Init ==
  /\ budget \in Budgets
  /\ inbox = [b \in Bots |-> <<>>] /\ asks = {}
  /\ IF budget.settled
       THEN /\ chan = [NoChannel EXCEPT !.in = Mesh, !.ops = Mesh, !.topic = TRUE]
            /\ intent = 1
            /\ me = [b \in Bots |-> IF b \in Mesh THEN SettledBot(Mesh) ELSE NoBot]
       ELSE /\ chan = NoChannel
            /\ intent = 0
            /\ me = [b \in Bots |-> IF b \in Mesh THEN [NoBot EXCEPT !.link = "up"] ELSE NoBot]

Left(what) == budget.left[what] > 0
Spent(what) == [budget EXCEPT !.left[what] = @ - 1]
Spend(what) == Left(what) /\ budget' = Spent(what)

-----------------------------------------------------------------------------
(* The IRC server (external): the channel after a line, and what bots are sent *)

Silence == [c \in Bots |-> <<>>]
To(bots, line) == [c \in Bots |-> IF c \in bots THEN <<line>> ELSE <<>>]
Result(channel, lines) == [chan |-> channel, lines |-> lines]
Ignored == Result(chan, Silence)
Refusal(b, code) == Result(chan, To({b}, Line(code, b)))

\* An empty channel ceases to exist.
Without(b) ==
  IF chan.in = {b} THEN NoChannel ELSE [chan EXCEPT !.in = @ \ {b}, !.ops = @ \ {b}]

\* Whoever creates a channel is its operator.
With(b) ==
  [chan EXCEPT !.in = @ \union {b}, !.invited = @ \ {b},
               !.ops = IF chan.in = {} THEN {b} ELSE @]

\* Everyone sees the JOIN, the bot that joined the names as well.
Welcomed(b) ==
  Result(With(b), [c \in Bots |->
    IF c = b THEN <<Line("JOIN", b), Line("NAMES", With(b))>>
             ELSE IF c \in chan.in THEN <<Line("JOIN", b)>> ELSE <<>>])

\* A JOIN of a channel the bot is in goes unanswered.
Joined(b) ==
  CASE b \in chan.in -> Ignored
    [] b \notin chan.in /\ b \in chan.bans -> Refusal(b, "474")
    [] b \notin chan.in \union chan.bans /\ chan.inviteOnly /\ b \notin chan.invited ->
         Refusal(b, "473")
    [] OTHER -> IF chan.limit # 0 /\ Cardinality(chan.in) >= chan.limit
                  THEN Refusal(b, "471") ELSE Welcomed(b)

Gone(b, cmd) ==
  IF b \in chan.in THEN Result(Without(b), To(chan.in, Line(cmd, b))) ELSE Ignored

Changed(cmd, arg) ==
  CASE cmd = "+o" -> [chan EXCEPT !.ops = @ \union ({arg} \intersect chan.in)]
    [] cmd = "-o" -> [chan EXCEPT !.ops = @ \ {arg}]
    [] cmd = "+b" -> [chan EXCEPT !.bans = @ \union {arg}]
    [] cmd = "-b" -> [chan EXCEPT !.bans = @ \ {arg}]
    [] cmd = "+l" -> [chan EXCEPT !.limit = arg]
    [] cmd = "+i" -> [chan EXCEPT !.inviteOnly = TRUE]
    [] cmd = "+t" -> [chan EXCEPT !.topic = TRUE]
    [] cmd = "-t" -> [chan EXCEPT !.topic = FALSE]

\* A change that changes nothing is not shown.
Mode(cmd, arg) ==
  IF Changed(cmd, arg) = chan THEN Ignored
                              ELSE Result(Changed(cmd, arg), To(chan.in, Line(cmd, arg)))

Invited(nick) ==
  IF nick \in chan.in THEN Ignored
  ELSE Result([chan EXCEPT !.invited = @ \union {nick}], To({nick}, Line("INVITE", nick)))

\* What an operator's line does.
Operated(cmd, arg) ==
  CASE cmd = "KICK" -> Gone(arg, cmd) [] cmd = "INVITE" -> Invited(arg) [] OTHER -> Mode(cmd, arg)

Served(b, line) ==
  CASE line.cmd = "JOIN" -> Joined(b)
    [] line.cmd = "PART" -> Gone(b, "PART")
    [] line.cmd \in {"WHO", "MODES"} ->
         IF b \in chan.in THEN Result(chan, To({b}, Line(line.cmd, chan))) ELSE Ignored
    [] OTHER -> IF b \in chan.ops THEN Operated(line.cmd, line.arg) ELSE Ignored

Serve(result, unread) ==
  /\ chan' = result.chan
  /\ inbox' = [c \in Bots |-> unread[c] \o result.lines[c]]

\* A human operator or services; +l leaves no room for more.
Disturb(cmd, b) ==
  /\ cmd \in budget.kinds /\ chan.in # {} /\ Spend("disturb")
  /\ Serve(Operated(cmd, IF cmd = "+l" THEN Cardinality(chan.in) ELSE b), inbox)
  /\ UNCHANGED <<intent, me, asks>>

-----------------------------------------------------------------------------
(* Sending (channel.py, irc/client.py) *)

NoLine == Line("none", 0)

\* IRCClient.send: refused without a connection or with a full queue.
Outcomes(m, line) ==
  IF line = NoLine THEN {TRUE}
  ELSE IF m.link = "down" THEN {FALSE}
  ELSE IF Left("full") /\ line.cmd \in Droppable THEN BOOLEAN ELSE {TRUE}

\* Mutant: a PART that could not be queued is forgotten.
AfterSendOnce(m, line, sent) ==
  [m EXCEPT !.join = IF line.cmd = "JOIN" /\ sent THEN "joining" ELSE @,
            !.part = IF line.cmd = "PART" THEN FALSE ELSE @]

\* safe_join starts a join only if its JOIN was queued; a PART that was not stays pending.
AfterSend(m, line, sent) ==
  [m EXCEPT !.join = IF line.cmd = "JOIN" /\ sent THEN "joining" ELSE @,
            !.part = IF line.cmd = "PART" THEN ~sent ELSE @]

\* Bot b goes on as m, sends a line, and has `unread' of all the inboxes left.
Act(b, m, line, unread) ==
  \E sent \in Outcomes(m, line) :
    /\ me' = [me EXCEPT ![b] = AfterSend(m, line, sent)]
    /\ budget' = IF ~sent /\ m.link = "up" THEN Spent("full") ELSE budget
    /\ Serve(IF sent /\ line # NoLine THEN Served(b, line) ELSE Ignored, unread)

AddTask(m, task) == [m EXCEPT !.tasks = @ \union {task}]
SelfOpped(b) == b \in me[b].ops

\* Mutant: the bans of an earlier stay are kept.
FreshButBans(m) ==
  [m EXCEPT !.join = "idle", !.members = {}, !.ops = {}, !.prefixed = {}, !.limit = 0]

\* ChannelRuntime.reset: the part of `me' that one stay in the channel fills.
Fresh(m) ==
  [m EXCEPT !.join = "idle", !.members = {}, !.ops = {}, !.prefixed = {}, !.bans = {},
            !.limit = 0]

-----------------------------------------------------------------------------
(* Handlers of IRC lines (irc/events.py) *)

Reads(b, cmds) == inbox[b] # <<>> /\ Head(inbox[b]).cmd \in cmds /\ me[b].desired
Cmd(b) == Head(inbox[b]).cmd
Arg(b) == Head(inbox[b]).arg

\* The bot reads its next line, goes on as m and sends a line.
Read(b, m, line) ==
  /\ Act(b, m, line, [inbox EXCEPT ![b] = Tail(@)])
  /\ UNCHANGED <<intent, asks>>

\* No runtime: only its own JOIN makes the bot do something.
HandleUndesired(b) ==
  /\ inbox[b] # <<>> /\ ~me[b].desired
  /\ Read(b, me[b], IF Head(inbox[b]) = Line("JOIN", b) THEN Line("PART", b) ELSE NoLine)

Seen(m, nicks) == [m EXCEPT !.members = @ \union nicks]

\* Mutant: the prefix of a JOIN is not kept.
HandleJoinNick(b) ==
  /\ Reads(b, {"JOIN"})
  /\ LET m == IF Arg(b) = b THEN [Fresh(me[b]) EXCEPT !.join = "joined"] ELSE me[b]
     IN Read(b, Seen(m, {Arg(b)}), NoLine)

HandleJoin(b) ==
  /\ Reads(b, {"JOIN"})
  /\ LET m == IF Arg(b) = b THEN [Fresh(me[b]) EXCEPT !.join = "joined"] ELSE me[b]
     IN Read(b, [Seen(m, {Arg(b)}) EXCEPT !.prefixed = @ \union {Arg(b)}], NoLine)

\* Mutant: whoever leaves stays an operator.
ForgetMember(m, nick) == [m EXCEPT !.members = @ \ {nick}, !.prefixed = @ \ {nick}]

Forget(m, nick) ==
  [m EXCEPT !.members = @ \ {nick}, !.ops = @ \ {nick}, !.prefixed = @ \ {nick}]

\* What b knows once nick is out.
Away(b, nick) == IF nick = b THEN Fresh(me[b]) ELSE Forget(me[b], nick)

\* PART and QUIT.
HandleLeave(b) ==
  /\ Reads(b, {"PART", "QUIT"})
  /\ Read(b, Away(b, Arg(b)), NoLine)

\* Mutant: a bot that is kicked does not notice that it is out.
HandleKickOthers(b) ==
  /\ Reads(b, {"KICK"})
  /\ Read(b, Forget(me[b], Arg(b)), NoLine)

\* A bot that is kicked may be banned as well.
HandleKick(b) ==
  /\ Reads(b, {"KICK"})
  /\ Read(b, IF Arg(b) = b THEN AddTask(Away(b, b), "unban") ELSE Away(b, Arg(b)), NoLine)

\* The modes of the nicks a NAMES or WHO reply lists are what it shows.
Listed(m, reply) == [Seen(m, reply.in) EXCEPT !.ops = (@ \ reply.in) \union reply.ops]

\* Mutant: a bot that created the channel does not set its modes.
HandleNamesAsks(b) ==
  /\ Reads(b, {"NAMES"})
  /\ LET m == Listed(me[b], Arg(b))
     IN Read(b, IF b \in m.ops THEN m ELSE AddTask(m, "op"), Line("WHO", b))

\* 353 and 366: who is here; then ask for the rest (WHO stands for all of it), and for op.
HandleNames(b) ==
  /\ Reads(b, {"NAMES"})
  /\ LET m == Listed(me[b], Arg(b))
     IN Read(b, AddTask(m, IF b \in m.ops THEN "enforce" ELSE "op"), Line("WHO", b))

\* 352 and 367, with 324.
HandleWho(b) ==
  /\ Reads(b, {"WHO"})
  /\ Read(b, [Listed(me[b], Arg(b)) EXCEPT !.prefixed = @ \union Arg(b).in,
                !.bans = @ \union Arg(b).bans, !.limit = Arg(b).limit], NoLine)

\* 324
HandleChannelModes(b) ==
  /\ Reads(b, {"MODES"})
  /\ Read(b, [me[b] EXCEPT !.limit = Arg(b).limit], NoLine)

\* apply_mode_changes for one change.
Applied(m, cmd, arg) ==
  CASE cmd = "+o" -> [Seen(m, {arg}) EXCEPT !.ops = @ \union {arg}]
    [] cmd = "-o" -> [Seen(m, {arg}) EXCEPT !.ops = @ \ {arg}]
    [] cmd = "+b" -> [m EXCEPT !.bans = @ \union {arg}]
    [] cmd = "-b" -> [m EXCEPT !.bans = @ \ {arg}]
    [] cmd = "+l" -> [m EXCEPT !.limit = arg]
    [] OTHER -> m

\* Enforce modes lost, or with a new op; ask for op again if it was lost or granted to
\* another; and have a ban on oneself removed.
ModeTasks(b, opped, cmd, arg) ==
  {t \in {"enforce", "op", "unban"} :
     CASE t = "enforce" -> opped /\ (cmd = "-t" \/ ~SelfOpped(b))
       [] t = "op" -> ~opped /\ (cmd = "+o" \/ SelfOpped(b))
       [] OTHER -> cmd = "+b" /\ arg = b}

HandleMode(b) ==
  /\ Reads(b, {"+o", "-o", "+b", "-b", "+l", "+i", "+t", "-t"})
  /\ LET m == Applied(me[b], Cmd(b), Arg(b))
     IN Read(b, [m EXCEPT !.tasks = @ \union ModeTasks(b, b \in m.ops, Cmd(b), Arg(b))],
             IF b \in m.ops /\ ~SelfOpped(b) THEN Line("MODES", b) ELSE NoLine)

HandleInvite(b) ==
  /\ Reads(b, {"INVITE"})
  /\ Read(b, me[b], IF me[b].join = "joined" THEN NoLine ELSE Line("JOIN", b))

\* refuse_join
Idle(m) == IF m.join = "joining" THEN [m EXCEPT !.join = "idle"] ELSE m

HandleRefusal(b) ==
  /\ Reads(b, {"471", "473", "474"})
  /\ LET kind == CASE Cmd(b) = "471" -> "limit" [] Cmd(b) = "473" -> "invite" [] OTHER -> "unban"
     IN Read(b, AddTask(Idle(me[b]), kind), NoLine)

HandleLine(b) ==
  HandleUndesired(b) \/ HandleJoin(b) \/ HandleLeave(b) \/ HandleKick(b) \/ HandleNames(b)
    \/ HandleWho(b) \/ HandleChannelModes(b) \/ HandleMode(b) \/ HandleInvite(b) \/ HandleRefusal(b)

-----------------------------------------------------------------------------
(* Help requests (channel.py, HelpRequests of nats/coordinator.py) *)

\* The cooldown of a request is taken to last as long as the delays of its answers.
Cooling(b, kind) == \E p \in Bots : [kind |-> kind, from |-> b, to |-> p] \in asks

AnyPeerOpped(m, b) == m.ops \ {b} # {}

MayRequest(m, b, kind) ==
  /\ m.link = "up" /\ m.desired /\ ~Cooling(b, kind)
  /\ m.join = "joined" => AnyPeerOpped(m, b)

\* request_peer, by bot b as m: the request reaches peers that are up, know b and are ready.
Request(b, m, kind) ==
  /\ me' = [me EXCEPT ![b] = m]
  /\ IF MayRequest(m, b, kind)
       THEN \E reached \in SUBSET (Mesh \ {b}) :
              /\ IF reached = Mesh \ {b} THEN UNCHANGED budget ELSE Spend("lost")
              /\ asks' = asks \union {[kind |-> kind, from |-> b, to |-> p] : p \in reached}
       ELSE UNCHANGED <<asks, budget>>
  /\ UNCHANGED <<chan, intent, inbox>>

\* A task that a handler started runs.
RunTask(b, task) ==
  /\ task \in me[b].tasks
  /\ LET m == [me[b] EXCEPT !.tasks = @ \ {task}]
     IN IF task = "enforce" THEN Act(b, m, Line("+t", b), inbox) /\ UNCHANGED <<intent, asks>>
                            ELSE Request(b, m, task)

\* help_eligible
Eligible(b) == me[b].desired /\ me[b].link = "up" /\ SelfOpped(b)

EligibleFor(b, peer) ==
  Eligible(b) /\ peer \in me[b].members \ me[b].ops /\ peer \in me[b].prefixed

\* make_room: an absolute limit, for every bot left out.
LeftOut(b) == Mesh \ (me[b].members \union {b})
Room(b) == Cardinality(me[b].members) + Cardinality(LeftOut(b))

\* What an eligible peer sends after its delay.
Answer(ask) ==
  LET b == ask.to IN
  CASE ask.kind = "op" /\ EligibleFor(b, ask.from) -> Line("+o", ask.from)
    [] ask.kind = "invite" /\ Eligible(b) -> Line("INVITE", ask.from)
    [] ask.kind = "unban" /\ Eligible(b) /\ ask.from \in me[b].bans -> Line("-b", ask.from)
    [] ask.kind = "limit" /\ Eligible(b) /\ me[b].limit \in 1 .. Room(b) - 1
         /\ LeftOut(b) # {} -> Line("+l", Room(b))
    [] OTHER -> NoLine

\* help_after_delay
Help(ask) ==
  /\ ask \in asks
  /\ asks' = asks \ {ask}
  /\ Act(ask.to, me[ask.to], Answer(ask), inbox)
  /\ UNCHANGED intent

-----------------------------------------------------------------------------
(* Records and the maintenance tick (channel.py, bot.py) *)

\* JOIN and PART commands alternate; ChannelRecords has what becomes of their records.
WriteRecord ==
  /\ Spend("records")
  /\ intent' = intent + 1
  /\ UNCHANGED <<chan, me, inbox, asks>>

Present(rec) == rec % 2 = 1

\* apply_record: the watch delivers a newer record, and may skip replaced ones.
ApplyRecord(b) ==
  /\ b \in Mesh
  /\ \E rec \in me[b].rec + 1 .. intent :
    /\ LET m == [me[b] EXCEPT !.rec = rec] IN
       IF Present(rec)
         THEN Act(b, [m EXCEPT !.desired = TRUE, !.part = FALSE],
                  IF m.link = "up" /\ m.join = "idle" THEN Line("JOIN", b) ELSE NoLine, inbox)
         ELSE Act(b, [Fresh(m) EXCEPT !.desired = FALSE],
                  IF m.desired THEN Line("PART", b) ELSE NoLine, inbox)
    /\ UNCHANGED <<intent, asks>>

\* retry_pending_parts
RetryPart(b) ==
  /\ me[b].part /\ me[b].link = "up"
  /\ Act(b, [me[b] EXCEPT !.part = FALSE], IF me[b].desired THEN NoLine ELSE Line("PART", b),
         inbox)
  /\ UNCHANGED <<intent, asks>>

\* JOIN_REPLY_TIMEOUT is over: nothing the server sent is unread by then, or a reply is late.
Overdue(b) == me[b].join = "joining" /\ inbox[b] = <<>>

\* join_desired
JoinDesired(b) ==
  /\ me[b].link = "up" /\ me[b].desired
  /\ me[b].join = "idle" \/ Overdue(b)
  /\ Act(b, me[b], Line("JOIN", b), inbox)
  /\ UNCHANGED <<intent, asks>>

JoinAgain(b) ==
  /\ me[b].link = "up" /\ me[b].desired /\ me[b].join = "joining" /\ Spend("late")
  /\ Serve(Joined(b), inbox)
  /\ UNCHANGED <<intent, me, asks>>

\* A bot that is in but not opped asks on every tick.
AskForOp(b) ==
  /\ me[b].join = "joined" /\ ~SelfOpped(b) /\ MayRequest(me[b], b, "op")
  /\ Request(b, me[b], "op")

-----------------------------------------------------------------------------
(* Operator commands (commands.py), connections, crashes *)

\* cmd_op, cmd_deop, cmd_kick, cmd_ban, cmd_unban and cmd_invite.
Allowed(b, cmd, nick) ==
  CASE cmd = "+o" -> nick \in me[b].prefixed \ me[b].ops
    [] cmd = "-o" -> nick \in me[b].ops
    [] cmd = "KICK" -> nick \in me[b].members
    [] cmd = "-b" -> nick \in me[b].bans
    [] OTHER -> TRUE

Command(b, cmd, nick) ==
  /\ me[b].desired /\ SelfOpped(b) /\ Allowed(b, cmd, nick) /\ Spend("admin")
  /\ Serve(Served(b, Line(cmd, nick)), inbox)
  /\ UNCHANGED <<intent, me, asks>>

\* handle_welcome and set_identity: a new connection starts from nothing.
Connect(b) ==
  /\ b \in Mesh /\ me[b].link = "down"
  /\ LET m == [Fresh(me[b]) EXCEPT !.link = "up", !.part = FALSE]
     IN Act(b, m, IF m.desired THEN Line("JOIN", b) ELSE NoLine, inbox)
  /\ UNCHANGED <<intent, asks>>

\* on_irc_disconnect; the next process of a crashed bot knows no record either.
Drop(b, crash) ==
  /\ me[b].link = "up" /\ Spend("drops")
  /\ me' = [me EXCEPT ![b] =
       IF crash THEN NoBot ELSE [Fresh(@) EXCEPT !.link = "down", !.part = FALSE]]
  /\ asks' = IF crash THEN {ask \in asks : ask.to # b} ELSE asks
  /\ chan' = [Gone(b, "QUIT").chan EXCEPT !.invited = @ \ {b}]
  /\ inbox' = [c \in Bots |-> IF c = b THEN <<>> ELSE inbox[c] \o Gone(b, "QUIT").lines[c]]
  /\ UNCHANGED intent

-----------------------------------------------------------------------------

Next ==
  \/ WriteRecord
  \/ \E ask \in asks : Help(ask)
  \/ \E b \in Mesh :
       \/ HandleLine(b)
       \/ \E task \in Tasks : RunTask(b, task)
       \/ ApplyRecord(b)
       \/ RetryPart(b) \/ JoinDesired(b) \/ JoinAgain(b) \/ AskForOp(b)
       \/ Connect(b)
       \/ \E crash \in BOOLEAN : Drop(b, crash)
       \/ \E cmd \in Disturbances : Disturb(cmd, b)
       \/ \E cmd \in AdminCommands, nick \in Mesh : Command(b, cmd, nick)

Spec == Init /\ [][Next]_vars

\* Lines are read and answered, tasks and delays end, connections succeed, records arrive and
\* the maintenance tick comes again and again.
Fairness ==
  /\ WF_vars(\E ask \in asks : Help(ask))
  /\ \A b \in Bots :
       /\ WF_vars(HandleLine(b)) /\ WF_vars(\E task \in Tasks : RunTask(b, task))
       /\ WF_vars(ApplyRecord(b) \/ Connect(b) \/ RetryPart(b))   \* each only so often
       /\ SF_vars(JoinDesired(b)) /\ SF_vars(AskForOp(b))

FairSpec == Spec /\ Fairness

-----------------------------------------------------------------------------
(* Properties *)

\* A bot that is in and has read every line knows who is in and who is opped, whom it could
\* help, the bans and the limit.
ViewTracks ==
  \A b \in Bots : me[b].join = "joined" /\ inbox[b] = <<>> =>
    /\ b \in chan.in /\ me[b].members = chan.in /\ me[b].ops = chan.ops
    /\ me[b].prefixed = chan.in /\ me[b].limit = chan.limit /\ me[b].bans = chan.bans

\* Whatever befell it, the mesh ends up in the channel, if it still has an operator, and
\* out of it once the last record is a part.
EventuallyPlaced ==
  <>[](IF Present(intent) THEN chan.ops # {} => chan.in = Mesh ELSE chan.in = {})

\* ... and each bot knows whether it is in.
EventuallyKnown == <>[](\A b \in Bots : me[b].join = "joined" <=> b \in chan.in)

\* README.md: "Automatic op, invite, and unban recovery": while a bot is opped the others
\* end up opped too.
EventuallyOpped == <>[](chan.ops \in {{}, chan.in})

\* The configured modes are set, as long as a bot is opped.
EventuallyEnforced == <>[](chan.ops # {} => chan.topic)

=============================================================================
