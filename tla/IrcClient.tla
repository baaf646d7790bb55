------------------------------- MODULE IrcClient -------------------------------
(***************************************************************************)
(* One bot's connection to IRC: IRCClient of irc/client.py, the discovery of  *)
(* the bot's own identity (SelfIdentity of presence.py), and the watch for    *)
(* its nickname and what 001, 005, 302, 303, 731 and NICK do (irc/events.py). *)
(*                                                                         *)
(* The server and the network are external.  Time is left out: a timeout     *)
(* strikes a connection that hangs, or a server that has nothing to answer.   *)
(***************************************************************************)
EXTENDS Naturals, Sequences, FiniteSets

CONSTANTS
  Nicks, Desired,     \* nicknames, and the configured one
  Servers, Dead,      \* config.servers are 0 .. Servers - 1; those that never answer
  Offers,             \* what a server may offer: subsets of Features
  OutboundLimit, CollisionLimit, IdentityAttempts,
  MaxWork,            \* bound on lines from handlers and commands
  MaxTroubles         \* bound on the faults of the network and on changes of nicknames

VARIABLES
  client,       \* IRCClient, SelfIdentity with its discover tasks, and the nickname watch
  wire,         \* the socket, and the lines on it in both directions
  server,       \* what the server has of this connection
  taken,        \* nicknames that others use
  work, served, \* lines from handlers: how many so far; history: those that reached the server
  troubles

clientVars == <<client, wire, server, taken, work, served, troubles>>

Features == {"cap", "wanted", "monitor"}
None == "none"

\* The queue has room for the registration.
ASSUME ClientAssumption ==
  /\ Desired \in Nicks /\ None \notin Nicks
  /\ Servers \in Nat \ {0} /\ Offers \subseteq SUBSET Features
  /\ {OutboundLimit, CollisionLimit, IdentityAttempts, MaxWork} \subseteq Nat
  /\ OutboundLimit >= 3

Say(cmd, arg) == [cmd |-> cmd, arg |-> arg]
IsWork(line) == line.cmd = "WORK"

WorkNumbers(lines) ==
  LET numbers[i \in 0 .. Len(lines)] ==
        IF i = 0 THEN <<>>
        ELSE IF IsWork(lines[i]) THEN Append(numbers[i - 1], lines[i].arg) ELSE numbers[i - 1]
  IN numbers[Len(lines)]

ToServer ==
  [cmd : {"CAP LS", "CAP REQ", "CAP END", "USER", "PING", "ISON", "MONITOR+", "MONITOR-"},
   arg : {None}]
  \union [cmd : {"NICK", "USERHOST"}, arg : Nicks] \union [cmd : {"WORK"}, arg : 1..MaxWork]

NoServer == [nick |-> None, user |-> FALSE, cap |-> FALSE, welcomed |-> FALSE,
             monitors |-> FALSE, offer |-> {}]
NoWire == [state |-> "none", in |-> <<>>]

Clients ==
  [phase : {"connect", "read", "stop", "wait", "closed"}, index : 0 .. Servers - 1,
   closing : BOOLEAN, registered : BOOLEAN, nick : Nicks,
   collisions : 0..CollisionLimit, cap : {"off", "ls", "asked"}, wanted : BOOLEAN, pinging : BOOLEAN,
   outbound : Seq(ToServer), hand : Seq(ToServer), ident : Nicks \union {None},
   discoveries : SUBSET [current : BOOLEAN, left : 0..IdentityAttempts],
   watching : BOOLEAN, monitor : BOOLEAN]

\* The queue keeps its limit, and what the bot believes of itself belongs to a connection.
ClientTypeOK ==
  /\ client \in Clients
  /\ Len(client.outbound) <= OutboundLimit /\ Len(client.hand) <= 1
  /\ wire.state \in {"none", "open", "hung", "ended"}
  /\ taken \subseteq Nicks /\ served \in Seq(1..MaxWork)
  /\ client.phase # "read" =>
       client.outbound \o client.hand = <<>> /\ client.ident = None /\ ~client.watching
  /\ client.ident # None => client.registered /\ client.ident = client.nick

NoClient ==
  [phase |-> "connect", index |-> 0, closing |-> FALSE, registered |-> FALSE, nick |-> Desired,
   collisions |-> 0, cap |-> "off", wanted |-> FALSE, pinging |-> FALSE, outbound |-> <<>>, hand |-> <<>>,
   ident |-> None, discoveries |-> {}, watching |-> FALSE, monitor |-> FALSE]

\* Before run_forever; others may use any nicknames.
ClientInit ==
  /\ client = NoClient /\ wire = NoWire /\ server = NoServer
  /\ taken \in SUBSET Nicks /\ work = 0 /\ served = <<>> /\ troubles = 0

\* The bot is closed: nothing is to come.
ClosedClient == [NoClient EXCEPT !.phase = "closed"]

ClientRests ==
  /\ client = ClosedClient /\ wire = NoWire /\ server = NoServer
  /\ taken = {} /\ work = MaxWork /\ served = <<>> /\ troubles = MaxTroubles

Trouble == troubles < MaxTroubles /\ troubles' = troubles + 1

-----------------------------------------------------------------------------
(* The server (external) *)

Free(nick) == nick \notin taken \union {server.nick}

\* Registration is over once nickname, user and capabilities are settled.
Welcomed(s) == ~s.welcomed /\ s.nick # None /\ s.user /\ ~s.cap

Answer(s, replies) ==
  IF Welcomed(s)
    THEN /\ server' = [s EXCEPT !.welcomed = TRUE]
         /\ wire' = [wire EXCEPT !.in = @ \o replies \o <<Say("001", s.nick)>>
                      \o IF "monitor" \in s.offer THEN <<Say("005", None)>> ELSE <<>>]
    ELSE server' = s /\ wire' = [wire EXCEPT !.in = @ \o replies]

ServeNick(nick) ==
  IF nick \in taken THEN Answer(server, <<Say("433", nick)>>)
  ELSE Answer([server EXCEPT !.nick = nick],
              IF server.welcomed /\ server.nick # nick
                THEN <<Say("NICK", <<server.nick, nick>>)>> ELSE <<>>)

Serve(cmd, arg) ==
  CASE cmd = "CAP LS" /\ "cap" \in server.offer ->
         Answer([server EXCEPT !.cap = TRUE],
                <<Say("LS*", "wanted" \in server.offer), Say("LS", FALSE)>>)
    [] cmd = "CAP REQ" -> Answer(server, <<Say("ACK", None)>>)
    [] cmd = "CAP END" -> Answer([server EXCEPT !.cap = FALSE], <<>>)
    [] cmd = "NICK" -> ServeNick(arg)
    [] cmd = "USER" -> Answer([server EXCEPT !.user = TRUE], <<>>)
    [] cmd = "USERHOST" -> Answer(server, <<Say("302", IF arg = server.nick THEN arg ELSE None)>>)
    [] cmd = "ISON" -> Answer(server, <<Say("303", ~Free(Desired))>>)
    [] cmd = "MONITOR+" ->
         Answer([server EXCEPT !.monitors = TRUE],
                IF Free(Desired) THEN <<Say("731", FALSE)>> ELSE <<>>)
    [] cmd = "MONITOR-" -> Answer([server EXCEPT !.monitors = FALSE], <<>>)
    [] cmd = "PING" -> Answer(server, <<Say("PONG", None)>>)
    [] OTHER -> Answer(server, <<>>)

\* A line that is written is served at once, or vanishes.
Write(cmd, arg) ==
  IF wire.state = "open" THEN Serve(cmd, arg) ELSE UNCHANGED <<wire, server>>

-----------------------------------------------------------------------------
(* Sending *)

\* IRCClient.send: refused without a connection or with a full queue.
Accepts(c) == c.phase = "read" /\ ~c.closing /\ Len(c.outbound) < OutboundLimit

Queued(c, cmd, arg) ==
  IF Accepts(c) THEN [c EXCEPT !.outbound = Append(@, Say(cmd, arg))] ELSE c

\* A handler or a command sends.
SendWork ==
  /\ client.registered /\ client.phase = "read" /\ work < MaxWork
  /\ work' = work + 1
  /\ client' = Queued(client, "WORK", work + 1)
  /\ UNCHANGED <<wire, server, taken, served, troubles>>

\* send_loop: the sender takes a line, and waits until the rate allows it.
TakeLine ==
  /\ client.outbound # <<>> /\ client.hand = <<>> /\ ~client.closing
  /\ client' = [client EXCEPT !.hand = <<Head(client.outbound)>>, !.outbound = Tail(@)]
  /\ UNCHANGED <<wire, server, taken, work, served, troubles>>

\* send_immediate
WriteLine ==
  /\ client.hand # <<>> /\ ~client.closing
  /\ client' = [client EXCEPT !.hand = <<>>]
  /\ Write(client.hand[1].cmd, client.hand[1].arg)
  /\ served' = IF wire.state = "open" THEN served \o WorkNumbers(client.hand) ELSE served
  /\ UNCHANGED <<taken, work, troubles>>

\* writer.close(): the reader sees its end.  A server that hears nothing keeps the nickname.
CloseSocket(state) ==
  /\ wire' = [state |-> state, in |-> IF state = "none" THEN <<>> ELSE wire.in]
  /\ server' = NoServer
  /\ taken' = IF wire.state = "hung" THEN taken \union ({server.nick} \ {None}) ELSE taken

\* WRITE_TIMEOUT, or an error: the sender closes the socket.
WriteFails ==
  /\ client.hand # <<>> /\ ~client.closing /\ wire.state \in {"hung", "ended"}
  /\ client' = [client EXCEPT !.hand = <<>>, !.closing = TRUE]
  /\ CloseSocket("ended")
  /\ UNCHANGED <<work, served, troubles>>

-----------------------------------------------------------------------------
(* run_forever and run_connection *)

\* Mutant: the sender is not cancelled.
StopSenderNot(c) == [c EXCEPT !.outbound = <<>>]

\* stop_sender
StopSender(c) == [c EXCEPT !.outbound = <<>>, !.hand = <<>>]

\* A new generation: the discoveries of earlier ones are over.
Older(ds) == {[d EXCEPT !.current = FALSE] : d \in ds}

\* Mutant: the identity outlives the connection.
DisconnectedKnown(c) ==
  [StopSender(c) EXCEPT !.phase = "stop", !.watching = FALSE, !.monitor = FALSE,
                        !.discoveries = Older(@)]

\* The end of a run_connection: on_irc_disconnect, and stop_sender up to its wait.
Disconnected(c) ==
  [StopSender(c) EXCEPT !.phase = "stop", !.ident = None, !.watching = FALSE,
                        !.monitor = FALSE, !.discoveries = Older(@)]

\* establish: the registration is queued with the connection.
Establish(offer) ==
  /\ client.phase = "connect" /\ client.index \notin Dead
  /\ client' = [client EXCEPT !.phase = "read", !.closing = FALSE, !.registered = FALSE,
       !.nick = Desired, !.collisions = 0, !.cap = "ls", !.wanted = FALSE, !.pinging = FALSE,
       !.outbound = <<Say("CAP LS", None), Say("NICK", Desired), Say("USER", None)>>]
  /\ wire' = [NoWire EXCEPT !.state = "open"]
  /\ server' = [NoServer EXCEPT !.offer = offer]
  /\ UNCHANGED <<taken, work, served, troubles>>

EstablishFails ==
  /\ client.phase = "connect"
  /\ (client.index \in Dead /\ UNCHANGED troubles) \/ Trouble
  /\ client' = [Disconnected(client) EXCEPT !.registered = FALSE]
  /\ UNCHANGED <<wire, server, taken, work, served>>

\* Nothing comes, and nothing that was sent is still to be answered.
Quiet ==
  /\ client.phase = "read" /\ wire.in = <<>>
  /\ wire.state = "hung" \/ client.outbound \o client.hand = <<>>

\* The socket is at its end, or a deadline is over.
ConnectionEnds ==
  /\ \/ client.phase = "read" /\ wire.state = "ended"
     \/ Quiet /\ ~client.registered
     \/ Quiet /\ client.pinging
  /\ client' = Disconnected(client)
  /\ UNCHANGED <<wire, server, taken, work, served, troubles>>

\* idle_timeout, which is longer than REGISTRATION_TIMEOUT.
IdlePing ==
  /\ Quiet /\ client.registered /\ ~client.pinging /\ wire.state \in {"open", "hung"}
  /\ client' = [client EXCEPT !.pinging = TRUE]
  /\ Write("PING", None)
  /\ UNCHANGED <<taken, work, served, troubles>>

CloseWriter ==
  /\ client.phase = "stop"
  /\ client' = [client EXCEPT !.phase = "wait"]
  /\ CloseSocket("none")
  /\ UNCHANGED <<work, served, troubles>>

\* Mutant: the server is not changed after a connection that failed.
NextServerSame(stable) == client.index

\* A session that lasted keeps its server.
NextServer(stable) ==
  IF client.registered /\ stable THEN client.index ELSE (client.index + 1) % Servers

BackOff(stable) ==
  /\ client.phase = "wait"
  /\ client' = [client EXCEPT !.phase = "connect", !.index = NextServer(stable)]
  /\ UNCHANGED <<wire, server, taken, work, served, troubles>>

\* The bot shuts down: run_forever ends, and close finds what is left of it.
CloseClient ==
  /\ client.phase # "closed" /\ client' = ClosedClient /\ wire' = NoWire /\ server' = NoServer
  /\ UNCHANGED <<taken, work, served, troubles>>

-----------------------------------------------------------------------------
(* Lines from the server: dispatch_line and the handlers of irc/events.py *)

Reads(cmd) == client.phase = "read" /\ wire.in # <<>> /\ Head(wire.in).cmd = cmd
Got == Head(wire.in).arg

Read(c) ==
  /\ client' = c /\ wire' = [wire EXCEPT !.in = Tail(@)]
  /\ UNCHANGED <<server, taken, work, served, troubles>>

\* What dispatch_line itself sends must be queued, or the connection ends.
Replied(c, cmd, arg) == IF Accepts(c) THEN Queued(c, cmd, arg) ELSE Disconnected(c)

\* nick_collision; a 433 after registration is nobody's.
HandleCollision ==
  /\ Reads("433")
  /\ \/ client.registered /\ Read(client)
     \/ ~client.registered /\ client.collisions = CollisionLimit /\ Read(Disconnected(client))
     \/ /\ ~client.registered /\ client.collisions < CollisionLimit
        /\ \E fallback \in Nicks \ {Desired} :
             Read(Replied([client EXCEPT !.nick = fallback, !.collisions = @ + 1], "NICK", fallback))

\* handle_cap: the last line of a list decides.
HandleCapList(cmd) ==
  /\ Reads(cmd)
  /\ LET c == [client EXCEPT !.wanted = @ \/ Got]
     IN CASE client.cap = "off" -> Read(client)
          [] client.cap # "off" /\ cmd = "LS*" -> Read(c)
          [] OTHER -> Read(IF c.wanted THEN Replied([c EXCEPT !.cap = "asked"], "CAP REQ", None)
                                       ELSE Replied([c EXCEPT !.cap = "off"], "CAP END", None))

HandleCapNew ==
  /\ Reads("NEW")
  /\ Read(Replied(client, "CAP REQ", None))

\* ACK and NAK
HandleCapAck ==
  /\ Reads("ACK")
  /\ Read(IF client.cap = "asked" THEN Replied([client EXCEPT !.cap = "off"], "CAP END", None)
                                  ELSE client)

\* start_nick_watch
StartNickWatch(c) ==
  LET watched == [c EXCEPT !.watching = c.nick # Desired /\ ~c.monitor]
  IN IF c.nick # Desired /\ c.monitor THEN Queued(watched, "MONITOR+", None) ELSE watched

\* 001: track_registration and handle_welcome.
HandleWelcome ==
  /\ Reads("001")
  /\ Read(StartNickWatch([client EXCEPT !.cap = "off", !.registered = TRUE, !.collisions = 0,
              !.nick = Got, !.ident = None,
              !.discoveries = Older(@) \union {[current |-> TRUE, left |-> IdentityAttempts]}]))

\* 005: MONITOR
HandleIsupport ==
  /\ Reads("005")
  /\ Read(StartNickWatch([client EXCEPT !.monitor = TRUE]))

\* 302, about the nickname the bot has by now or not.
HandleUserhost ==
  /\ Reads("302")
  /\ Read(IF Got = client.nick THEN [client EXCEPT !.ident = client.nick] ELSE client)

\* Mutant: the bot knows only a change from the configured nickname as its own.
RenamedDesired(c, old, new) == IF old = Desired THEN [c EXCEPT !.nick = new] ELSE c

\* track_registration
Renamed(c, old, new) == IF old = c.nick THEN [c EXCEPT !.nick = new] ELSE c

\* handle_nick, after track_registration.
HandleNick ==
  /\ Reads("NICK")
  /\ LET old == Got[1]
         new == Got[2]
         c == [Renamed(client, old, new) EXCEPT !.ident = IF @ = old THEN new ELSE @]
     IN Read(CASE new # c.nick -> c
               [] new = c.nick /\ new # Desired -> StartNickWatch(c)
               [] OTHER -> LET off == [c EXCEPT !.watching = FALSE]
                           IN IF c.monitor THEN Queued(off, "MONITOR-", None) ELSE off)

\* try_nick_reclaim, when ISON (303) or MONITOR (731) reports the nickname offline.
Reclaimed(c) == IF c.nick = Desired THEN c ELSE Queued(c, "NICK", Desired)

HandleOffline ==
  /\ Reads("303") \/ Reads("731")
  /\ Read(IF Got THEN client ELSE Reclaimed(client))

HandlePong ==
  /\ Reads("PONG")
  /\ Read([client EXCEPT !.pinging = FALSE])

HandleServerLine ==
  HandleCollision \/ HandleCapList("LS*") \/ HandleCapList("LS") \/ HandleCapNew
    \/ HandleCapAck \/ HandleWelcome \/ HandleIsupport \/ HandleUserhost \/ HandleNick
    \/ HandleOffline \/ HandlePong

-----------------------------------------------------------------------------
(* Tasks *)

Travelling(cmds) ==
  LET lines == client.outbound \o client.hand \o wire.in
  IN \E i \in DOMAIN lines : lines[i].cmd \in cmds

\* ison_poll_loop; a poll that overtakes the answer to another one changes nothing.
PollNick ==
  /\ client.watching /\ ~Travelling({"ISON", "303"})
  /\ client' = IF client.nick = Desired THEN [client EXCEPT !.watching = FALSE]
                                        ELSE Queued(client, "ISON", None)
  /\ client' # client
  /\ UNCHANGED <<wire, server, taken, work, served, troubles>>

\* Mutant: a discovery stops only for a known identity.
OverKnown(d) == client.ident # None

\* A discovery of another connection, or of an identity that is known, stops.
Over(d) == ~d.current \/ client.ident # None

\* The delay between two attempts is longer than an answer takes.
Answered == wire.state # "open" \/ ~Travelling({"USERHOST", "302"})

\* discover: ask again, or give up and reconnect.
Discover(d) ==
  LET rest == [client EXCEPT !.discoveries = @ \ {d}]
      again == [client EXCEPT !.discoveries = (@ \ {d}) \union {[d EXCEPT !.left = @ - 1]}]
  IN
  /\ d \in client.discoveries
  /\ \/ /\ Over(d) \/ (d.left > 0 /\ ~Accepts(client))
        /\ client' = rest /\ UNCHANGED <<wire, server, taken, troubles>>
     \/ /\ ~Over(d)
        /\ (Answered /\ UNCHANGED troubles) \/ (~Answered /\ Trouble)
        /\ \/ /\ d.left > 0 /\ Accepts(client)
              /\ client' = Queued(again, "USERHOST", client.nick)
              /\ UNCHANGED <<wire, server, taken>>
           \/ d.left = 0 /\ client' = [rest EXCEPT !.closing = TRUE] /\ CloseSocket("ended")
  /\ UNCHANGED <<work, served>>

-----------------------------------------------------------------------------
(* The network and other users (external) *)

\* The connection breaks, and what was on its way may be lost.
Cut ==
  /\ wire.state = "open" /\ Trouble
  /\ \E n \in 0 .. Len(wire.in) :
       wire' = [state |-> "ended", in |-> SubSeq(wire.in, 1, n)]
  /\ server' = NoServer
  /\ UNCHANGED <<client, taken, work, served>>

Hang ==
  /\ wire.state = "open" /\ Trouble
  /\ wire' = [wire EXCEPT !.state = "hung"]
  /\ UNCHANGED <<client, server, taken, work, served>>

\* The server announces a capability, or gives the bot another nickname.
Announce ==
  /\ wire.state = "open" /\ "wanted" \in server.offer
  /\ server.cap \/ server.welcomed
  /\ Trouble
  /\ wire' = [wire EXCEPT !.in = Append(@, Say("NEW", None))]
  /\ UNCHANGED <<client, server, taken, work, served>>

Rename(nick) ==
  /\ wire.state = "open" /\ server.welcomed /\ Free(nick) /\ Trouble
  /\ wire' = [wire EXCEPT !.in = Append(@, Say("NICK", <<server.nick, nick>>))]
  /\ server' = [server EXCEPT !.nick = nick]
  /\ UNCHANGED <<client, taken, work, served>>

TakeNick(nick) ==
  /\ Free(nick) /\ Trouble /\ taken' = taken \union {nick}
  /\ UNCHANGED <<client, wire, server, work, served>>

ReleaseNick ==
  /\ \E nick \in taken :
       /\ taken' = taken \ {nick}
       /\ wire' = IF wire.state = "open" /\ server.monitors /\ nick = Desired
                    THEN [wire EXCEPT !.in = Append(@, Say("731", FALSE))] ELSE wire
  /\ UNCHANGED <<client, server, work, served, troubles>>

-----------------------------------------------------------------------------

MainStep ==
  \/ \E offer \in Offers : Establish(offer)
  \/ ConnectionEnds \/ IdlePing \/ CloseWriter \/ (\E stable \in BOOLEAN : BackOff(stable))
  \/ HandleServerLine

SenderStep == TakeLine \/ WriteLine \/ WriteFails

ClientNext ==
  \/ MainStep \/ EstablishFails \/ SenderStep \/ SendWork \/ PollNick \/ CloseClient
  \/ \E d \in client.discoveries : Discover(d)
  \/ Cut \/ Hang \/ Announce \/ ReleaseNick
  \/ \E nick \in Nicks : Rename(nick) \/ TakeNick(nick)

\* The tasks run, and nicknames become free.
ClientFairness ==
  /\ WF_clientVars(MainStep \/ EstablishFails) /\ WF_clientVars(SenderStep)
  /\ WF_clientVars(PollNick) /\ WF_clientVars(\E d \in client.discoveries : Discover(d))
  /\ WF_clientVars(ReleaseNick)

ClientSpec == ClientInit /\ [][ClientNext]_clientVars /\ ClientFairness

-----------------------------------------------------------------------------
(* Properties *)

\* A bot that has read what the server told it of its nickname knows its nickname.
NickAgrees ==
  client.registered /\ wire.state = "open" /\ server.welcomed
    /\ (\A i \in DOMAIN wire.in : wire.in[i].cmd # "NICK") => client.nick = server.nick

\* A discovery reconnects only if its own connection has no identity: a live connection
\* that registers, or is identified, is not closed by one of an earlier connection.
LiveNeverClosed ==
  [][wire.state = "open" /\ ~client.closing /\ client'.closing =>
       server.welcomed /\ client.ident = None]_clientVars

\* Lines of handlers: what LinePipe promises.
Up == client.phase = "read" /\ wire.state = "open"

Pipe == INSTANCE LinePipe WITH
  Lines <- 1..MaxWork, up <- Up, got <- served,
  pipe <- IF Up THEN WorkNumbers(client.hand \o client.outbound) ELSE <<>>

LinesKeepToTheirConnection == Pipe!PipeSpec

\* Whatever the network, the servers and other users did, a bot that is not closed ends up
\* connected and identified under its configured nickname.
EventuallyIdentified == <>[](client.ident = Desired \/ client.phase = "closed")

-----------------------------------------------------------------------------
(* The inductive invariant *)

FromServer ==
  [cmd : {"LS*", "LS", "303", "731"}, arg : BOOLEAN]
  \union [cmd : {"NEW", "ACK", "005", "PONG"}, arg : {None}]
  \union [cmd : {"001", "433"}, arg : Nicks] \union [cmd : {"302"}, arg : Nicks \union {None}]
  \union [cmd : {"NICK"}, arg : Nicks \X Nicks]

Wires == [state : {"none", "open", "hung", "ended"}, in : Seq(FromServer)]
ServerStates == [nick : Nicks \union {None}, user : BOOLEAN, cap : BOOLEAN, welcomed : BOOLEAN,
                 monitors : BOOLEAN, offer : SUBSET Features]

Has(lines, cmd) == \E i \in DOMAIN lines : lines[i].cmd = cmd

\* The nickname the bot was given, and the one the server has told it of.
Known(c) == IF c.registered THEN c.nick ELSE None
Told(s) == IF s.welcomed THEN s.nick ELSE None

Renames(line, old, new) ==
  CASE line.cmd = "001" -> old = None /\ new = line.arg
    [] line.cmd = "NICK" -> old # None /\ line.arg = <<old, new>>
    [] OTHER -> new = old

\* Line by line, one nickname becomes the other.
Leads(lines, from, to) ==
  \E names \in [0 .. Len(lines) -> Nicks \union {None}] :
    /\ names[0] = from /\ names[Len(lines)] = to
    /\ \A i \in 1 .. Len(lines) : Renames(lines[i], names[i - 1], names[i])

\* What the bot holds belongs to its present connection: discoveries, queries, identity.
ClientOK(c) ==
  /\ c \in Clients /\ Len(c.outbound) <= OutboundLimit /\ Len(c.hand) <= 1
  /\ c.phase # "read" => c.outbound = <<>> /\ c.hand = <<>> /\ c.ident = None /\ ~c.watching
  /\ c.ident # None => c.registered /\ c.ident = c.nick
  /\ \A d \in c.discoveries : d.current => c.phase = "read" /\ c.registered
  /\ Has(c.outbound, "USERHOST") \/ Has(c.hand, "USERHOST") => c.registered

\* The lines on an open connection lead the bot from the nickname it has to the server's.
WireOK(w, s, c) ==
  /\ w \in Wires /\ s \in ServerStates /\ (s.welcomed => s.nick # None)
  /\ c.phase \in {"connect", "wait", "closed"} => w = NoWire
  /\ Has(w.in, "302") => c.registered
  /\ w.state = "open" =>
       /\ c.registered \/ Has(w.in, "001") => s.welcomed
       /\ Leads(w.in, Known(c), Told(s))

ClientInv ==
  /\ ClientOK(client) /\ WireOK(wire, server, client)
  /\ taken \subseteq Nicks /\ work \in 0..MaxWork /\ served \in Seq(1..MaxWork)

=============================================================================
