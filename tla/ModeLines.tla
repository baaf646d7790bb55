-------------------------------- MODULE ModeLines --------------------------------
(***************************************************************************)
(* How a bot follows the modes of a channel: iter_mode_changes and PREFIX of  *)
(* irc/protocol.py, with apply_mode_changes and the 324 reply of              *)
(* irc/events.py.  A MODE line shows several changes, and their arguments     *)
(* apart: which mode takes which argument is for the bot to find out.         *)
(*                                                                         *)
(* CHANMODES is b,k,l,t; all names, keys and limits are strings.              *)
(***************************************************************************)
EXTENDS Naturals, Sequences, FiniteSets

CONSTANTS
  Members, Keys, Masks, Limits,
  Advertised,      \* PREFIX of a server: its ranks, the highest first
  MaxChanges     \* bound on the changes of a line

VARIABLES
  prefix,   \* PREFIX of the server; empty without one
  room,     \* the channel on the server (external)
  line,     \* changes the server has made and not shown
  view,     \* ChannelRuntime: modes, key, limit, bans and the operators' ranks
  sure      \* history: the key last set was shown, not hidden behind a "*"

\* A rank of PREFIX: its mode, and the symbol it is shown as.
Rank(mode, symbol) == [mode |-> mode, symbol |-> symbol]

NoArg == ""
Hidden == "*"

\* Arguments are not empty (protocol.py:236), a key is not the "*" that hides one, and the
\* modes of members are none of the channel's. No two ranks share a mode or a symbol, and
\* founders rank above protected members and these above operators.
ASSUME ModesAssumption ==
  /\ NoArg \notin Keys \union Masks \union Limits \union Members /\ Hidden \notin Keys
  /\ \A ranks \in Advertised :
       /\ ranks \in Seq([mode : STRING, symbol : STRING])
       /\ \A i \in DOMAIN ranks : ranks[i].mode \notin {"b", "k", "l", "t"}
       /\ \A i, j \in DOMAIN ranks :
            ranks[i].mode = ranks[j].mode \/ ranks[i].symbol = ranks[j].symbol => i = j
       /\ \A i, j \in DOMAIN ranks :
            <<ranks[i].mode, ranks[j].mode>> \in {<<"q", "a">>, <<"q", "o">>, <<"a", "o">>}
              => i < j

modeVars == <<prefix, room, line, view, sure>>

Change(adding, mode, arg) == [adding |-> adding, mode |-> mode, arg |-> arg]
EmptyRoom == [flags |-> {}, key |-> NoArg, limit |-> NoArg, bans |-> {}, ranks |-> {}]
EmptyView == [letters |-> {}, key |-> NoArg, limit |-> NoArg, bans |-> {}, ranks |-> {}]

ModesInit ==
  /\ prefix \in Advertised /\ room = EmptyRoom /\ line = <<>> /\ view = EmptyView /\ sure = TRUE

ModesRest ==
  /\ prefix = <<>> /\ room = EmptyRoom /\ line = <<>> /\ view = EmptyView /\ sure = TRUE

Ranks == {prefix[i].mode : i \in DOMAIN prefix}

-----------------------------------------------------------------------------
(* The server (external) *)

\* What may be changed in a channel.
Changes(r) ==
  {Change(adding, "t", NoArg) : adding \in BOOLEAN}
    \union {Change(TRUE, "k", key) : key \in Keys} \union {Change(FALSE, "k", r.key)}
    \union {Change(TRUE, "l", limit) : limit \in Limits} \union {Change(FALSE, "l", NoArg)}
    \union {Change(adding, "b", mask) : adding \in BOOLEAN, mask \in Masks}
    \union {Change(adding, rank, who) : adding \in BOOLEAN, rank \in Ranks, who \in Members}

With(set, c, x) == IF c.adding THEN set \union {x} ELSE set \ {x}

\* A channel after a change.
Made(r, c) ==
  CASE c.mode = "t" -> [r EXCEPT !.flags = With(@, c, "t")]
    [] c.mode = "k" -> [r EXCEPT !.key = IF c.adding THEN c.arg ELSE NoArg]
    [] c.mode = "l" -> [r EXCEPT !.limit = c.arg]
    [] c.mode = "b" -> [r EXCEPT !.bans = With(@, c, c.arg)]
    [] OTHER -> [r EXCEPT !.ranks = With(@, c, <<c.arg, c.mode>>)]

\* Operators are the members from the highest rank down to the one shown as "@"; without
\* such a rank, down to the last of founders, protected members and operators.
Operators ==
  LET ends == {i \in DOMAIN prefix : prefix[i].symbol = "@"}
      named == {i \in DOMAIN prefix : prefix[i].mode \in {"q", "a", "o"}}
      lowest == IF ends # {} THEN ends ELSE named
  IN {prefix[i].mode : i \in {i \in DOMAIN prefix : \E j \in lowest : i <= j}}

\* Servers show what changed, and take one change of the key in a line.
Make(c) ==
  /\ prefix # <<>> /\ Len(line) < MaxChanges /\ Made(room, c) # room
  /\ c.mode = "k" => \A i \in DOMAIN line : line[i].mode # "k"
  /\ room' = Made(room, c) /\ line' = Append(line, c)
  /\ UNCHANGED <<prefix, view, sure>>

\* The arguments of a line; that of a key may be hidden, or left out with -k.
ShownArg(c, key) ==
  CASE c.mode = "k" /\ key = "hidden" -> Hidden
    [] c.mode = "k" /\ key = "stripped" /\ ~c.adding -> NoArg
    [] OTHER -> c.arg

Shown(changes, key) ==
  LET args[i \in 0 .. Len(changes)] ==
        IF i = 0 THEN <<>>
        ELSE IF ShownArg(changes[i], key) = NoArg THEN args[i - 1]
        ELSE Append(args[i - 1], ShownArg(changes[i], key))
  IN args[Len(changes)]

-----------------------------------------------------------------------------
(* irc/protocol.py *)

\* Mutant: a limit has an argument also when it is removed.
RequiresArgumentAlways(c) == c.mode \in {"b", "k", "l"} \union Ranks

\* mode_requires_argument
RequiresArgument(c) == c.mode \in {"b", "k"} \union Ranks \/ (c.adding /\ c.mode = "l")

\* A batch one argument short has a -k that consumes none.
Consumers(changes, args) ==
  LET all == {i \in DOMAIN changes : RequiresArgument(changes[i])}
      short == {i \in all : changes[i].mode = "k" /\ ~changes[i].adding}
  IN IF Cardinality(all) = Len(args) + 1
       THEN {i \in all : i \notin short \/ \E j \in short : j < i} ELSE all

\* iter_mode_changes: each change with the argument it consumes.
Paired(changes, args) ==
  LET consumers == Consumers(changes, args)
      place == [i \in consumers |-> Cardinality({j \in consumers : j <= i})]
  IN [i \in DOMAIN changes |->
        [changes[i] EXCEPT !.arg = IF i \in consumers /\ place[i] <= Len(args)
                                     THEN args[place[i]] ELSE NoArg]]

\* parse_prefix: the mode shown as "@", or the first of o, a, q that is advertised, or o.
OpMode ==
  LET shown == {i \in DOMAIN prefix : prefix[i].symbol = "@"}
      conventional == <<"o", "a", "q">>
      known == {i \in 1 .. 3 : conventional[i] \in Ranks}
  IN IF shown # {} THEN prefix[CHOOSE i \in shown : TRUE].mode
     ELSE IF known # {} THEN conventional[CHOOSE i \in known : \A j \in known : i <= j]
     ELSE "o"

\* operator_modes
OperatorModes ==
  IF OpMode \in Ranks
    THEN {prefix[i].mode : i \in {i \in DOMAIN prefix :
                                   \A j \in 1 .. i - 1 : prefix[j].mode # OpMode}}
    ELSE {OpMode}

-----------------------------------------------------------------------------
(* irc/events.py *)

\* process_setting, for a key.
Key(key, c) ==
  CASE c.adding /\ c.arg \notin {NoArg, Hidden} -> c.arg
    [] ~c.adding -> NoArg
    [] OTHER -> key

\* apply_mode_changes, for one change.
Applied(v, c) ==
  LET w == IF c.mode \in {"k", "l", "t"} THEN [v EXCEPT !.letters = With(@, c, c.mode)] ELSE v
  IN CASE c.mode = "l" -> [w EXCEPT !.limit = IF c.adding THEN c.arg ELSE NoArg]
       [] c.mode = "k" -> [w EXCEPT !.key = Key(@, c)]
       [] c.mode = "b" /\ c.arg # NoArg -> [w EXCEPT !.bans = With(@, c, c.arg)]
       [] c.mode \in OperatorModes /\ c.arg # NoArg ->
            [w EXCEPT !.ranks = With(@, c, <<c.arg, c.mode>>)]
       [] OTHER -> w

\* Its loop over all changes of a line.
AppliedInTurn(v, changes) ==
  LET after[i \in 0 .. Len(changes)] ==
        IF i = 0 THEN v ELSE Applied(after[i - 1], changes[i])
  IN after[Len(changes)]

HandleModeLine(key) ==
  /\ line # <<>>
  /\ view' = AppliedInTurn(view, Paired(line, Shown(line, key)))
  /\ sure' = IF \E i \in DOMAIN line : line[i].mode = "k"
               THEN room.key = NoArg \/ key # "hidden" ELSE sure
  /\ line' = <<>>
  /\ UNCHANGED <<prefix, room>>

\* The line of a 324 reply.
AllModes ==
  (IF "t" \in room.flags THEN <<Change(TRUE, "t", NoArg)>> ELSE <<>>)
    \o (IF room.key # NoArg THEN <<Change(TRUE, "k", room.key)>> ELSE <<>>)
    \o (IF room.limit # NoArg THEN <<Change(TRUE, "l", room.limit)>> ELSE <<>>)

\* handle_channel_modes; a hidden key changes nothing.
HandleModeReply(key) ==
  /\ prefix # <<>> /\ line = <<>>
  /\ LET changes == Paired(AllModes, Shown(AllModes, key))
         argOf(mode) == {changes[i].arg : i \in {i \in DOMAIN changes : changes[i].mode = mode}}
         only(set) == IF set = {} THEN NoArg ELSE CHOOSE x \in set : TRUE
     IN view' = [view EXCEPT !.letters = {changes[i].mode : i \in DOMAIN changes},
                             !.limit = only(argOf("l")),
                             !.key = IF argOf("k") = {Hidden} THEN @ ELSE only(argOf("k"))]
  /\ sure' = (sure \/ room.key = NoArg \/ key # "hidden")
  /\ UNCHANGED <<prefix, room, line>>

-----------------------------------------------------------------------------

ModesNext ==
  \/ \E c \in Changes(room) : Make(c)
  \/ \E key \in {"plain", "hidden", "stripped"} : HandleModeLine(key)
  \/ \E key \in {"plain", "hidden"} : HandleModeReply(key)

ModesSpec == ModesInit /\ [][ModesNext]_modeVars

-----------------------------------------------------------------------------
(* Properties *)

\* Whatever batches of changes a server shows, with a key hidden or left out, a bot that has
\* handled every line has the modes, the limit, the bans and the operators of the channel,
\* and its key unless it was hidden when it was set.
Tracks(v, r) ==
  /\ v.letters = r.flags \union {m \in {"k"} : r.key # NoArg} \union {m \in {"l"} : r.limit # NoArg}
  /\ v.limit = r.limit /\ v.bans = r.bans
  /\ v.ranks = {x \in r.ranks : x[2] \in Operators}

ModesTracked == line = <<>> => Tracks(view, room) /\ (sure => view.key = room.key)

\* Why: the bot knows the channel as it was, and the changes of the line lead from there to
\* the channel as it is.
Rooms ==
  [flags : SUBSET {"t"}, key : Keys \union {NoArg}, limit : Limits \union {NoArg},
   bans : SUBSET Masks, ranks : SUBSET (Members \X Ranks)]

Along(start, changes) ==
  LET rooms[i \in 0 .. Len(changes)] ==
        IF i = 0 THEN start ELSE Made(rooms[i - 1], changes[i])
  IN rooms

Views ==
  [letters : SUBSET {"k", "l", "t"}, key : Keys \union {NoArg}, limit : Limits \union {NoArg},
   bans : SUBSET Masks, ranks : SUBSET (Members \X Ranks)]

ChangeRecords ==
  [adding : BOOLEAN, mode : {"b", "k", "l", "t"} \union Ranks,
   arg : {NoArg} \union Keys \union Limits \union Masks \union Members]

ModesInv ==
  /\ prefix \in Advertised /\ room \in Rooms /\ view \in Views /\ sure \in BOOLEAN
  /\ line \in Seq(ChangeRecords)
  /\ \A i, j \in DOMAIN line : line[i].mode = "k" /\ line[j].mode = "k" => i = j
  /\ \E start \in Rooms :
       LET rooms == Along(start, line) IN
       /\ Tracks(view, start) /\ (sure => view.key = start.key)
       /\ \A i \in DOMAIN line :
            line[i] \in Changes(rooms[i - 1]) /\ rooms[i] # rooms[i - 1]
       /\ rooms[Len(line)] = room

=============================================================================
