---------------------------- MODULE ChannelRecords ----------------------------
(***************************************************************************)
(* The durable record of ONE channel across the mesh: ChannelStore.put with *)
(* KVStore.put_newer (nats/store.py), the record, key and revision part of   *)
(* ChannelManager (channel.py), channel_update of commands.py, process_key   *)
(* of irc/events.py and watch_channels (nats/coordinator.py).                *)
(*                                                                         *)
(* A channel may have several names that IRC casemapping folds together but  *)
(* ASCII folding, which keys the bucket, does not (#a[ and #a{).  `log' is   *)
(* the stream under the "channels" bucket: every record written, under any   *)
(* of the names; the index of a record is its KV revision.  `modes' is the   *)
(* history of the key set on IRC (+k and -k), the same for every member.     *)
(***************************************************************************)
EXTENDS Naturals, Sequences

CONSTANTS
  Bots,          \* the bots of the mesh
  Names,         \* names of the channel under ASCII folding
  IrcName,       \* the name the IRC server uses
  Keys, NoKey,   \* channel keys, and the absence of one
  Tags,          \* the order of random revision suffixes is 0..Tags-1
  Tries,         \* CAS_ATTEMPT_LIMIT
  MaxCommands,   \* JOIN and PART commands run in all
  MaxModes,      \* changes of the key on IRC
  MaxFaults,     \* bound on failed KV calls, disconnects, kicks and crashes
  Lingering      \* whether a write may be served after its caller gave up

ASSUME NamesAssumption == IrcName \in Names /\ NoKey \notin Keys
ASSUME BoundsAssumption ==
  /\ Tags \in Nat \ {0} /\ Tries \in Nat \ {0} /\ MaxCommands \in Nat
  /\ MaxModes \in Nat /\ MaxFaults \in Nat /\ Lingering \in BOOLEAN

VARIABLES
  log,          \* records written under the channel's names
  source,       \* ChannelManager.source_records
  view,         \* ChannelManager.channel_records under the IRC fold
  key,          \* ChannelRuntime.key, NoKey if the channel has no runtime
  joined,       \* bots in the channel
  pendingKeys,  \* ChannelManager.pending_keys
  lastNumber,   \* ChannelManager.last_revision
  tasks,        \* record_key tasks waiting for key_lock
  io,           \* the put of the key_lock holder, and of the command that runs
  late,         \* a write whose caller gave up but that may still be served
  modes, saw,   \* the key on IRC over time, and how much of it a bot has seen
  nats,         \* bots connected to NATS
  pos, goal,    \* how much of the log the watch has delivered, and must for its replay
  commands, faults

vars == <<log, source, view, key, joined, pendingKeys, lastNumber, tasks, io, late,
          modes, saw, nats, pos, goal, commands, faults>>

-----------------------------------------------------------------------------
(* Records and revisions *)

\* A revision is a number and a random suffix; it is compared as one number.
Revision(number, tag) == number * Tags + tag
Number(rev) == rev \div Tags

\* `base' is history: the revision of the record under its name it was written after.
Record(name, rev, k, present, base) ==
  [name |-> name, rev |-> rev, key |-> k, present |-> present, base |-> base]

Records == [name : Names, rev : Nat, key : Keys \union {NoKey}, present : BOOLEAN, base : Nat]

\* No record is known; revisions start above 0.
Unknown(name) == Record(name, 0, NoKey, FALSE, 0)

Greater(m, n) == IF m > n THEN m ELSE n

\* ChannelRecord.new: above the view's revision and every number this bot has minted.
NextNumber(b) == Greater(lastNumber[b], Number(view[b].rev)) + 1

Put(pc, by, rec, seen, try, stored) ==
  [pc |-> pc, by |-> by, rec |-> rec, seen |-> seen, try |-> try, stored |-> stored]

Slots == {"key", "command"}
NoPut == Put("idle", "nobody", Unknown(IrcName), 0, 0, Unknown(IrcName))

Puts == [pc : {"idle", "get", "create", "update", "reply"},
         by : {"nobody", "task", "retry", "command"},
         rec : Records, seen : Nat, try : 0..Tries, stored : Records]

\* Records, their revisions and the puts that carry them stay what parse_channel_record
\* accepts; the runtime's key is one that was on IRC or in a record.
TypeOK ==
  /\ log \in Seq(Records)
  /\ source \in [Bots -> [Names -> Records]] /\ view \in [Bots -> Records]
  /\ key \in [Bots -> Keys \union {NoKey}]
  /\ joined \in SUBSET Bots
  /\ pendingKeys \in [Bots -> SUBSET Names]
  /\ lastNumber \in [Bots -> Nat]
  /\ tasks \in [Bots -> Seq(Keys \union {NoKey})]
  /\ io \in [Bots -> [Slots -> Puts]] /\ late \in [Bots -> Puts]
  /\ modes \in Seq(Keys \union {NoKey}) /\ saw \in [Bots -> Nat]
  /\ nats \in SUBSET Bots /\ pos \in [Bots -> Nat] /\ goal \in [Bots -> Nat]
  /\ commands \in 0..MaxCommands /\ faults \in 0..MaxFaults

Init ==
  /\ log = <<>>
  /\ source = [b \in Bots |-> [n \in Names |-> Unknown(n)]]
  /\ view = [b \in Bots |-> Unknown(IrcName)]
  /\ key = [b \in Bots |-> NoKey]
  /\ joined = {}
  /\ pendingKeys = [b \in Bots |-> {}]
  /\ lastNumber = [b \in Bots |-> 0]
  /\ tasks = [b \in Bots |-> <<>>]
  /\ io = [b \in Bots |-> [s \in Slots |-> NoPut]] /\ late = [b \in Bots |-> NoPut]
  /\ modes = <<>> /\ saw = [b \in Bots |-> 0]
  /\ nats = Bots /\ pos = [b \in Bots |-> 0] /\ goal = [b \in Bots |-> 0]
  /\ commands = 0 /\ faults = 0

Fault == faults < MaxFaults /\ faults' = faults + 1

cache == <<source, view, key>>
channel == <<joined, modes, saw>>
watch == <<nats, pos, goal>>
counts == <<commands, faults>>

-----------------------------------------------------------------------------
(* The KV bucket (external: history 1, compare-and-set on the revision) *)

Under(name) == {i \in 1..Len(log) : log[i].name = name}

\* The KV revision of the record the bucket holds under a name, if any.
Held(name) == {i \in Under(name) : \A j \in Under(name) : j <= i}

Accepts(put) ==
  IF put.pc = "create" THEN Under(put.rec.name) = {} ELSE put.seen \in Held(put.rec.name)

ServeLate(b) ==
  /\ late[b].pc # "idle"
  /\ late' = [late EXCEPT ![b] = NoPut]
  /\ log' = IF Accepts(late[b]) THEN Append(log, late[b].rec) ELSE log
  /\ UNCHANGED <<cache, channel, watch, counts, pendingKeys, lastNumber, tasks, io>>

-----------------------------------------------------------------------------
(* ChannelManager.apply_record *)

\* What a bot knows after a record: under its own name, and over all names.
SourceAfter(b, rec) ==
  IF source[b][rec.name].rev >= rec.rev THEN source[b] ELSE [source[b] EXCEPT ![rec.name] = rec]

\* Mutant: the newest record under its own name is acted on, whatever the others say.
OutdatesOwn(b, rec) == rec.rev > source[b][rec.name].rev

Outdates(b, rec) == rec.rev > source[b][rec.name].rev /\ rec.rev > view[b].rev

\* The key is taken only from a record that changes it.
KeyAfter(b, rec) ==
  IF ~rec.present THEN NoKey
                  ELSE IF ~view[b].present \/ view[b].key # rec.key THEN rec.key ELSE key[b]

\* A part tombstone leaves the channel; pending parts are not modelled.
Apply(b, rec) ==
  /\ source' = [source EXCEPT ![b] = SourceAfter(b, rec)]
  /\ IF Outdates(b, rec)
       THEN /\ view' = [view EXCEPT ![b] = rec]
            /\ key' = [key EXCEPT ![b] = KeyAfter(b, rec)]
            /\ joined' = IF rec.present THEN joined ELSE joined \ {b}
       ELSE UNCHANGED <<view, key, joined>>

-----------------------------------------------------------------------------
(* ChannelStore.put and KVStore.put_newer *)

\* Random suffixes do not collide.
InUse(rev) ==
  \/ \E i \in 1..Len(log) : log[i].rev = rev
  \/ \E b \in Bots : late[b].rec.rev = rev \/ \E slot \in Slots : io[b][slot].rec.rev = rev

\* A put begins: its record is minted and names the revision it was written after.
Mint(b, slot, by, name, k, present, tag) ==
  LET rev == Revision(NextNumber(b), tag) IN
  /\ ~InUse(rev)
  /\ lastNumber' = [lastNumber EXCEPT ![b] = NextNumber(b)]
  /\ io' = [io EXCEPT ![b][slot] =
       Put("get", by, Record(name, rev, k, present, source[b][name].rev), 0, 1, Unknown(name))]

\* Mutant: the higher revision wins, whatever it was written after.
ExpectedIfLower(put, current) == current.rev < put.rec.rev

\* newer(): only the record the write came after is replaced.
Expected(put, current) == current.rev = put.rec.base

\* Mutant: the put's own record is taken for the stored one.
AnsweredOwn(put, stored) == Put("reply", put.by, Unknown(put.rec.name), 0, 0, put.rec)

\* put_newer returns the authoritative record.
Answered(put, stored) == Put("reply", put.by, Unknown(put.rec.name), 0, 0, stored)

Sent(put, pc, held) == Put(pc, put.by, put.rec, held, put.try, put.stored)

Get(b, slot) ==
  LET put == io[b][slot] IN
  /\ put.pc = "get" /\ b \in nats
  /\ \/ Under(put.rec.name) = {} /\ io' = [io EXCEPT ![b][slot] = Sent(put, "create", 0)]
     \/ \E held \in Held(put.rec.name) :
          io' = [io EXCEPT ![b][slot] =
            IF Expected(put, log[held]) THEN Sent(put, "update", held) ELSE Answered(put, log[held])]
  /\ UNCHANGED <<log, cache, channel, watch, counts, pendingKeys, lastNumber, tasks, late>>

Writing(b, slot) == io[b][slot].pc \in {"create", "update"} /\ b \in nats

Write(b, slot) ==
  /\ Writing(b, slot) /\ Accepts(io[b][slot])
  /\ log' = Append(log, io[b][slot].rec)
  /\ io' = [io EXCEPT ![b][slot] = Answered(@, @.rec)]
  /\ UNCHANGED <<cache, channel, watch, counts, pendingKeys, lastNumber, tasks, late>>

\* Mutant: one attempt too many.
AttemptsLeftPast(put) == put.try <= Tries

\* The loop of put_newer.
AttemptsLeft(put) == put.try < Tries

\* The key has changed since it was read: read it again, Tries times in all.
LoseRace(b, slot) ==
  /\ Writing(b, slot) /\ ~Accepts(io[b][slot]) /\ AttemptsLeft(io[b][slot])
  /\ io' = [io EXCEPT ![b][slot] =
       Put("get", @.by, @.rec, 0, @.try + 1, Unknown(@.rec.name))]
  /\ UNCHANGED <<log, cache, channel, watch, counts, pendingKeys, lastNumber, tasks, late>>

\* The put raises: a command gives up, a key write is left to a retry.
Raise(b, slot) ==
  /\ io' = [io EXCEPT ![b][slot] = NoPut]
  /\ pendingKeys' = IF slot = "key"
                      THEN [pendingKeys EXCEPT ![b] = @ \union {io[b]["key"].rec.name}]
                      ELSE pendingKeys

Exhaust(b, slot) ==
  /\ Writing(b, slot) /\ ~Accepts(io[b][slot]) /\ ~AttemptsLeft(io[b][slot])
  /\ Raise(b, slot)
  /\ UNCHANGED <<log, cache, channel, watch, counts, lastNumber, tasks, late>>

\* An abandoned put leaves its write behind, if it was sent; it may never be served.
Abandon(b, put) ==
  late' = IF Lingering /\ put.pc \in {"create", "update"} THEN [late EXCEPT ![b] = put]
                                                          ELSE late

\* A KV call times out, there is no connection, or the bot does not own its bot ID.
WriteFails(b, slot) ==
  /\ io[b][slot].pc # "idle"
  /\ Fault \/ (b \notin nats /\ UNCHANGED faults)
  /\ Abandon(b, io[b][slot])
  /\ Raise(b, slot)
  /\ UNCHANGED <<log, cache, channel, watch, commands, lastNumber, tasks>>

\* write_key and channel_update apply the authoritative record, whoever wrote it.
Written(b, slot) ==
  /\ io[b][slot].pc = "reply"
  /\ Apply(b, io[b][slot].stored)
  /\ io' = [io EXCEPT ![b][slot] = NoPut]
  /\ pendingKeys' = IF slot = "key"
                      THEN [pendingKeys EXCEPT ![b] = @ \ {io[b]["key"].rec.name}]
                      ELSE pendingKeys
  /\ UNCHANGED <<log, modes, saw, watch, counts, lastNumber, tasks, late>>

-----------------------------------------------------------------------------
(* Commands and key writes *)

\* cmd_join and cmd_part through channel_update; a JOIN without a key keeps the present one.
Command(b, name, k, present, tag) ==
  /\ io[b]["command"].pc = "idle" /\ commands < MaxCommands
  /\ (present \/ k = NoKey)
  /\ commands' = commands + 1
  /\ Mint(b, "command", "command", name, IF present /\ k = NoKey THEN key[b] ELSE k, present, tag)
  /\ UNCHANGED <<log, cache, channel, watch, faults, pendingKeys, tasks, late>>

\* write_key has nothing to do.
Settled(b, k) == ~view[b].present \/ view[b].key = k

WriteKey(b, by, name, k, tag) ==
  IF Settled(b, k)
    THEN /\ pendingKeys' = [pendingKeys EXCEPT ![b] = @ \ {name}]
         /\ UNCHANGED <<io, lastNumber>>
    ELSE /\ Mint(b, "key", by, name, k, TRUE, tag)
         /\ UNCHANGED pendingKeys

\* record_key: the change that waited longest gets the lock.
RecordKey(b, tag) ==
  /\ io[b]["key"].pc = "idle" /\ tasks[b] # <<>>
  /\ tasks' = [tasks EXCEPT ![b] = Tail(@)]
  /\ WriteKey(b, "task", IrcName, Head(tasks[b]), tag)
  /\ UNCHANGED <<log, cache, channel, watch, counts, late>>

Ready(b) == b \in nats /\ pos[b] >= goal[b]

\* retry_pending_keys, on the maintenance tick of a ready bot.
RetryKey(b, name, tag) ==
  /\ io[b]["key"].pc = "idle" /\ name \in pendingKeys[b] /\ Ready(b)
  /\ IF b \in joined
       THEN WriteKey(b, "retry", name, key[b], tag)
       ELSE /\ pendingKeys' = [pendingKeys EXCEPT ![b] = @ \ {name}]
            /\ UNCHANGED <<io, lastNumber>>
  /\ UNCHANGED <<log, cache, channel, watch, counts, tasks, late>>

-----------------------------------------------------------------------------
(* IRC *)

KeyOnIRC == IF modes = <<>> THEN NoKey ELSE modes[Len(modes)]

\* An operator changes the key.
ChangeMode(k) ==
  /\ Len(modes) < MaxModes /\ k # KeyOnIRC
  /\ modes' = Append(modes, k)
  /\ UNCHANGED <<log, cache, joined, saw, watch, counts, pendingKeys, lastNumber, tasks, io,
                 late>>

\* process_key: the runtime's key at once, the record's in background.
ProcessKey(b, k) ==
  /\ key' = [key EXCEPT ![b] = k]
  /\ tasks' = [tasks EXCEPT ![b] = Append(@, k)]

SeeMode(b) ==
  /\ b \in joined /\ saw[b] < Len(modes)
  /\ ProcessKey(b, modes[saw[b] + 1])
  /\ saw' = [saw EXCEPT ![b] = @ + 1]
  /\ UNCHANGED <<log, source, view, joined, modes, watch, counts, pendingKeys, lastNumber, io,
                 late>>

\* The server lets the bot in; its mode reply shows the key, or hides it.
Join(b) ==
  /\ view[b].present /\ b \notin joined /\ KeyOnIRC \in {NoKey, key[b]}
  /\ joined' = joined \union {b}
  /\ saw' = [saw EXCEPT ![b] = Len(modes)]
  /\ IF KeyOnIRC # key[b] THEN ProcessKey(b, KeyOnIRC) ELSE UNCHANGED <<key, tasks>>
  /\ UNCHANGED <<log, source, view, modes, watch, counts, pendingKeys, lastNumber, io, late>>

\* The bot is kicked, or its IRC connection drops.
Leave(b) ==
  /\ b \in joined /\ Fault
  /\ joined' = joined \ {b}
  /\ UNCHANGED <<log, cache, modes, saw, watch, commands, pendingKeys, lastNumber, tasks, io,
                 late>>

-----------------------------------------------------------------------------
(* The channel watch, the NATS connection, crashes *)

\* The next entry the watch delivers; history 1 lets it skip replaced records.
Deliver(b) ==
  /\ b \in nats
  /\ \E i \in (pos[b] + 1) .. Len(log) :
       /\ \A j \in (pos[b] + 1) .. (i - 1) : j \notin Held(log[j].name)
       /\ Apply(b, log[i])
       /\ pos' = [pos EXCEPT ![b] = i]
  /\ UNCHANGED <<log, modes, saw, nats, goal, counts, pendingKeys, lastNumber, tasks, io, late>>

Unwatch(b) == pos' = [pos EXCEPT ![b] = 0] /\ goal' = [goal EXCEPT ![b] = 0]

Disconnect(b) ==
  /\ b \in nats /\ Fault
  /\ nats' = nats \ {b} /\ Unwatch(b)
  /\ UNCHANGED <<log, cache, channel, commands, pendingKeys, lastNumber, tasks, io,
                 late>>

\* Mutant: a watch that delivers only what is written from now on.
RewatchUpdates(b) == pos' = [pos EXCEPT ![b] = Len(log)] /\ goal' = [goal EXCEPT ![b] = Len(log)]

\* A new watch replays what the bucket holds.
Rewatch(b) == pos' = [pos EXCEPT ![b] = 0] /\ goal' = [goal EXCEPT ![b] = Len(log)]

Reconnect(b) ==
  /\ b \notin nats
  /\ nats' = nats \union {b}
  /\ Rewatch(b)
  /\ UNCHANGED <<log, cache, channel, counts, pendingKeys, lastNumber, tasks, io, late>>

\* The channel watch alone breaks and starts over.
WatchFails(b) ==
  /\ b \in nats /\ Fault
  /\ Rewatch(b)
  /\ UNCHANGED <<log, cache, channel, nats, commands, pendingKeys, lastNumber, tasks, io, late>>

\* The next process starts with nothing but what the bucket replays.
Crash(b) ==
  /\ Fault
  /\ \E slot \in Slots : Abandon(b, io[b][slot])
  /\ source' = [source EXCEPT ![b] = [n \in Names |-> Unknown(n)]]
  /\ view' = [view EXCEPT ![b] = Unknown(IrcName)]
  /\ key' = [key EXCEPT ![b] = NoKey]
  /\ joined' = joined \ {b}
  /\ pendingKeys' = [pendingKeys EXCEPT ![b] = {}]
  /\ lastNumber' = [lastNumber EXCEPT ![b] = 0]
  /\ tasks' = [tasks EXCEPT ![b] = <<>>]
  /\ io' = [io EXCEPT ![b] = [s \in Slots |-> NoPut]]
  /\ nats' = nats \ {b} /\ Unwatch(b)
  /\ UNCHANGED <<log, modes, saw, commands>>

-----------------------------------------------------------------------------

PutStep(b, slot) ==
  Get(b, slot) \/ Write(b, slot) \/ LoseRace(b, slot) \/ Written(b, slot) \/ Exhaust(b, slot)

KeyStep(b) ==
  \E tag \in 0 .. Tags - 1 : RecordKey(b, tag) \/ \E name \in Names : RetryKey(b, name, tag)

Next ==
  \/ \E k \in Keys \union {NoKey} : ChangeMode(k)
  \/ \E b \in Bots :
       \/ ServeLate(b)
       \/ \E slot \in Slots : PutStep(b, slot) \/ WriteFails(b, slot)
       \/ \E name \in Names, k \in Keys \union {NoKey}, present \in BOOLEAN, tag \in 0 .. Tags - 1 :
            Command(b, name, k, present, tag)
       \/ KeyStep(b) \/ SeeMode(b) \/ Join(b) \/ Leave(b)
       \/ Deliver(b) \/ Disconnect(b) \/ Reconnect(b) \/ WatchFails(b) \/ Crash(b)

Spec == Init /\ [][Next]_vars

\* KV calls are answered, watch entries and IRC lines processed, reconnects succeed, the
\* lock passes on and the maintenance tick retries.
Fairness ==
  \A b \in Bots :
    /\ \A slot \in Slots : WF_vars(PutStep(b, slot))
    /\ WF_vars(Deliver(b)) /\ WF_vars(Reconnect(b)) /\ WF_vars(SeeMode(b)) /\ WF_vars(Join(b))
    /\ SF_vars(KeyStep(b))

FairSpec == Spec /\ Fairness

-----------------------------------------------------------------------------
(* Properties *)

\* The record a write replaces, if any.
Previous(i) == {j \in 1 .. i - 1 : log[j].name = log[i].name}

\* No update is lost unseen: every stored record was written by a bot that knew the
\* record it replaced, and outranks it, whoever else wrote meanwhile, whatever was
\* served late, and although revision numbers restart with a process.
UpdatesChain ==
  \A i \in 1..Len(log) :
    /\ log[i].rev > log[i].base
    /\ IF Previous(i) = {}
         THEN log[i].base = 0
         ELSE \E j \in Previous(i) : log[i].base = log[j].rev /\ \A k \in Previous(i) : k <= j

\* "A failed write is not applied locally, where it would shadow newer remote records":
\* whatever a bot acts on is stored in the bucket or was, and is the newest record it
\* knows under any name.
ViewIsStored ==
  \A b \in Bots :
    /\ \A n \in Names : source[b][n].rev # 0 => \E i \in Under(n) : log[i] = source[b][n]
    /\ \A n \in Names : source[b][n].rev <= view[b].rev
    /\ view[b].rev # 0 => view[b] = source[b][view[b].name]

\* channel.py:81-92: the records of the channel behave as a register of RecordRegister:
\* whatever races, lingers, is replayed or fails, a stored revision is only ever topped,
\* and no bot turns back, under one name or over all, to a record older than one it knew,
\* or to one that was never stored; only a restart makes it forget.
Register ==
  INSTANCE RecordRegister WITH
    Readers <- Bots, Blank <- [n \in Names |-> Unknown(n)], Start <- Unknown(IrcName),
    stored <- [n \in Names |-> {log[i] : i \in Under(n)}], known <- source, acts <- view

RecordsOnlyRise == Register!RegisterSpec

\* Why: a put outranks what it was written after; a create was written after nothing, an
\* update after the record it names, a reply carries a stored record.
Stored(rec) == \E i \in Under(rec.name) : log[i] = rec

PutSound(put) ==
  /\ put.pc \in {"get", "create", "update"} => put.rec.rev > put.rec.base
  /\ put.pc = "get" => put.rec.base = 0 \/ Under(put.rec.name) # {}
  /\ put.pc = "create" => put.rec.base = 0
  /\ put.pc = "update" =>
       put.seen \in Under(put.rec.name) /\ log[put.seen].rev = put.rec.base
  /\ put.pc = "reply" => Stored(put.stored)

IInv ==
  /\ TypeOK /\ UpdatesChain /\ ViewIsStored
  /\ \A b \in Bots :
       /\ late[b].pc \in {"idle", "create", "update"} /\ PutSound(late[b])
       /\ \A slot \in Slots : PutSound(io[b][slot])

\* README.md: "Peers converge through JetStream KV watches after startup and
\* reconnecting".  Once faults and commands cease, every bot knows exactly what is stored,
\* and is out of a channel it should not be in.
EventuallyConverged ==
  <>[](\A b \in Bots :
         /\ \A n \in Names : \A i \in Held(n) : source[b][n] = log[i]
         /\ b \in joined => view[b].present)

\* channel.py:67: "A retry writes the key this bot sees on IRC at that moment, never the
\* one it saw when the write failed": the key a retry writes, or leaves standing, is the
\* one on IRC, if the bot has seen every change of it and none still waits to be written.
RetryWritesSeenKey ==
  [][\A b \in joined, name \in Names, tag \in 0 .. Tags - 1 :
       RetryKey(b, name, tag) /\ saw[b] = Len(modes) /\ tasks[b] = <<>> /\ view[b].present =>
         KeyOnIRC = IF io' # io THEN io'[b]["key"].rec.key ELSE view[b].key]_vars

=============================================================================
