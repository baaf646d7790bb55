# BotNATS in TLA+

A verification project for BotNATS, a mesh of IRC bots that coordinate through
Core NATS and JetStream KV. The modules model the parts of the mesh that are
hard to test: several bots and several tasks of one bot that read and write
shared KV buckets with compare-and-set, watch them, lose calls and connections,
restart, and must agree all the same. TLC checks the models on small instances;
TLAPS proves the central invariants for every instance.

Paths below are relative to `src/botnats/`. `PROJECT.json` maps every definition
to the lines it models.

## 1. The system

Each bot is one asyncio process: an IRC client, a set of event handlers, the
components below, and one NATS connection. Code between two `await`s is atomic;
every `await` is a point where other tasks of the bot, other bots and the
servers may step. Bots share nothing but the IRC network, the KV buckets and
broadcast help requests.

| Component | State | Operations | Interacts with |
| --- | --- | --- | --- |
| Presence claim (`nats/claim.py`, `PresenceStore`) | state, known KV revision, generation | `put` (heartbeat), `claim`, `reclaim`, `expired`, `observe`, `release`, `reset` | presence bucket and watch; gates every durable write and readiness |
| Attempt limiter (`AttemptStore`) | one key per slot and identity, aged by the bucket | `allow` | called by AUTH on any bot |
| TOTP claims (`ClaimStore`, `TotpAuthorizer.match`) | one key per counter, aged by the bucket | `match`, `claim` | called by AUTH on any bot |
| Sessions (`AuthFlow`, `SessionSync`, `TotpAuthorizer`, `SessionStore`) | session cache, queue of unwritten mutations, watched identities | `authenticate`, `grant`, `revoke`, `sync`, `retry`, `write`, `observe`, `invalidate_all` | session bucket and watch; IRC QUIT, NICK, CHGHOST |
| Channel records (`ChannelManager`, `ChannelStore`) | records by ASCII fold and by IRC fold, channel keys, pending keys, minted revisions | `channel_update` (JOIN/PART), `record_key`, `retry_pending_keys`, `apply_record` | channel bucket and watch; IRC MODE |
| Coordinator (`nats/coordinator.py`) | connection, store and watch generations, synced watches | `start`, `on_disconnected`, `on_reconnected`, `resync`, `start_watches`, `run_watch` | all stores; readiness |
| Peer help (`HelpRequests`, `ChannelManager`) | cooldowns | `request_peer`, `help_after_delay`, `op`/`invite`/`unban_peer`, `make_room` | Core NATS broadcast, IRC state |
| Channel joins and tracking (`channel.py`, `irc/events.py`) | join state, members, modes, bans, pending parts | `join_desired`, `safe_join`, `retry_pending_parts`, `set_casemapping`, IRC handlers | IRC client, channel records |
| IRC client (`irc/client.py`) | connection, registration, outbound queue | `run_forever`, `send`, `nick_collision` | event handlers |
| Envelopes (`nats/envelope.py`) | seen nonces | `encode`, `decode`, `prune_nonces` | help requests, records |
| Commands (`commands.py`) | rate buckets, FIFO lock | `dispatch`, `RateLimiter.check` | sessions, channel records |
| Identity and peer registry (`presence.py`), bot and maintenance loop (`bot.py`) | own prefix, peers' presence | `announce`, `maintenance_tick` | everything |
| Configuration, validators, IRC protocol, health check, status tool | none, or one socket | parsing, formatting, I/O | - |

What makes each one correct:

* presence claim: one owner of a bot ID; a process's revision is its own; no
  process evicts a peer; someone owns the ID in the end; duplicates stay unready;
* attempt limiter: no more than the limit of attempts in any window, mesh-wide;
* TOTP claims: a counter grants one session;
* sessions: no grant survives the identity it was made to, revocations are never
  dropped, caches agree in the end;
* channel records: no update overwrites one it has not seen, bots act on stored
  records, caches agree in the end, the key seen last on IRC is recorded;
* coordinator: a superseded generation marks nothing ready; readiness returns;
* peer help, joins: pending work is neither lost nor repeated against a newer
  record; a bot does not stay out while a peer can help;
* envelopes: a message is accepted once; rate limiter: no budget is reset early.

The behaviours that are hard: interleaved tasks of two bots on one KV key; state
read before an `await` and used after it; a write whose caller timed out and that
is served later; TTLs that remove keys silently; watch entries that arrive after
a local change, are skipped (history 1) or replayed; restarts that lose what is
not in a bucket; retries racing the change they retry. `PROJECT.json` lists them
as hazards, line by line, with the properties that cover them.

## 2. Modules

The modules fall into two groups. The first describes one KV key (or one family
of keys) and everything that reads and writes it, on all bots; the second
describes what a bot has at the ends of its connections, and the IRC channel in
which bots meet. They meet at narrow interfaces, and each side abstracts the
other by what it can do:

| Interface | One side | Other side |
| --- | --- | --- |
| a watch is replayed or not, a call answers or fails | CoordinatorLifecycle says when | PresenceClaim, SessionSync, ChannelRecords: `replayed`, `Fail`, disconnects |
| a channel record arrives, newer ones only | ChannelRecords says which | IrcChannel: `intent`, `ApplyRecord` |
| a line is queued or refused, or lost with its connection | IrcClient (and LinePipe) says how | IrcChannel: `Outcomes`, `Drop`, `Connect` |
| a help request is accepted once | EnvelopeReplay says why | IrcChannel: one `Help` for each ask |
| a batch of mode changes is taken apart | ModeLines says how | IrcChannel: one change for each line |
| a mask matches a bot or not | GlobMatch says how | IrcChannel: a ban is a bot |

`MC*` modules add symmetry sets and small constants. MCIrcChannel adds the
scenarios of its runs. MCEndpoints extends the six modules of the ends of the
connections: they share no variable, so one of them acts in each behaviour while
the others rest; this asks the questions of all six in one run without
multiplying their states.

Counters that would grow for ever are bounded by constants named `Max...` in the
guards of the actions that would grow them.

### KV buckets

All use the same picture of JetStream KV, modelled from how the stores use it: a
log of the records written, compare-and-set on the revision (index in the log),
history 1, and - where the code cannot exclude it - a request that is served after
its caller gave up (`late`, `Lingering`). A KV call is at least two steps, so every
`await` may be interleaved.

**PresenceClaim.** One presence key, the processes configured with its bot ID (a
restart is a new instance ID, as in the code), their claims, and their watches.
`op[p]` is the KV call the holder of the claim's lock awaits; its field `fresh`
replaces the generation counter, which the code only compares for equality with a
snapshot. `Serve`, `ServeLate`, `Expire`, `Clobber` are the bucket; `StartPut`,
`ReplyUpdate`, `ReplyCreate`, `ReplyGet`, `ReplyRace`, `Fail` follow `put`, `claim`
and `PresenceStore.reclaim` reply by reply; `Deliver`, `ReplayEnds`, `StartReclaim`,
`StartExpired` are `watch_presence`; the rest is the connection, `close` and crashes.

**AttemptLimit.** `AttemptStore.allow` for one identity: any number of concurrent
calls over `Limit` slots, discrete time, clocks at most `Skew` off, aging after
`TTL`, calls that fail and are served late. `TTLAssumption` (`MaxDelay + 2*Skew <=
TTL - Window`) is the margin of `ATTEMPT_TTL` (120 s) over `ATTEMPT_WINDOW` (60 s).

**TotpClaims.** `TotpAuthorizer.match` and `ClaimStore.claim` inside `authenticate`:
codes, counters (two counters may share a code), drift, skew, aging and late calls.
The assumption is that a claim (300 s) outlives the span in which any clock accepts
its counter (90 s plus skew and delay).

**SessionSync.** The session of one identity on all bots. `commands` and `flow` are
the queued AUTH commands and `authenticate` of the first; `io` is the put of the
holder of `SessionSync.lock`; `pending` the retry queue. `ChangeHands`/`SeeQuit`
separate the moment an identity changes hands from the moment a bot's read loop
handles the QUIT. Sessions, holders and faults multiply each other's states, so a
behaviour may use up one of several `Budgets` of them; what a budget leaves out counts
as used up in `Init`, and a set of the largest budget alone leaves nothing out.

**ChannelRecords.** One channel under all the names that IRC casemapping folds
together while the bucket (keyed by ASCII fold) keeps them apart. Revisions are a
number and a random suffix, compared as one number; suffixes in use do not collide.
`io[b]` has two slots: the holder of `key_lock` and the command under the FIFO
command lock; a record's `base` is the revision its put expects. `modes`/`saw` are
the history of the key on IRC and how much of it a bot has seen.

RecordRegister is the abstract specification of what the records promise to the bots
that act on them: under a name a record is only replaced by one of a higher revision;
a reader learns what was stored, never turns back, and acts on the newest record it
knows under any name, until it forgets everything. `ChannelRecords!RecordsOnlyRise` is
the refinement (`INSTANCE RecordRegister WITH`): `stored` is what the log holds of a
name, `known` and `acts` are `source_records` and `channel_records`. A put, a late
write, a replay, a failure and a CAS race are each a `Store`, a `Learn` or nothing; a
restart is the only `Forget`.

### CoordinatorLifecycle

How one bot gets its buckets and watches, and gets them back. `link` is the
connection of nats-py and `calls` the callbacks it has yet to run; `js`, `kv`,
`queue` and `creating` are the handles of each `KVStore`, its lock with those who
wait for it, and the `create_key_value` its holder awaits. `pc`, `mine` and `at` say
where `start` and `resync` are in `init_stores` and `start_watches` and for which
generation they work; `watch[g][s]` is the task `run_watch` of generation `g` for
store `s`. Cancelling is what asyncio does: a task leaves the lock it waits for, a
watch stops its watcher first, and if that raises a transport error the cancellation
is lost and the task goes on (`Stopped`). `epoch` is a history variable: the number
of resets, kept with each handle, so that `HandlesCurrent` can say that no handle
outlives its connection. nats-py is taken to reconnect only after `disconnected_cb`
has returned.

### IrcChannel

All bots of a mesh in one channel. `chan` is the channel as the server has it,
`inbox[b]` the lines bot `b` has not read: what it knows (`me[b]`) lags behind, and
every decision is taken on it. `HandleJoin`, `HandleLeave`, `HandleKick`,
`HandleNames`, `HandleWho`, `HandleMode`, `HandleInvite`, `HandleRefusal` are the
handlers of `irc/events.py`; the tasks they start (`help`, `enforce_modes`) run as
steps of their own (`RunTask`). `Request` is `request_peer` with its cooldown;
`Help` is `help_after_delay`, which re-reads the state of the peer after the delay
and then does what `op_peer`, `invite_peer`, `unban_peer` or `make_room` does.
`ApplyRecord`, `RetryPart`, `JoinDesired` and `AskForOp` are `apply_record` and the
parts of the maintenance tick. `Disturb` is what operators and services do; `Drop`
and `Connect` are the connection, a crash included.

A member of `Budgets` is a scenario: which bots there are, whether the channel is
settled, and how many records, disturbances, dropped connections, refused lines,
lost requests, late joins and operator commands may happen. Registration and
identity are one step (`Connect`); a ban is a mask that matches one bot; `+t` is the
configured mode; a request to a peer that does not know the requester, or is not
ready, is one that is lost.

### IrcClient and LinePipe

IrcClient is one bot's connection to IRC: `run_forever`, `run_connection`,
`send_loop` with its queue, CAP negotiation, nickname collisions, the idle PING,
`SelfIdentity` with its discovery tasks, and the watch for the configured nickname
by ISON or MONITOR. `wire` is the socket: open, hung, or at its end. Time is left
out: a timeout strikes a connection that hangs or has nothing to say.

LinePipe is the abstract specification of what `IRCClient.send` promises its
callers: a line joins the pipe of the present connection; lines come out in order,
each once, or are lost with their connection. `IrcClient!LinesKeepToTheirConnection`
is the refinement (`INSTANCE LinePipe WITH`): `pipe` is the line in the sender's hand
followed by the queue while there is a connection, `got` what reached the server.

### EnvelopeReplay, RateLimiter, ModeLines, GlobMatch

*EnvelopeReplay*: `encode`, `decode` and `prune_nonces` for the envelopes one bot
receives. Senders have clocks of their own; the receiver's clock may step back.
`ReplayAssumption` (`MaxLag + 2*Drift < Ttl`) is the comment at `NONCE_TTL`, sharpened:
what the TTL has to spare is what the clock may step back.

*RateLimiter*: `RateLimiter.check` with its bounded, ordered table; `granted` is the
history the table stands for.

*ModeLines*: `iter_mode_changes`, `mode_requires_argument`, PREFIX,
`apply_mode_changes` and the 324 reply against a server that makes batches of
changes and may hide a key or leave it out with `-k`. `OpMode` and `OperatorModes`
are `parse_prefix` and `operator_modes`; `Operators` says on its own which ranks a
server lets act as operators, and `ModesTracked` compares the bot's view with that. Members' ranks come from MODE
lines; a line changes the key at most once.

*GlobMatch*: `_glob_matches` round by round, against a recursive function that says
what a mask means (`Means`).

## 3. What TLC checks

| Run | Shows | Instance and bounds |
| --- | --- | --- |
| PresenceSafety | an owner's revision names its own record and never goes back; no instance evicts a peer | 2 instances, 1 fault (expiry, clobber, lost reply or disconnect), 1 refresh, late requests |
| PresenceConvergence | exactly one running instance ends up as the owner | 2 instances, 1 fault, late requests, fairness |
| PresenceDuplicate | *violated*: a duplicate can become ready (finding 1) | 2 instances, 2 faults |
| AttemptLimit | attempts on one slot are a window apart; no window exceeds the limit | 2 calls that repeat, limit 2, window 2, TTL 3 |
| TotpClaims | a counter grants at most once | 2 authentications, shared codes, skew 1, TTL 6 |
| SessionConvergence | no doomed grant takes hold, no revocation is dropped; caches agree with the bucket; nobody but the present holder stays authorized | 2 bots, 2 CAS attempts, late writes, fairness; 2 sessions with 1 fault, 2 sessions of 2 holders, or 1 session with 2 holders and 1 fault; the fault befalls one named bot |
| ChannelSafety | a record is only replaced by one written after it; bots act on stored records | 2 bots, 1 command, 1 key change, 1 fault, 2 CAS attempts, 2 suffixes |
| ChannelConvergence | the records refine RecordRegister (revisions only rise, no bot turns back), and every bot ends up knowing what is stored | 2 bots, 2 names, 2 commands, 1 fault, late writes, 1 CAS attempt, fairness |
| ChannelKeyRetry | *violated*: a retry can take a superseded key (finding 2) | 1 bot, 2 keys, 2 key changes, 1 fault |
| IrcChannel | a bot that has read its lines knows members, operators, bans and limit; all bots end up in the channel or out of it, know it, are opped, and the modes are set | 13 scenarios of 1 to 3 bots, each with one or two records, disturbances or faults, fairness |
| IrcChannelRejoin | *violated*: a bot can be in the channel without knowing it (finding 3) | 1 bot, 3 records, 1 refused line, fairness |
| Endpoints | the six modules of MCEndpoints, below | one part acts in each behaviour |

Endpoints in detail:

| Part | Properties | Bounds |
| --- | --- | --- |
| CoordinatorLifecycle | `HandlesCurrent`, `SyncedExactly`, `OneWatcher`, `EventuallyReady` | 2 stores, both watched, 2 drops, 2 faults, close at any time |
| IrcClient | `NickAgrees`, `LiveNeverClosed`, `LinesKeepToTheirConnection`, `EventuallyIdentified` | 2 nicknames, 2 servers of which one is dead, 2 identity attempts, 1 collision, 1 trouble, 1 line of a handler |
| EnvelopeReplay | `AcceptedOnce` | 2 envelopes, drift 2, TTL 6, clock 1 back, 9 ticks |
| RateLimiter | `WithinLimit` | 3 senders, 2 buckets, limit 2, window 3, 7 ticks |
| ModeLines | `ModesTracked` | 3 changes in a line, 4 PREFIX tables: `(qov)~@+`, `(v)+`, `(qa)~&`, `(uv)@+` |
| GlobMatch | `GlobDecides` | 2 characters, masks and values up to 4 long |

Why the bounds are enough. All conflicts over one key are between two parties (a
claim and its twin, a writer and a rival, a bot and its own earlier call), so two
processes with one lost, late or interrupted call each already produce every overlap
of two calls; a second round is available where the code has one (two CAS attempts). Two
sessions compete, on one bot or on two: `grant` meets a cached session or revocation,
puts lose to a higher expiry, and a revocation meets a newer grant. Their expiries are
in any order between bots. With a second holder they compete without faults, and one
session goes through a change of holder with one. Bots are alike, so naming the one that
a behaviour's only fault befalls loses nothing. Clock skew is absent from AttemptLimit's
run (`BudgetHolds` covers it), keys from ChannelConvergence (ChannelSafety has them), and
the client of the Endpoints run is handed one line (`ClientImplementsPipe` covers their order).
In the channel, help takes a requester and a peer, and a third bot
makes two peers answer one request or one of two peers act on what the other did;
that is what the three-bot scenarios are for. A reconnect overlaps at most the tasks
of the previous connection, and a second drop makes them overlap each other. A nonce
that is forgotten too early needs one replay and one later envelope that prunes; a
bucket lost to eviction needs one sender more than buckets. A batch of three changes
has one that takes its argument before, between and after others. The outbound queue
of the Endpoints run has nine places: it never fills, because a discovery that is
refused by a full queue ends silently (see below); refused lines are the subject of
IrcChannel.

Deadlock is not checked because every bounded instance stops: commands, faults,
records and time run out. Symmetry over bots or instances is used for safety only.

`RevisionNeverRegresses` allows one exception, found by a run with two faults: a
create whose caller gave up lands after a deletion of the key, while its process
still awaits the reply to an earlier update, which then takes the revision back
until the next heartbeat. `OwnRevision` and `NeverEvictsPeer` are not affected.
Larger instances of PresenceSafety (three refreshes; the first 19 million states
with two faults) showed no other.

### Fairness

* KV calls are answered or fail, watch entries and IRC lines are processed, and
  reconnects succeed (weak fairness): nats-py and the IRC client retry for ever
  (`max_reconnect_attempts=-1`, `run_watch`, `run_forever`), and every request has a
  timeout. nats-py runs its callbacks; a task that can run does.
* Heartbeats and retries (`maintenance_tick`) come back every interval:
  weak fairness on `StartPut`; strong fairness on `RetryStart`, `SyncStart`,
  `StartReclaim`, `StartExpired` and `KeyStep`, because the lock they wait for is
  an `asyncio.Lock`, which is first come, first served; strong fairness on
  `JoinDesired` and `AskForOp`, because each tick looks again at a state that other
  steps may change in between.
* In IrcChannel a random delay ends, and the fairness of `ApplyRecord`, `Connect` and
  `RetryPart` is stated for the three together: each happens only finitely often.
* Other users release nicknames in the end (`ReleaseNick`): without that no bot can
  get its configured one.
* Nothing is assumed of commands, faults, QUITs or what operators do on IRC.

### Findings

1. `PresenceDuplicate`. README.md says "duplicates remain unready". An instance
   that is already DUPLICATE and has a claim in flight sees the peer's record
   again; `yield_key` changes no state, so the generation stays, and the claim's
   success is adopted although the peer has taken the key since. The next
   heartbeat's compare-and-set fails and the instance is a duplicate again.
2. `ChannelKeyRetry`. channel.py says that a retry writes the key the bot sees on
   IRC at that moment. When two key changes queue on `key_lock`, applying the
   first record sets `runtime.key` back to the first key; if the second write
   then fails, the retry reads that key, finds it recorded, and drops the retry.
   The record keeps the old key until the key changes again.
3. `IrcChannelRejoin`. A PART that a full queue refuses waits in `pending_parts`. If
   the channel is to be joined again before the retry, `apply_record` drops the
   pending PART and makes an idle runtime, although the bot never left: servers do
   not answer a JOIN of a channel one is in, so the runtime never becomes joined and
   tracks nothing until the bot is kicked, parted or reconnected.

### Observations

What the models had to leave alone, because the code does not promise it:

* A clock that steps back by more than `NONCE_TTL - 2 * TIMESTAMP_DRIFT_WINDOW` after
  a nonce was pruned lets the same envelope be accepted again (`ReplayAssumption`).
* WHO, MODE and the mode lines of `enforce_modes` are sent once. If a full queue
  refuses one, nothing sends it again, so what it would have told stays unknown until
  the next occasion; `Droppable` holds the lines that are retried by their owners. The
  MONITOR subscription and the NICK that reclaims the nickname are of that kind, too.
* `discover` ends on `ConnectionError`: a USERHOST refused by a full queue ends the
  discovery, and the bot has no identity until it reconnects.
* The cooldown of a help request (half a second) may end before the delays of its
  answers (up to a second), so a peer may answer two requests of one kind; IrcChannel
  keeps one of them, since the second answer re-reads the state that the first changed.

## 4. What TLAPS proves

| Module | Theorems | Argument |
| --- | --- | --- |
| PresenceClaimProofs | `TypeCorrect`, `OwnRevisionHolds`, `NeverEvictsPeerHolds`, `RevisionNeverRegressesHolds` | `IInv` of PresenceClaim adds to `OwnRevision` why it is inductive: what a request names, also an abandoned one, is the sender's own record (an invalid one for an overwrite), and a served result is a record the sender wrote. One lemma per action; the action properties follow from the invariant, the last one with `RevisionInv`: a fresh claim has no revision to lose, and while a served refresh awaits its reply its process has written nothing since, unless the key was deleted in between. |
| AttemptLimitProofs | `TypeCorrect`, `SpacingHolds`, `BudgetHolds` | `SlotsRemember`: what a slot holds is at least as new as the attempts it allowed, or was written so long after them that their windows are over; `TTLAssumption` carries it over aging. The budget follows by mapping attempts in a window injectively to slots. |
| TotpClaimsProofs | `TypeCorrect`, `OneGrant` | `ClaimsLast`: a used-up counter is still claimed, or no clock accepts it any more. |
| ChannelRecordsProofs | `TypeCorrect`, `ChainHolds`, `ViewHolds`, `RecordsOnlyRiseHolds` | `IInv` of ChannelRecords adds what a put in flight, or one served late, may carry (`PutSound`): it outranks the record it was written after; a create was written after nothing, an update after the record at the revision it names, and a reply carries a stored record. A minted record outranks its base because the view holds the highest revision of all names (`ViewIsStored`) and a higher number outranks every suffix (`HigherNumber`). Stored records are never changed as the log grows (`Kept`), so one lemma per action carries the rest. For the refinement `Rising` is added: revisions under a name rise over all pairs of records, not only over the last two, since an accepted write outranks the record it replaces, which outranks all before (`AcceptedOutranks`). An accepted write is then a `Store`, applying a stored record a `Learn` or nothing (`AppliedRegister`). |
| SessionSyncProofs | `TypeCorrect`, `RevocationNotLostHolds`, `DoomedGrantHolds` | `SyncInv`: records only rise, in the bucket, on their way to it and in the answers to a put, and what is queued outranks what is being sent (`RecordsRise`); a session is granted once, by one bot whose cache never falls below it (`GrantsOwned`); while an identity is not invalidated, the grant in flight is not doomed (`InvalidationSeen`). One lemma per action. |
| CoordinatorLifecycleProofs | `TypeCorrect`, `HandlesCurrentHolds`, `SyncedExactlyHolds`, `OneWatcherHolds` | `LifecycleInv` adds what each `await` leaves true until it ends: callbacks come one after another (`CallsInOrder`), and the watch starts still to come bound the generations (`GenerationsLeft`); a task waits for one store's lock, and a creation in flight is for the store's present context or the stores were reset since (`LocksHeld`); tasks of a generation that is not listed only clean up (`WatchesListed`). |
| EndpointsProofs | `ReplayTypeCorrect`, `AcceptedOnceHolds`; `RateTypeCorrect`, `WithinLimitHolds`; `ClientTypeCorrect`, `NickAgreesHolds`, `LiveNeverClosedHolds`, `ClientImplementsPipe`; `GlobDecidesHolds`; `ModesTrackedHolds` | `ReplayInv`: an accepted nonce is remembered, or its timestamp is out of the window of any clock to come (`ReplayAssumption`). `RateInv`: the bucket of a sender holds what it was granted in the window, or it was granted nothing. `ClientInv`: what the bot holds belongs to its present connection, and the lines on an open connection lead from the nickname of the bot to that of the server. Every step of IrcClient is a step of LinePipe or a stutter; that the pipe's lines are numbered without a gap rests on a least-counterexample argument over `WorkNumbers` (`LeastNatural`). `GlobInv`: until the matcher returns to its last star, what follows from the star and what follows from its present place decide the same; a star is returned to at most once for each place of the value, which bounds the rounds. `ModesInv`: the bot knows the channel as it was, and the changes made and not shown lead from there to the channel as it is; a change that changes something carries an argument exactly when its mode requires one (`ChangeFacts`), so the bot reads each with its own (`PairedShown`), also when a `-k` comes without its key. |
| IrcChannelProofs | `ChannelTypeCorrect`, `ViewTracksHolds`, `MembersTracked` | `ChannelInv`: what a bot knows, followed through the lines it has not read (`Trail`), ends at the channel as it is. What the server appends is sound for every bot's trail, and a handler makes of a bot what the trail makes of its view, so reading a line shortens the trail without moving its end. A member list is complete only after its WHO, hence the hypothesis `"WHO" \notin Droppable` of the last two, which the run that checks them satisfies. |

The theorems hold for every set of instances, attempts, codes, names, bots,
nonces, senders, lines and connections, every limit and every bound on faults and
time that satisfies the named assumptions of the modules; TLC evaluates those
assumptions in every run. TLC has checked each inductive invariant on the small
instances before its proof.

All type invariants, safety invariants and action properties that the runs check are
proved, the refinements of LinePipe and RecordRegister among them. Only model-checked are the liveness
properties: `EventuallyOneOwner`, `EventuallyAgree`, `EventuallyCurrent`,
`EventuallyConverged`, `EventuallyPlaced`, `EventuallyKnown`, `EventuallyOpped`,
`EventuallyEnforced`, `EventuallyReady` and `EventuallyIdentified`. They rest on
fairness and on what is enabled, which the provers do not treat.

Where a proof needs induction over a line, a queue or a mask, it takes the least
counterexample of a set of numbers (`LeastNatural`, `Upward`), since the induction
theorems of the library take an operator as their parameter. Recursion is written as
recursive functions, whose equations are lemmas (`MatchingByStep`, `ShownByStep`,
`AlongByStep`): no module declares a RECURSIVE operator.

These assumptions are about what servers and settings provide: PREFIX advertises none
of the channel's own modes, an argument is not empty and a key is not the `*` that
hides one, ranks share neither mode nor symbol, and founders (`q`) come before protected
members (`a`) and these before operators (`o`) (`ModesAssumption`); a bot's nickname, user and host hold no wildcard
(`CharactersAssumption`).

## 5. What is not modelled

* The MAC of records and envelopes, JSON and IRC text: a forged or malformed
  record is one the stores reject (`Forged`), a forged envelope one that is not
  `genuine`. Message parsing and formatting and case folding are conversions of text.
* Aging of session keys (the modelled period is shorter than the session TTL),
  several identities at once, and a bot clock that steps backwards between two
  grants of its own.
* A change of casemapping, which regroups channels, sessions and members; members
  that change nickname or host (NICK, CHGHOST) while in a channel; several channels
  at once. They rekey dictionaries between two awaits and reach no other state.
* Ranks: without multi-prefix a member's lower rank is unknown until it is shown, so
  a bot that loses its highest rank may think that it has none until the next WHO;
  ModeLines takes ranks from MODE lines only.
* Send rates, join pacing, back-off and jitter: they change when, not whether.
* Commands that only read state (STATUS, GETCHANS, ...) and what bots say to users.
* Configuration, validators, health check and status tool: stateless checks and
  pure I/O.

## 6. Plan

All modules of the plan are written and checked, and every safety and action property
of the runs is proved. What is left, in order of importance:

1. Sessions as channel records: cache and bucket refine a set of grants in which a revoked
   one never comes back (SessionSync, from `DoomedGrantNeverHolds`).
2. Larger models: ranks below the highest one, and several channels at once.
