----------------------------- MODULE SessionSync -----------------------------
(***************************************************************************)
(* The session of ONE IRC identity across the mesh: AuthFlow.authenticate,  *)
(* SessionSync and the record cache of TotpAuthorizer (auth.py),            *)
(* SessionStore.put with KVStore.put_newer (nats/store.py), and what feeds   *)
(* them: queue_command and the QUIT/NICK/CHGHOST handlers (irc/events.py),   *)
(* on_irc_disconnect (bot.py), put_session and watch_sessions               *)
(* (nats/coordinator.py).                                                   *)
(*                                                                         *)
(* The identity is a prefix nick!user@host; whoever holds it next may be     *)
(* another person, so `life' counts its holders.  All bots share its key of  *)
(* the "sessions" bucket: `log' holds every record written under the key,    *)
(* the index of a record is its revision.  The period modelled is shorter    *)
(* than the session TTL: no record expires.                                 *)
(***************************************************************************)
EXTENDS Naturals, Sequences

CONSTANTS
  Bots,          \* the bots of the mesh
  MaxExpiry,     \* expiry times of the sessions granted are 1..MaxExpiry
  MaxLife,       \* the number of people that hold the identity, one after another
  MaxQueue,      \* AUTH commands one bot has queued at once
  Tries,         \* CAS_ATTEMPT_LIMIT
  MaxFaults,     \* bound on failed KV calls, disconnects and crashes
  Faulty,        \* the bots they befall
  Lingering,     \* whether a write may be served after its caller gave up
  Budgets        \* how much of these bounds a behaviour may use up: one of these

ASSUME BoundsAssumption ==
  /\ MaxExpiry \in Nat /\ MaxLife \in Nat \ {0} /\ MaxQueue \in Nat /\ Tries \in Nat \ {0}
  /\ MaxFaults \in Nat /\ Lingering \in BOOLEAN
ASSUME BudgetsAssumption ==
  Budgets \subseteq [sessions : 0..MaxExpiry, holders : 1..MaxLife, faults : 0..MaxFaults]

VARIABLES
  log,         \* records written under the identity's key
  records,     \* TotpAuthorizer.records
  pending,     \* SessionSync.pending
  io,          \* the put of the holder of SessionSync.lock
  late,        \* a write whose caller gave up but that may still be served
  commands,    \* AUTH commands queued, by the life of the identity that sent them
  flow,        \* authenticate() of the first of them
  invalid,     \* watched_identities: the identity is watched and was invalidated
  nats,        \* the bot's NATS connection and session watch
  pos,         \* how much of the log the watch has delivered
  life, seen,  \* the identity's present holder, and who a bot knows of
  grants,      \* history: the life each session was granted to, 0 if it was not
  mine,        \* history: sessions granted by the running process
  doomed,      \* history: sessions whose holder their bot saw go, or could not watch
  missed,      \* history: whether a bot restarted, or was off IRC during a change
  faults

vars == <<log, records, pending, io, late, commands, flow, invalid, nats, pos,
          life, seen, grants, mine, doomed, missed, faults>>

-----------------------------------------------------------------------------
(* Session records *)

Expiries == 1..MaxExpiry

Session(exp, version, revoked) == [exp |-> exp, version |-> version, revoked |-> revoked]

None == Session(0, 0, FALSE)

\* A session is granted with version 0; a revocation is one version up.
Sessions == {Session(e, 0, FALSE) : e \in Expiries} \union {Session(e, 1, TRUE) : e \in Expiries}
Cells == Sessions \union {None}

\* Session.order: expiry, then version, then revoked.
Outranks(r, s) ==
  \/ r.exp > s.exp
  \/ r.exp = s.exp /\ r.version > s.version
  \/ r.exp = s.exp /\ r.version = s.version /\ r.revoked /\ ~s.revoked

Active(r) == r # None /\ ~r.revoked

\* TotpAuthorizer.keep
Keep(old, new) == IF Outranks(new, old) THEN new ELSE old

\* Mutant: a revocation keeps the version of its session.
RevokedSameVersion(r) == Session(r.exp, r.version, TRUE)

\* TotpAuthorizer.revoke
Revoked(r) == Session(r.exp, r.version + 1, TRUE)

\* Mutant: a queued mutation is replaced by whatever comes next.
EnqueueLatest(queued, session) == session

\* SessionSync.queue
Enqueue(queued, session) ==
  IF queued = None \/ Outranks(session, queued) THEN session ELSE queued

-----------------------------------------------------------------------------
(* Types *)

Put(pc, by, session, rev, try, stored) ==
  [pc |-> pc, by |-> by, session |-> session, rev |-> rev, try |-> try, stored |-> stored]

Puts == [pc : {"idle", "get", "create", "update", "reply"}, by : {"nobody", "flow", "retry"},
         session : Cells, rev : Nat, try : Nat, stored : Cells]

NoPut == Put("idle", "nobody", None, 0, 0, None)

Flows == [pc : {"none", "queued", "claimed", "sync", "undo"}, session : Cells]

NoFlow == [pc |-> "none", session |-> None]
Queued == [pc |-> "queued", session |-> None]

\* A session record is a grant or its revocation, a queued or sent mutation likewise: no
\* step of the cache, the queue or the bucket produces any other version.
TypeOK ==
  /\ log \in Seq(Sessions)
  /\ records \in [Bots -> Cells] /\ pending \in [Bots -> Cells]
  /\ io \in [Bots -> Puts] /\ late \in [Bots -> Puts]
  /\ commands \in [Bots -> Seq(1..MaxLife)]
  /\ flow \in [Bots -> Flows]
  /\ invalid \in SUBSET Bots
  /\ nats \in [Bots -> {"up", "syncing", "down"}]
  /\ pos \in [Bots -> Nat]
  /\ life \in 1..MaxLife /\ seen \in [Bots -> 1..MaxLife]
  /\ grants \in [Expiries -> 0..MaxLife]
  /\ mine \in [Bots -> SUBSET Expiries] /\ doomed \in SUBSET Expiries
  /\ missed \in {"no", "yes"}
  /\ faults \in 0..MaxFaults

\* What the budget leaves out of the bounds counts as used up: earlier holders, faults and
\* sessions nobody remembers.
Init ==
  /\ \E budget \in Budgets :
       /\ life = MaxLife + 1 - budget.holders
       /\ faults = MaxFaults - budget.faults
       /\ grants = [e \in Expiries |-> IF e <= budget.sessions THEN 0 ELSE 1]
  /\ log = <<>>
  /\ records = [b \in Bots |-> None] /\ pending = [b \in Bots |-> None]
  /\ io = [b \in Bots |-> NoPut] /\ late = [b \in Bots |-> NoPut]
  /\ commands = [b \in Bots |-> <<>>]
  /\ flow = [b \in Bots |-> NoFlow]
  /\ invalid = {}
  /\ nats = [b \in Bots |-> "up"] /\ pos = [b \in Bots |-> 0]
  /\ seen = [b \in Bots |-> life]
  /\ mine = [b \in Bots |-> {}] /\ doomed = {} /\ missed = "no"

Fault(b) == b \in Faulty /\ faults < MaxFaults /\ faults' = faults + 1

history == <<grants, mine, doomed, missed>>
irc == <<life, seen>>
local == <<records, pending, io, commands, flow, invalid>>

-----------------------------------------------------------------------------
(* The KV bucket (external: history 1, compare-and-set on the revision) *)

Stored == IF log = <<>> THEN None ELSE log[Len(log)]

Accepts(put) == IF put.pc = "create" THEN log = <<>> ELSE Len(log) = put.rev

\* A write whose caller failed is served after all.
ServeLate(b) ==
  /\ late[b].pc # "idle"
  /\ late' = [late EXCEPT ![b] = NoPut]
  /\ log' = IF Accepts(late[b]) THEN Append(log, late[b].session) ELSE log
  /\ UNCHANGED <<local, nats, pos, irc, history, faults>>

-----------------------------------------------------------------------------
(* SessionStore.put and KVStore.put_newer, by the holder of the lock *)

\* put_newer returns the authoritative record.
Answered(put, stored) == Put("reply", put.by, put.session, 0, 0, stored)

\* kv.get: a record that is not older is the answer, otherwise it is replaced.
Get(b) ==
  /\ io[b].pc = "get" /\ nats[b] # "down"
  /\ io' = [io EXCEPT ![b] =
       CASE Stored = None -> [@ EXCEPT !.pc = "create"]
         [] Stored # None /\ Outranks(io[b].session, Stored) ->
              [@ EXCEPT !.pc = "update", !.rev = Len(log)]
         [] OTHER -> Answered(@, Stored)]
  /\ UNCHANGED <<log, records, pending, late, commands, flow, invalid, nats, pos, irc,
                 history, faults>>

\* kv.create or kv.update is served.
Write(b) ==
  /\ io[b].pc \in {"create", "update"} /\ nats[b] # "down" /\ Accepts(io[b])
  /\ log' = Append(log, io[b].session)
  /\ io' = [io EXCEPT ![b] = Answered(@, @.session)]
  /\ UNCHANGED <<records, pending, late, commands, flow, invalid, nats, pos, irc,
                 history, faults>>

\* The key has changed since it was read: read it again, Tries times in all.
LoseRace(b) ==
  /\ io[b].pc \in {"create", "update"} /\ nats[b] # "down" /\ ~Accepts(io[b])
  /\ io[b].try < Tries
  /\ io' = [io EXCEPT ![b] = Put("get", @.by, @.session, 0, @.try + 1, None)]
  /\ UNCHANGED <<log, records, pending, late, commands, flow, invalid, nats, pos, irc,
                 history, faults>>

-----------------------------------------------------------------------------
(* AuthFlow.authenticate after its put, and the end of a command *)

\* The lock passes on to the next command; the last one ends the identity's watch.
EndCommand(b) ==
  /\ commands' = [commands EXCEPT ![b] = Tail(@)]
  /\ flow' = [flow EXCEPT ![b] = IF Len(commands[b]) > 1 THEN Queued ELSE NoFlow]
  /\ invalid' = IF Len(commands[b]) > 1 THEN invalid ELSE invalid \ {b}

\* Mutant: an identity that was invalidated meanwhile still counts.
GrantHoldsWritten(b, record, queued) == queued = None /\ Active(record)

\* The session is written, has not lost to a revocation, and its identity still holds.
GrantHolds(b, record, queued) == queued = None /\ Active(record) /\ b \notin invalid

\* The lock is released with this record in the cache and this mutation queued; a sync
\* of authenticate() goes on at once, and undoes a grant that does not hold.
Released(b, record, queued) ==
  LET undo == /\ flow[b].pc = "sync" /\ io[b].by = "flow"
              /\ ~GrantHolds(b, record, queued) /\ Active(record)
  IN
  /\ io' = [io EXCEPT ![b] = NoPut]
  /\ pending' = [pending EXCEPT ![b] = queued]
  /\ records' = [records EXCEPT ![b] = IF undo THEN Revoked(record) ELSE record]
  /\ IF undo
       THEN /\ flow' = [flow EXCEPT ![b] = [pc |-> "undo", session |-> Revoked(record)]]
            /\ UNCHANGED <<commands, invalid>>
       ELSE IF io[b].by = "flow" THEN EndCommand(b)
                                 ELSE UNCHANGED <<commands, flow, invalid>>

-----------------------------------------------------------------------------
(* SessionSync: sync, retry, drain, write *)

\* sync(): queue the flow's session, then drain the queue.
SyncStart(b) ==
  LET queued == Enqueue(pending[b], flow[b].session) IN
  /\ flow[b].pc \in {"sync", "undo"} /\ io[b].pc = "idle"
  /\ pending' = [pending EXCEPT ![b] = queued]
  /\ io' = [io EXCEPT ![b] = Put("get", "flow", queued, 0, 1, None)]
  /\ UNCHANGED <<log, records, late, commands, flow, invalid, nats, pos, irc, history, faults>>

\* retry(), spawned by a revocation and by every maintenance tick.
RetryStart(b) ==
  /\ pending[b] # None /\ io[b].pc = "idle"
  /\ io' = [io EXCEPT ![b] = Put("get", "retry", pending[b], 0, 1, None)]
  /\ UNCHANGED <<log, records, pending, late, commands, flow, invalid, nats, pos, irc,
                 history, faults>>

\* Mutant: the entry is removed although revoke() has replaced it meanwhile.
ReplacedNever(b) == FALSE

\* revoke() queues without the lock.
Replaced(b) == pending[b] # io[b].session

\* The stored record is a session that outranked the revocation sent.
MetGrant(sent, stored) == sent.revoked /\ ~stored.revoked

\* write(): a written mutation leaves the queue, unless it was replaced meanwhile; a
\* revocation that met a newer session is queued again, for that session.
Written(b) ==
  LET stored == io[b].stored
      cached == Keep(records[b], stored)
  IN
  /\ io[b].pc = "reply"
  /\ IF Replaced(b)
       THEN Released(b, cached, pending[b])
       ELSE IF MetGrant(io[b].session, stored)
         THEN Released(b, Keep(cached, Revoked(stored)), Revoked(stored))
         ELSE Released(b, cached, None)
  /\ UNCHANGED <<log, late, nats, pos, irc, history, faults>>

\* An abandoned put leaves its write behind, if it was sent; it may never be served.
Abandon(b) ==
  late' = IF Lingering /\ io[b].pc \in {"create", "update"}
            THEN [late EXCEPT ![b] = Put(io[b].pc, "nobody", io[b].session, io[b].rev, 0, None)]
            ELSE late

\* All races are lost: put_newer raises, the mutation stays queued.
Exhaust(b) ==
  /\ io[b].pc \in {"create", "update"} /\ nats[b] # "down" /\ ~Accepts(io[b])
  /\ io[b].try = Tries
  /\ Released(b, records[b], pending[b])
  /\ UNCHANGED <<log, late, nats, pos, irc, history, faults>>

\* The put fails: a KV call timed out, or the bot has no connection or does not own its
\* bot ID.  The mutation stays queued.
WriteFails(b) ==
  /\ io[b].pc # "idle"
  /\ Fault(b) \/ (nats[b] # "up" /\ UNCHANGED faults)
  /\ Abandon(b)
  /\ Released(b, records[b], pending[b])
  /\ UNCHANGED <<log, nats, pos, irc, history>>

-----------------------------------------------------------------------------
(* Commands: queue_command, run_command, AuthFlow.authenticate *)

\* An AUTH command arrives; its identity is watched from now on.
Auth(b) ==
  /\ Len(commands[b]) < MaxQueue
  /\ commands' = [commands EXCEPT ![b] = Append(@, seen[b])]
  /\ flow' = [flow EXCEPT ![b] = IF commands[b] = <<>> THEN Queued ELSE @]
  /\ UNCHANGED <<log, records, pending, io, late, invalid, nats, pos, irc, history, faults>>

\* request_auth and request_claim, both on a ready coordinator, let the code through.
Claim(b) ==
  /\ flow[b].pc = "queued" /\ nats[b] = "up"
  /\ flow' = [flow EXCEPT ![b].pc = "claimed"]
  /\ UNCHANGED <<log, records, pending, io, late, commands, invalid, nats, pos, irc, history,
                 faults>>

\* The command is denied: limit, wrong code, lost claim or coordinator not ready, and
\* always when the identity has become invalid.
Deny(b) ==
  /\ flow[b].pc \in {"queued", "claimed"}
  /\ EndCommand(b)
  /\ UNCHANGED <<log, records, pending, io, late, nats, pos, irc, history, faults>>

\* watched_valid
Watched(b) == b \notin invalid

\* grant(): one bot's grants expire in order; another bot's clock may be behind or ahead,
\* so its later grant may expire earlier.
Grant(b, e) ==
  LET session == Session(e, 0, FALSE) IN
  /\ flow[b].pc = "claimed" /\ Watched(b) /\ grants[e] = 0 /\ \A f \in mine[b] : f < e
  /\ records' = [records EXCEPT ![b] =
       IF ~@.revoked \/ Outranks(session, @) THEN session ELSE @]
  /\ flow' = [flow EXCEPT ![b] = [pc |-> "sync", session |-> session]]
  /\ grants' = [grants EXCEPT ![e] = Head(commands[b])]
  /\ mine' = [mine EXCEPT ![b] = @ \union {e}]
  /\ doomed' = IF Head(commands[b]) < seen[b] THEN doomed \union {e} ELSE doomed
  /\ UNCHANGED <<log, pending, io, late, commands, invalid, nats, pos, irc, missed, faults>>

-----------------------------------------------------------------------------
(* The identity: QUIT, NICK and CHGHOST, and the bot's own IRC connection *)

ChangeHands ==
  /\ life < MaxLife
  /\ life' = life + 1
  /\ UNCHANGED <<log, local, late, nats, pos, seen, history, faults>>

\* SessionSync.revoke: at once in the cache, queued for the bucket.
SeeQuit(b) ==
  /\ seen[b] < life
  /\ seen' = [seen EXCEPT ![b] = @ + 1]
  /\ invalid' = IF commands[b] = <<>> THEN invalid ELSE invalid \union {b}
  /\ IF Active(records[b])
       THEN /\ records' = [records EXCEPT ![b] = Revoked(@)]
            /\ pending' = [pending EXCEPT ![b] = Enqueue(@, Revoked(records[b]))]
       ELSE UNCHANGED <<records, pending>>
  /\ doomed' = doomed \union mine[b]
  /\ UNCHANGED <<log, io, late, commands, flow, nats, pos, life, grants, mine, missed, faults>>

\* The IRC connection drops and comes back: what happened meanwhile is not seen.
LoseIRC(b) ==
  /\ Fault(b)
  /\ invalid' = IF commands[b] = <<>> THEN invalid ELSE invalid \union {b}
  /\ seen' = [seen EXCEPT ![b] = life]
  /\ doomed' = IF flow[b].pc = "sync" THEN doomed \union {flow[b].session.exp} ELSE doomed
  /\ missed' = IF seen[b] < life THEN "yes" ELSE missed
  /\ UNCHANGED <<log, records, pending, io, late, commands, flow, nats, pos, life, grants,
                 mine>>

-----------------------------------------------------------------------------
(* The session watch, the NATS connection, crashes *)

\* on_session_update; history 1 lets a slow watch skip records that were replaced.
Deliver(b) ==
  /\ nats[b] = "up" /\ pos[b] < Len(log)
  /\ \E rev \in (pos[b] + 1) .. Len(log) :
       /\ records' = [records EXCEPT ![b] = Keep(@, log[rev])]
       /\ pos' = [pos EXCEPT ![b] = rev]
  /\ UNCHANGED <<log, pending, io, late, commands, flow, invalid, nats, irc, history, faults>>

Disconnect(b) ==
  /\ nats[b] # "down" /\ Fault(b)
  /\ nats' = [nats EXCEPT ![b] = "down"] /\ pos' = [pos EXCEPT ![b] = 0]
  /\ UNCHANGED <<log, local, late, irc, history>>

\* The session watch alone breaks and starts over.
WatchFails(b) ==
  /\ nats[b] = "up" /\ Fault(b)
  /\ nats' = [nats EXCEPT ![b] = "syncing"] /\ pos' = [pos EXCEPT ![b] = 0]
  /\ UNCHANGED <<log, local, late, irc, history>>

Reconnect(b) ==
  /\ nats[b] = "down"
  /\ nats' = [nats EXCEPT ![b] = "syncing"]
  /\ UNCHANGED <<log, local, late, pos, irc, history, faults>>

\* A new watch replays the record the bucket holds, then counts as synced.
Replay(b) ==
  /\ nats[b] = "syncing"
  /\ nats' = [nats EXCEPT ![b] = "up"]
  /\ pos' = [pos EXCEPT ![b] = Len(log)]
  /\ records' = [records EXCEPT ![b] = Keep(@, Stored)]
  /\ UNCHANGED <<log, pending, io, late, commands, flow, invalid, irc, history, faults>>

\* A crash loses the cache, the queue and the commands; the next process starts empty.
Crash(b) ==
  /\ Fault(b)
  /\ Abandon(b)
  /\ records' = [records EXCEPT ![b] = None]
  /\ pending' = [pending EXCEPT ![b] = None]
  /\ io' = [io EXCEPT ![b] = NoPut]
  /\ commands' = [commands EXCEPT ![b] = <<>>]
  /\ flow' = [flow EXCEPT ![b] = NoFlow]
  /\ invalid' = invalid \ {b}
  /\ nats' = [nats EXCEPT ![b] = "down"] /\ pos' = [pos EXCEPT ![b] = 0]
  /\ seen' = [seen EXCEPT ![b] = life]
  /\ mine' = [mine EXCEPT ![b] = {}]
  /\ missed' = "yes"
  /\ UNCHANGED <<log, life, grants, doomed>>

-----------------------------------------------------------------------------

PutStep(b) == Get(b) \/ Write(b) \/ LoseRace(b) \/ Written(b) \/ Exhaust(b) \/ WriteFails(b)

FlowStep(b) == Claim(b) \/ Deny(b) \/ \E e \in Expiries : Grant(b, e)

WatchStep(b) == Deliver(b) \/ Reconnect(b) \/ Replay(b)

Next ==
  \/ ChangeHands
  \/ \E b \in Bots :
       \/ ServeLate(b) \/ PutStep(b) \/ SyncStart(b) \/ RetryStart(b)
       \/ Auth(b) \/ FlowStep(b) \/ SeeQuit(b)
       \/ WatchStep(b) \/ LoseIRC(b) \/ Disconnect(b) \/ WatchFails(b) \/ Crash(b)

Spec == Init /\ [][Next]_vars

\* KV calls are answered, IRC lines and watch entries processed, reconnects succeed, the
\* maintenance tick retries the queue, and the lock is first come first served.
Fairness ==
  \A b \in Bots :
    /\ WF_vars(Get(b) \/ Write(b) \/ LoseRace(b) \/ Written(b) \/ Exhaust(b))
    /\ SF_vars(SyncStart(b)) /\ SF_vars(RetryStart(b)) /\ WF_vars(WatchStep(b))
    /\ WF_vars(FlowStep(b)) /\ WF_vars(SeeQuit(b))

FairSpec == Spec /\ Fairness

-----------------------------------------------------------------------------
(* Properties *)

Doomed(b, e) == e \in mine[b] \intersect doomed

Undoing(b, e) == flow[b].pc = "sync" /\ flow[b].session.exp = e

\* A grant whose identity quit, changed or was cut off from IRC while AUTH was still in
\* flight never authorizes anyone once the command is over: not when the QUIT arrives
\* before the claim, during the write or after it, nor by way of the watch, a retry or
\* another bot's write.  (A bot that restarts keeps no promise about earlier grants.)
DoomedGrantNeverHolds ==
  \A b \in Bots :
    Active(records[b]) /\ Doomed(b, records[b].exp) => Undoing(b, records[b].exp)

AtLeast(r, s) == ~Outranks(s, r)

\* A revocation in a bot's cache is durable, queued, or about to be queued by the AUTH
\* that undoes its own grant: no race of QUIT, AUTH, a write in flight and a retry
\* drops it (a newer session may take its place).
RevocationNotLost ==
  \A b \in Bots :
    records[b].revoked =>
      \/ AtLeast(pending[b], records[b]) \/ AtLeast(Stored, records[b])
      \/ flow[b].pc = "undo" /\ AtLeast(flow[b].session, records[b])

\* README.md: "authorization and revocation converge across restarts".  Once faults
\* cease, every bot authorizes the identity exactly if the stored record does.
EventuallyAgree ==
  <>[](\A b \in Bots : Active(records[b]) <=> Active(Stored))

\* safety.md: "Require new authentication after NICK, CHGHOST, or any identity change".
\* If every bot stays on IRC and none restarts, nobody but the identity's present holder
\* stays authorized.
EventuallyCurrent ==
  <>[](missed = "no" =>
         \A b \in Bots : Active(records[b]) => grants[records[b].exp] = life)

-----------------------------------------------------------------------------
(* Why the safety properties hold: an inductive invariant, in parts *)

\* A command is served from its arrival to its end, a put belongs to the command that
\* syncs or to a retry, and what is written is a session or a revocation.
CommandsServed ==
  \A b \in Bots :
    /\ flow[b].pc = "none" <=> commands[b] = <<>>
    /\ flow[b].pc = "sync" => flow[b].session \in Sessions /\ ~flow[b].session.revoked
    /\ flow[b].pc = "undo" => flow[b].session \in Sessions /\ flow[b].session.revoked
    /\ io[b].pc = "idle" <=> io[b] = NoPut
    /\ io[b].by = "flow" => flow[b].pc \in {"sync", "undo"}
    /\ io[b].pc # "idle" => io[b].session \in Sessions /\ io[b].by \in {"flow", "retry"}
    /\ io[b].pc = "reply" => io[b].stored \in Sessions
    /\ late[b].pc \in {"idle", "create", "update"}
    /\ late[b].pc # "idle" => late[b].session \in Sessions

\* A write that may still be accepted outranks the record it replaces.
Replaces(put) ==
  put.pc = "update" => put.rev \in DOMAIN log /\ Outranks(put.session, log[put.rev])

\* Records only rise: in the bucket, on their way to it and in the answers to a put; what is
\* queued outranks what is being sent, and that what the command wants.
RecordsRise ==
  /\ \A i \in DOMAIN log : AtLeast(Stored, log[i])
  /\ \A b \in Bots :
       /\ Replaces(io[b]) /\ Replaces(late[b])
       /\ io[b].pc # "idle" => AtLeast(pending[b], io[b].session)
       /\ io[b].pc = "reply" =>
            AtLeast(Stored, io[b].stored) /\ AtLeast(io[b].stored, io[b].session)
       /\ io[b].by = "flow" => AtLeast(io[b].session, flow[b].session)

\* A session is granted once, by one bot, and that bot's cache never falls below it.
GrantsOwned ==
  /\ \A b, c \in Bots : b # c => mine[b] \intersect mine[c] = {}
  /\ \A e \in doomed \union UNION {mine[b] : b \in Bots} : grants[e] # 0
  /\ \A b \in Bots :
       /\ \A e \in mine[b] : AtLeast(records[b], Session(e, 0, FALSE))
       /\ flow[b].pc = "sync" => flow[b].session.exp \in mine[b]

\* While an identity is not invalidated, its commands come from the holder the bot knows,
\* and the grant in flight is not doomed.
InvalidationSeen ==
  \A b \in Bots : b \notin invalid =>
    /\ \A i \in DOMAIN commands[b] : commands[b][i] = seen[b]
    /\ flow[b].pc = "sync" => flow[b].session.exp \notin doomed

SyncInv ==
  /\ TypeOK /\ CommandsServed /\ RecordsRise /\ GrantsOwned /\ InvalidationSeen
  /\ RevocationNotLost /\ DoomedGrantNeverHolds

=============================================================================
