---------------------------- MODULE PresenceClaim ----------------------------
(***************************************************************************)
(* The presence key of ONE bot ID and the processes that compete for it:   *)
(* nats/claim.py (PresenceClaim), PresenceStore of nats/store.py, and the   *)
(* part of nats/coordinator.py that feeds the claim (watch_presence,        *)
(* observe_presence, on_disconnected, close).                               *)
(*                                                                         *)
(* Every process draws a fresh instance ID, so a restart is another member  *)
(* of Instances.  The JetStream KV bucket keeps one record per key; the     *)
(* sequence `log' holds every record ever written under the key, the index *)
(* of a record is its revision, and only the last one can still be live.    *)
(*                                                                         *)
(* Each await of a KV call is three steps: the request (which takes         *)
(* asyncio.Lock `lock' and snapshots `generation'), its service by the      *)
(* bucket, and the reply.  `generation' itself is only ever compared for    *)
(* equality with a snapshot, so op[p].fresh says whether it is unchanged.   *)
(***************************************************************************)
EXTENDS Naturals, Sequences, FiniteSets

CONSTANTS
  Instances,    \* instance IDs of processes configured with this bot ID
  Forged,       \* a record that PresenceStore.valid rejects
  Deleted,      \* the KV delete marker
  MaxFaults,    \* bound on expiries, clobbers, lost replies and disconnects
  MaxRefresh,   \* bound on heartbeats that would merely refresh a live record
  Lingering     \* whether a request may be served after its caller gave up

ASSUME InstancesAssumption == Forged \notin Instances /\ Deleted \notin Instances
ASSUME RecordsAssumption == Forged # Deleted
ASSUME BoundsAssumption == MaxFaults \in Nat /\ MaxRefresh \in Nat /\ Lingering \in BOOLEAN

VARIABLES
  log,        \* records written under the key; the index is the KV revision
  held,       \* the revision the bucket still holds, 0 if the TTL removed it
  proc,       \* process and NATS connection phase of each instance
  state,      \* PresenceClaim.state
  revision,   \* PresenceClaim.revision, 0 for None
  op,         \* what the holder of PresenceClaim.lock awaits, Idle if free
  late,       \* a request whose caller gave up but that may still be served
  watch,      \* the presence watch task
  faults, refreshes   \* counters for the two bounds

vars == <<log, held, proc, state, revision, op, late, watch, faults, refreshes>>

-----------------------------------------------------------------------------
(* Types *)

States == {"UNCLAIMED", "OWNED", "DUPLICATE"}
Records == Instances \union {Forged, Deleted}
Writes == {"create", "recreate", "update", "overwrite", "delete"}
Ops == [pc : Writes \union {"idle", "get"}, by : {"nobody", "beat", "watch", "close"},
        last : Nat, done : BOOLEAN, result : Nat, fresh : BOOLEAN, round : 0..2]
Watches == [phase : {"off", "replay", "marker", "live"},
            wants : {"nothing", "reclaim", "expired"}, pos : Nat]

\* A call just made: the bucket has not served it, the generation has not moved.
Request(pc, by, last, round) ==
  [pc |-> pc, by |-> by, last |-> last, done |-> FALSE,
   result |-> 0, fresh |-> TRUE, round |-> round]

Idle == Request("idle", "nobody", 0, 0)
NoRequest == [pc |-> "none", last |-> 0]
Off == [phase |-> "off", wants |-> "nothing", pos |-> 0]

\* The claim, its pending call, the watch and the bucket stay in their domains; the bucket
\* holds the newest record of the key or none.
TypeOK ==
  /\ log \in Seq(Records)
  /\ held \in {0, Len(log)}
  /\ proc \in [Instances -> {"new", "up", "dropped", "down", "closing", "stopped"}]
  /\ state \in [Instances -> States]
  /\ revision \in [Instances -> Nat]
  /\ op \in [Instances -> Ops]
  /\ late \in [Instances -> [pc : Writes \union {"none"}, last : Nat]]
  /\ watch \in [Instances -> Watches]
  /\ faults \in 0..MaxFaults
  /\ refreshes \in 0..MaxRefresh

Init ==
  /\ log = <<>>
  /\ held = 0
  /\ proc = [p \in Instances |-> "new"]
  /\ state = [p \in Instances |-> "UNCLAIMED"]
  /\ revision = [p \in Instances |-> 0]
  /\ op = [p \in Instances |-> Idle]
  /\ late = [p \in Instances |-> NoRequest]
  /\ watch = [p \in Instances |-> Off]
  /\ faults = 0
  /\ refreshes = 0

Fault == faults < MaxFaults /\ faults' = faults + 1

-----------------------------------------------------------------------------
(* The KV bucket (external: history 1, TTL, compare-and-set on the revision) *)

Last == log[Len(log)]
Live == held # 0 /\ Last # Deleted
Current == IF Live THEN Len(log) ELSE 0

\* kv.create wants an absent or deleted key, the others the revision they name.
Accepts(request) ==
  IF request.pc \in {"create", "recreate"} THEN ~Live
                                            ELSE Live /\ Len(log) = request.last

\* A served write by p appends its signed record, or the marker of a delete.
Write(p, request) ==
  /\ log' = Append(log, IF request.pc = "delete" THEN Deleted ELSE p)
  /\ held' = Len(log) + 1

Served(o, result) == [o EXCEPT !.done = TRUE, !.result = result]

Serve(p) ==
  /\ op[p].pc # "idle" /\ ~op[p].done
  /\ IF op[p].pc = "get"
       THEN /\ op' = [op EXCEPT ![p] = Served(op[p], Current)]
            /\ UNCHANGED <<log, held>>
       ELSE IF Accepts(op[p])
         THEN /\ op' = [op EXCEPT ![p] = Served(op[p], Len(log) + 1)]
              /\ Write(p, op[p])
         ELSE /\ op' = [op EXCEPT ![p] = Served(op[p], 0)]
              /\ UNCHANGED <<log, held>>
  /\ UNCHANGED <<proc, state, revision, late, watch, faults, refreshes>>

\* A request whose caller timed out, disconnected or died is served after all.
ServeLate(p) ==
  /\ late[p].pc # "none"
  /\ late' = [late EXCEPT ![p] = NoRequest]
  /\ IF Accepts(late[p]) THEN Write(p, late[p]) ELSE UNCHANGED <<log, held>>
  /\ UNCHANGED <<proc, state, revision, op, watch, faults, refreshes>>

\* The TTL (longer than the maintenance interval, config.py) exceeds what a KV request
\* may take: no record ages out while the reply to a write served earlier is pending.
TTLElapsed ==
  \A p \in Instances : op[p].pc \in Writes /\ op[p].done => op[p].result = 0

\* The TTL drops the record silently: JetStream sends watchers no event.
Expire ==
  /\ Live /\ TTLElapsed /\ Fault
  /\ held' = 0
  /\ UNCHANGED <<log, proc, state, revision, op, late, watch, refreshes>>

\* The same for a record nobody refreshes any more: bound to happen, so unbounded.
ExpireAbandoned ==
  /\ Live /\ TTLElapsed
  /\ Last \in Instances /\ proc[Last] = "stopped"
  /\ held' = 0
  /\ UNCHANGED <<log, proc, state, revision, op, late, watch, faults, refreshes>>

\* A party without the coordination secret writes an invalid record.
Clobber ==
  /\ Fault
  /\ log' = Append(log, Forged)
  /\ held' = Len(log) + 1
  /\ UNCHANGED <<proc, state, revision, op, late, watch, refreshes>>

-----------------------------------------------------------------------------
(* PresenceClaim: state changes *)

Owned(p) == state[p] = "OWNED"

\* A bumped generation makes the result the lock holder awaits stale.
Invalidate(o) == IF o.pc = "idle" THEN o ELSE [o EXCEPT !.fresh = FALSE]

\* transition(): only a real change of state bumps the generation.
Transition(p, s, rev, o) ==
  /\ state' = [state EXCEPT ![p] = s]
  /\ revision' = [revision EXCEPT ![p] = rev]
  /\ op' = [op EXCEPT ![p] = IF s = state[p] THEN o ELSE Invalidate(o)]

Adopt(p, rev, o) == Transition(p, "OWNED", rev, o)
YieldKey(p, o) == Transition(p, "DUPLICATE", 0, o)

\* reset(): always bumps the generation; a duplicate stays one.
Reset(p, o) ==
  /\ state' = [state EXCEPT ![p] = IF Owned(p) THEN "UNCLAIMED" ELSE @]
  /\ revision' = [revision EXCEPT ![p] = 0]
  /\ op' = [op EXCEPT ![p] = Invalidate(o)]

\* claim() begins: a new generation snapshot and kv.create.
ClaimRequest(by) == Request("create", by, 0, 0)

\* The KV call of p's lock holder goes on to another one within the same claim.
Continue(p, pc, last, round) ==
  [Request(pc, op[p].by, last, round) EXCEPT !.fresh = op[p].fresh]

\* The lock is released; a watch task that held it resumes.
WatchResumes(p) ==
  watch' = IF op[p].by = "watch" THEN [watch EXCEPT ![p].wants = "nothing"] ELSE watch

Awaits(p, pc) == op[p].pc = pc /\ op[p].done /\ op[p].by # "close"
Connected(p) == proc[p] \in {"up", "dropped"}
Running(p) == proc[p] \in {"up", "dropped", "down"}

\* The holder raises or is cancelled: an unserved write may be lost or linger.
Abandon(p) ==
  \/ UNCHANGED late
  \/ /\ Lingering /\ op[p].pc \in Writes /\ ~op[p].done
     /\ late' = [late EXCEPT ![p] = [pc |-> op[p].pc, last |-> op[p].last]]

-----------------------------------------------------------------------------
(* PresenceClaim.put, the heartbeat *)

\* Mutant: only an owner's heartbeat writes.
MayPutIfOwned(p) == Connected(p) /\ op[p].pc = "idle" /\ Owned(p)

MayPut(p) == Connected(p) /\ op[p].pc = "idle"

\* A heartbeat refreshes the owned revision or claims the key.
StartPut(p) ==
  /\ MayPut(p)
  /\ IF Owned(p)
       THEN /\ op' = [op EXCEPT ![p] = Request("update", "beat", revision[p], 0)]
            /\ IF Current = revision[p]
                 THEN refreshes < MaxRefresh /\ refreshes' = refreshes + 1
                 ELSE UNCHANGED refreshes
       ELSE /\ op' = [op EXCEPT ![p] = ClaimRequest("beat")]
            /\ UNCHANGED refreshes
  /\ UNCHANGED <<log, held, proc, state, revision, late, watch, faults>>

\* put(): the reply to store.update; a lost revision falls back to claim().
ReplyUpdate(p) ==
  /\ Awaits(p, "update")
  /\ IF ~op[p].fresh
       THEN op' = [op EXCEPT ![p] = Idle] /\ UNCHANGED <<state, revision>>
       ELSE IF op[p].result # 0
         THEN /\ revision' = [revision EXCEPT ![p] = op[p].result]
              /\ op' = [op EXCEPT ![p] = Idle]
              /\ UNCHANGED state
         ELSE /\ state' = [state EXCEPT ![p] = "UNCLAIMED"]
              /\ revision' = [revision EXCEPT ![p] = 0]
              /\ op' = [op EXCEPT ![p] = ClaimRequest("beat")]
  /\ UNCHANGED <<log, held, proc, late, watch, faults, refreshes>>

-----------------------------------------------------------------------------
(* PresenceClaim.claim with PresenceStore.create and reclaim *)

\* claim() has its verdict: a revision this instance holds, or 0 for a live peer.
Finish(p, rev) ==
  /\ IF ~op[p].fresh
       THEN op' = [op EXCEPT ![p] = Idle] /\ UNCHANGED <<state, revision>>
       ELSE IF rev = 0 THEN YieldKey(p, Idle)
                       ELSE Adopt(p, rev, Idle)
  /\ WatchResumes(p)

\* The claim raises after losing both rounds; the state is left as it is.
Exhausted(p) ==
  /\ op' = [op EXCEPT ![p] = Idle]
  /\ WatchResumes(p)
  /\ UNCHANGED <<state, revision>>

ReplyCreate(p) ==
  /\ Awaits(p, "create")
  /\ IF op[p].result # 0
       THEN Finish(p, op[p].result)
       ELSE /\ op' = [op EXCEPT ![p] = Continue(p, "get", 0, 1)]
            /\ UNCHANGED <<state, revision, watch>>
  /\ UNCHANGED <<log, held, proc, late, faults, refreshes>>

\* Mutants: a healthy peer's signature is rejected; the instance ID is not compared.
ValidRejectsAll(record) == FALSE
VerdictIgnoresInstance(p, rev) == rev

\* valid(): signed with the coordination secret; a live record is always fresh.
Valid(record) == record \in Instances

\* A valid record is this process's own, at that revision, or a peer's: a duplicate.
Verdict(p, rev) == IF log[rev] = p THEN rev ELSE 0

\* reclaim(): what the single read shows decides between the three outcomes.
ReplyGet(p) ==
  /\ Awaits(p, "get")
  /\ LET rev == op[p].result IN
       \/ /\ rev = 0
          /\ op' = [op EXCEPT ![p] = Continue(p, "recreate", 0, op[p].round)]
          /\ UNCHANGED <<state, revision, watch>>
       \/ rev # 0 /\ Valid(log[rev]) /\ Finish(p, Verdict(p, rev))
       \/ /\ rev # 0 /\ ~Valid(log[rev])
          /\ op' = [op EXCEPT ![p] = Continue(p, "overwrite", rev, op[p].round)]
          /\ UNCHANGED <<state, revision, watch>>
  /\ UNCHANGED <<log, held, proc, late, faults, refreshes>>

\* A lost race re-reads the key, once; then the claim raises.
ReplyRace(p) ==
  /\ Awaits(p, "recreate") \/ Awaits(p, "overwrite")
  /\ \/ op[p].result # 0 /\ Finish(p, op[p].result)
     \/ /\ op[p].result = 0 /\ op[p].round = 1
        /\ op' = [op EXCEPT ![p] = Continue(p, "get", 0, 2)]
        /\ UNCHANGED <<state, revision, watch>>
     \/ op[p].result = 0 /\ op[p].round = 2 /\ Exhausted(p)
  /\ UNCHANGED <<log, held, proc, late, faults, refreshes>>

\* A KV call times out or fails, before or after it was served.
Fail(p) ==
  /\ op[p].pc # "idle" /\ op[p].by # "close" /\ Fault
  /\ Abandon(p)
  /\ Exhausted(p)
  /\ UNCHANGED <<log, held, proc, refreshes>>

-----------------------------------------------------------------------------
(* The presence watch *)

\* Mutant: the replay position does not consider an empty bucket.
ReplayPhaseAlways == "replay"

\* watchall: the last record is replayed if the bucket still holds it.
ReplayPhase == IF held = 0 THEN "marker" ELSE "replay"

StartWatch(p) ==
  /\ proc[p] = "up" /\ watch[p].phase = "off"
  /\ watch' = [watch EXCEPT ![p] =
       [phase |-> ReplayPhase, wants |-> "nothing",
        pos |-> IF ReplayPhase = "replay" THEN Len(log) - 1 ELSE Len(log)]]
  /\ UNCHANGED <<log, held, proc, state, revision, op, late, faults, refreshes>>

\* A replayed conflict suppresses the reclaim the marker would start.
AfterEntry(p, conflict) ==
  IF watch[p].phase = "live" \/ conflict THEN "live" ELSE "marker"

Received(p, conflict, wants) ==
  watch' = [watch EXCEPT ![p] = [phase |-> AfterEntry(p, conflict), wants |-> wants,
                                 pos |-> watch[p].pos + 1]]

\* Mutant: the revision of the entry is taken as it comes.
NewestIsLast(p, rev) == rev

\* max(self.revision or 0, revision)
Newest(p, rev) == IF revision[p] > rev THEN revision[p] ELSE rev

Observe(p, rev) ==
  IF log[rev] = p THEN Adopt(p, Newest(p, rev), op[p]) ELSE YieldKey(p, op[p])

\* The next entry.  One that is no longer the live record may have aged out of
\* PresenceStore.valid, or out of the bucket before it was sent: it has no effect.
Deliver(p) ==
  LET rev == watch[p].pos + 1 IN
  /\ watch[p].phase \in {"replay", "live"} /\ watch[p].wants = "nothing"
  /\ rev <= Len(log)
  /\ \/ /\ log[rev] \in Instances
        /\ Observe(p, rev)
        /\ Received(p, log[rev] # p, "nothing")
     \/ /\ log[rev] = Deleted
        /\ Received(p, FALSE, "expired")
        /\ UNCHANGED <<state, revision, op>>
     \/ /\ log[rev] = Forged \/ rev < Len(log) \/ held = 0
        /\ Received(p, FALSE, "nothing")
        /\ UNCHANGED <<state, revision, op>>
  /\ UNCHANGED <<log, held, proc, late, faults, refreshes>>

\* The replay ends without a conflict: reclaim before the watch counts as synced.
ReplayEnds(p) ==
  /\ watch[p].phase = "marker" /\ watch[p].wants = "nothing"
  /\ watch' = [watch EXCEPT ![p].phase = "live", ![p].wants = "reclaim"]
  /\ UNCHANGED <<log, held, proc, state, revision, op, late, faults, refreshes>>

\* PresenceClaim.reclaim gets the lock.
StartReclaim(p) ==
  /\ watch[p].wants = "reclaim" /\ op[p].pc = "idle"
  /\ IF Owned(p)
       THEN /\ watch' = [watch EXCEPT ![p].wants = "nothing"]
            /\ UNCHANGED op
       ELSE /\ op' = [op EXCEPT ![p] = ClaimRequest("watch")]
            /\ UNCHANGED watch
  /\ UNCHANGED <<log, held, proc, state, revision, late, faults, refreshes>>

\* PresenceClaim.expired gets the lock: ownership ends before the claim starts.
StartExpired(p) ==
  /\ watch[p].wants = "expired" /\ op[p].pc = "idle"
  /\ state' = [state EXCEPT ![p] = IF Owned(p) THEN "UNCLAIMED" ELSE @]
  /\ revision' = [revision EXCEPT ![p] = 0]
  /\ op' = [op EXCEPT ![p] = ClaimRequest("watch")]
  /\ UNCHANGED <<log, held, proc, late, watch, faults, refreshes>>

\* The watch iterator breaks; run_watch starts it again.
WatchFails(p) ==
  /\ watch[p].phase # "off" /\ watch[p].wants = "nothing" /\ Fault
  /\ watch' = [watch EXCEPT ![p] = Off]
  /\ UNCHANGED <<log, held, proc, state, revision, op, late, refreshes>>

-----------------------------------------------------------------------------
(* Process and connection *)

Start(p) ==
  /\ proc[p] = "new"
  /\ proc' = [proc EXCEPT ![p] = "up"]
  /\ UNCHANGED <<log, held, state, revision, op, late, watch, faults, refreshes>>

\* The connection drops; on_disconnected first cancels the watch tasks.
Disconnect(p) ==
  /\ proc[p] = "up" /\ Fault
  /\ proc' = [proc EXCEPT ![p] = "dropped"]
  /\ watch' = [watch EXCEPT ![p] = Off]
  /\ IF op[p].by = "watch"
       THEN Abandon(p) /\ op' = [op EXCEPT ![p] = Idle]
       ELSE UNCHANGED <<op, late>>
  /\ UNCHANGED <<log, held, state, revision, refreshes>>

\* on_disconnected then resets the claim and the stores.
OnDisconnected(p) ==
  /\ proc[p] = "dropped"
  /\ proc' = [proc EXCEPT ![p] = "down"]
  /\ Reset(p, op[p])
  /\ UNCHANGED <<log, held, late, watch, faults, refreshes>>

\* resync() has reopened the stores.
Reconnect(p) ==
  /\ proc[p] = "down"
  /\ proc' = [proc EXCEPT ![p] = "up"]
  /\ UNCHANGED <<log, held, state, revision, op, late, watch, faults, refreshes>>

\* Bot.close cancels every task, then release() deletes an owned record; with the
\* stores already reset there is no handle to delete it with.
Close(p) ==
  /\ Running(p)
  /\ Abandon(p)
  /\ watch' = [watch EXCEPT ![p] = Off]
  /\ IF Owned(p) /\ Connected(p)
       THEN /\ op' = [op EXCEPT ![p] = Request("delete", "close", revision[p], 0)]
            /\ proc' = [proc EXCEPT ![p] = "closing"]
            /\ UNCHANGED <<state, revision>>
       ELSE /\ Reset(p, Idle)
            /\ proc' = [proc EXCEPT ![p] = "stopped"]
  /\ UNCHANGED <<log, held, faults, refreshes>>

\* release() resets whether the delete succeeded, failed or timed out.
ReleaseDone(p) ==
  /\ op[p].by = "close"
  /\ IF op[p].done THEN UNCHANGED late ELSE Abandon(p)
  /\ Reset(p, Idle)
  /\ proc' = [proc EXCEPT ![p] = "stopped"]
  /\ UNCHANGED <<log, held, watch, faults, refreshes>>

Crash(p) ==
  /\ Running(p)
  /\ proc' = [proc EXCEPT ![p] = "stopped"]
  /\ Abandon(p)
  /\ Reset(p, Idle)
  /\ watch' = [watch EXCEPT ![p] = Off]
  /\ UNCHANGED <<log, held, faults, refreshes>>

-----------------------------------------------------------------------------

ClaimStep(p) ==
  \/ ReplyUpdate(p) \/ ReplyCreate(p) \/ ReplyGet(p) \/ ReplyRace(p) \/ ReleaseDone(p)

WatchStep(p) == StartWatch(p) \/ Deliver(p) \/ ReplayEnds(p)

ConnectionStep(p) == OnDisconnected(p) \/ Reconnect(p)

Next ==
  \/ Expire \/ ExpireAbandoned \/ Clobber
  \/ \E p \in Instances :
       \/ Serve(p) \/ ServeLate(p) \/ StartPut(p) \/ ClaimStep(p) \/ Fail(p)
       \/ WatchStep(p) \/ StartReclaim(p) \/ StartExpired(p) \/ WatchFails(p)
       \/ Start(p) \/ Disconnect(p) \/ ConnectionStep(p) \/ Close(p) \/ Crash(p)

Spec == Init /\ [][Next]_vars

\* Replies and watch entries are processed, reconnects succeed, the heartbeat keeps
\* beating, an abandoned record ages out, and asyncio.Lock is first come first served.
Fairness ==
  /\ WF_vars(ExpireAbandoned)
  /\ \A p \in Instances :
       /\ WF_vars(Serve(p) \/ ClaimStep(p)) /\ WF_vars(StartPut(p))
       /\ WF_vars(WatchStep(p) \/ ConnectionStep(p))
       /\ SF_vars(StartReclaim(p) \/ StartExpired(p))

FairSpec == Spec /\ Fairness

-----------------------------------------------------------------------------
(* Properties *)

Mine(p, rev) == rev \in 1..Len(log) /\ log[rev] = p

\* PresenceClaim.revision always names a record this very process wrote: refresh
\* and release are compare-and-set on it, so a foreign revision would let put() or
\* release() replace or delete a peer's record.
OwnRevision == \A p \in Instances : Owned(p) => Mine(p, revision[p])

\* Why: what a request or a reply names is this process's own record, or for an
\* overwrite an invalid one, however long it stays in flight.
RequestSound(p, request) ==
  /\ request.pc \in {"update", "delete"} => Mine(p, request.last)
  /\ request.pc = "overwrite" =>
       request.last \in 1..Len(log) /\ log[request.last] \notin Instances

ResultSound(p) ==
  op[p].done /\ op[p].result # 0 =>
    /\ op[p].result \in 1..Len(log)
    /\ op[p].pc \in Writes \ {"delete"} => log[op[p].result] = p

IInv ==
  /\ TypeOK
  /\ OwnRevision
  /\ \A p \in Instances :
       /\ revision[p] # 0 => Mine(p, revision[p])
       /\ RequestSound(p, op[p]) /\ RequestSound(p, late[p]) /\ ResultSound(p)

DeletePending(q) == op[q].pc = "delete" \/ late[q].pc = "delete"

\* The live record of an instance is replaced only by its own refresh, by the
\* delete it asked for itself, or by a party outside the protocol: no interleaving
\* of claims, late requests, expiries and restarts lets one process evict another.
NeverEvictsPeer ==
  [][Live /\ Last \in Instances /\ log' # log =>
       \/ Last' \in {Last, Forged}
       \/ Last' = Deleted /\ DeletePending(Last)]_vars

\* While a process stays owner, the revision it would refresh never goes back, whatever
\* order replies and (possibly old) watch entries arrive in; except over a deletion of the
\* key, after which a create the process gave up on may land before the reply it awaits.
RevisionNeverRegresses ==
  [][\A p \in Instances : Owned(p) /\ Owned(p)' =>
       \/ revision'[p] >= revision[p]
       \/ \E rev \in revision'[p] .. revision[p] : log[rev] = Deleted]_vars

\* Why revisions never regress: a fresh claim has no owner, and a served refresh awaiting
\* its reply is followed by no write of its own process, unless the key was deleted between.
ClaimUnowned(p) ==
  op[p].pc \in {"create", "recreate", "get", "overwrite"} /\ op[p].fresh => ~Owned(p)

RefreshServed(p) == op[p].pc = "update" /\ op[p].done /\ op[p].result # 0

NewestButDeleted(p, rev) ==
  \A later \in (rev + 1)..Len(log) :
    log[later] = p => \E gone \in rev..later : log[gone] = Deleted

RefreshStands(p) ==
  RefreshServed(p) =>
    /\ held # 0
    /\ late[p].pc \in {"update", "overwrite", "delete"} => late[p].last < op[p].result
    /\ NewestButDeleted(p, op[p].result)

RevisionInv == IInv /\ \A p \in Instances : ClaimUnowned(p) /\ RefreshStands(p)

Quiet(p) ==
  /\ proc[p] = "up" /\ op[p].pc = "idle"
  /\ watch[p].phase = "live" /\ watch[p].wants = "nothing" /\ watch[p].pos = Len(log)

\* README.md: "duplicates remain unready".  A process that has nothing in flight and has
\* processed every watch entry, the last being a peer's live record, is not the owner.
DuplicateStaysUnready ==
  \A p \in Instances :
    Quiet(p) /\ Live /\ Last \in Instances \ {p} => ~Owned(p)

\* Once faults cease, a bot ID with a running process is owned by exactly one.
EventuallyOneOwner ==
  <>[]((\E p \in Instances : Running(p)) =>
         Cardinality({p \in Instances : Running(p) /\ Owned(p)}) = 1)

=============================================================================
