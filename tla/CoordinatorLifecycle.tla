------------------------- MODULE CoordinatorLifecycle -------------------------
(***************************************************************************)
(* How one bot gets and regains its KV buckets and watches: Coordinator of   *)
(* nats/coordinator.py and KVStore.open of nats/store.py.                     *)
(*                                                                         *)
(* Two tasks may open the buckets and start the watches: `start', once, and  *)
(* `resync', made anew by every reconnect and cancelled by every disconnect. *)
(* A watch task outlives its cancel if stopping the watcher raises a         *)
(* transport error in place of CancelledError.                               *)
(***************************************************************************)
EXTENDS Naturals, Sequences

CONSTANTS
  N,          \* the stores are 1..N, opened in this order
  Watched,    \* the stores that are watched
  MaxDrops,   \* bound on lost connections
  MaxFaults   \* bound on failed JetStream calls and watches

ASSUME StoresAssumption == N \in Nat \ {0} /\ Watched \subseteq 1..N
ASSUME BoundsAssumption == MaxDrops \in Nat /\ MaxFaults \in Nat

VARIABLES
  link,      \* self.nc: none, up, lost (reconnecting) or closed
  calls,     \* callbacks nats-py has yet to run, or to finish, in order
  js, kv,    \* KVStore.js and KVStore.kv; 0 is None
  queue,     \* KVStore.lock: its holder, then those who wait
  creating,  \* the create_key_value of the holder: its JetStream context and epoch
  epoch,     \* history: the resets so far, plus one; kv holds the epoch it was opened in
  pc,        \* where start and resync are, and the closing of the bot
  mine,      \* the store generation, then the watch generation, a task works for
  at,        \* the store a task opens
  storeGen, watchGen,
  watch,     \* where the watch task of each generation and store is
  listed,    \* the generations whose tasks are in watch_tasks
  awaited,   \* the generations whose tasks a cancel_watches waits for
  synced,    \* synced_watches
  drops, faults

vars == <<link, calls, js, kv, queue, creating, epoch, pc, mine, at, storeGen, watchGen,
          watch, listed, awaited, synced, drops, faults>>

buckets == <<js, kv, queue, creating, epoch>>
inits == <<mine, at, storeGen>>
watches == <<watch, listed, awaited, synced, watchGen>>
counts == <<drops, faults>>

Stores == 1..N
Tasks == {"start", "resync"}
Generations == 1 .. MaxDrops + 1

\* Who may hold a store's lock: an opening task, or the store's watch of a generation.
Opener(t) == <<t, 0>>
Watcher(g) == <<"watch", g>>
Lockers == {Opener(t) : t \in Tasks} \union {Watcher(g) : g \in Generations}
NoCreate == <<0, 0>>

Places == {"off", "connect", "init", "open", "sleep", "subscribe", "leaving", "watches", "gather",
           "closed"}
WatchStates ==
  {"none", "loop", "open", "replay", "live", "stop", "cancelled", "sleep", "done"}

TypeOK ==
  /\ link \in {"none", "up", "lost", "closed"}
  /\ calls \in Seq({"disconnected", "resetting", "reconnected"})
  /\ js \in [Stores -> Nat] /\ kv \in [Stores -> Nat]
  /\ queue \in [Stores -> Seq(Lockers)] /\ creating \in [Stores -> Nat \X Nat]
  /\ epoch \in Nat /\ storeGen \in Nat /\ watchGen \in Nat
  /\ pc \in [Tasks \union {"close"} -> Places]
  /\ mine \in [Tasks -> Nat] /\ at \in [Tasks -> Stores]
  /\ watch \in [Generations -> [Watched -> WatchStates]]
  /\ listed \subseteq Generations
  /\ awaited \in [Tasks \union {"callback", "close"} -> SUBSET Generations]
  /\ synced \subseteq Watched
  /\ drops \in 0..MaxDrops /\ faults \in 0..MaxFaults

Init ==
  /\ link = "none" /\ calls = <<>>
  /\ js = [s \in Stores |-> 0] /\ kv = [s \in Stores |-> 0]
  /\ queue = [s \in Stores |-> <<>>] /\ creating = [s \in Stores |-> NoCreate]
  /\ epoch = 1 /\ storeGen = 0 /\ watchGen = 0
  /\ pc = [t \in Tasks \union {"close"} |-> IF t = "start" THEN "connect" ELSE "off"]
  /\ mine = [t \in Tasks |-> 0] /\ at = [t \in Tasks |-> 1]
  /\ watch = [g \in Generations |-> [s \in Watched |-> "none"]]
  /\ listed = {} /\ awaited = [t \in Tasks \union {"callback", "close"} |-> {}]
  /\ synced = {}
  /\ drops = 0 /\ faults = 0

\* At rest: closed before it started, with nothing to come.
Rests ==
  /\ link = "closed" /\ calls = <<>>
  /\ js = [s \in Stores |-> 0] /\ kv = [s \in Stores |-> 0]
  /\ queue = [s \in Stores |-> <<>>] /\ creating = [s \in Stores |-> NoCreate]
  /\ epoch = 2 /\ storeGen = 0 /\ watchGen = 0
  /\ pc = [t \in Tasks \union {"close"} |-> IF t = "close" THEN "closed" ELSE "off"]
  /\ mine = [t \in Tasks |-> 0] /\ at = [t \in Tasks |-> 1]
  /\ watch = [g \in Generations |-> [s \in Watched |-> "none"]]
  /\ listed = {} /\ awaited = [t \in Tasks \union {"callback", "close"} |-> {}]
  /\ synced = {}
  /\ drops = 0 /\ faults = 0

Fault == faults < MaxFaults /\ faults' = faults + 1
Connected == link = "up"

-----------------------------------------------------------------------------
(* Cancelling *)

\* Those of a queue that are not among ids, in their order.
Without(q, ids) ==
  LET rest[i \in 0 .. Len(q)] ==
        IF i = 0 THEN <<>>
        ELSE IF q[i] \in ids THEN rest[i - 1] ELSE Append(rest[i - 1], q[i])
  IN rest[Len(q)]

\* Tasks that are cancelled leave the locks they hold or wait for.
LeaveLocks(ids) ==
  /\ queue' = [s \in Stores |-> Without(queue[s], ids)]
  /\ creating' = [s \in Stores |->
       IF queue[s] # <<>> /\ Head(queue[s]) \in ids THEN NoCreate ELSE creating[s]]

\* A cancelled watch stops its watcher first, if it has one.
Cancelled(state) ==
  CASE state \in {"replay", "live"} -> "cancelled"
    [] state \in {"loop", "open", "stop", "sleep"} -> "done"
    [] OTHER -> state

\* Mutant: the marker of a watch goes whoever discards it.
DiscardedAny(gone, gen) == UNION {gone[g] : g \in Generations}

\* discard_watch_synced: only the current generation's marker.
Discarded(gone, gen) == IF gen \in Generations THEN gone[gen] ELSE {}

\* cancel_watches: watch_tasks is emptied, and whoever called waits for its tasks.
CancelWatches(who) ==
  /\ watch' = [g \in Generations |->
       IF g \in listed THEN [s \in Watched |-> Cancelled(watch[g][s])] ELSE watch[g]]
  /\ listed' = {} /\ awaited' = [awaited EXCEPT ![who] = listed]

\* The marks that go with watches whose cleanup a cancel cuts short.
Interrupted ==
  Discarded([g \in Generations |->
    IF g \in listed THEN {s \in Watched : watch[g][s] = "stop"} ELSE {}], watchGen)

Gathered(who) == \A g \in awaited[who] : \A s \in Watched : watch[g][s] \in {"none", "done"}

-----------------------------------------------------------------------------
(* KVStore *)

\* Mutant: a bucket is kept although the context was replaced while it opened.
StillMineAny(s) == TRUE

\* "JetStream changed while opening a bucket"
StillMine(s) == js[s] = creating[s][1]

\* init_stores is done: start subscribes to help requests, resync starts the watches.
AfterInit(t) == IF t = "start" THEN "subscribe" ELSE "watches"

\* Mutant: one store too many.
OpenedAllPast(t) == at[t] > N

\* The loop over the stores is over.
OpenedAll(t) == at[t] = N

\* open returns to its caller, or raises; the lock passes on.
Leave(s, opened) ==
  LET id == Head(queue[s])
      rest == [queue EXCEPT ![s] = Tail(@)] IN
  /\ creating' = [creating EXCEPT ![s] = NoCreate]
  /\ \/ \E t \in Tasks :
          /\ id = Opener(t)
          /\ IF opened /\ ~OpenedAll(t)
               THEN /\ at' = [at EXCEPT ![t] = @ + 1]
                    /\ queue' = [rest EXCEPT ![at[t] + 1] = Append(@, id)]
                    /\ UNCHANGED pc
               ELSE /\ pc' = [pc EXCEPT ![t] = IF opened THEN AfterInit(t) ELSE "sleep"]
                    /\ queue' = rest /\ UNCHANGED at
          /\ UNCHANGED watch
     \/ \E g \in Generations :
          /\ id = Watcher(g)
          /\ watch' = [watch EXCEPT ![g][s] =
               IF opened THEN "replay" ELSE IF Connected THEN "sleep" ELSE "done"]
          /\ queue' = rest
          /\ UNCHANGED <<pc, at>>

\* The holder of the lock looks for handles; an opening task brings its own context.
Open(s) ==
  /\ queue[s] # <<>> /\ creating[s] = NoCreate
  /\ LET id == Head(queue[s])
         context == IF id \in {Opener(t) : t \in Tasks} THEN mine[id[1]] ELSE js[s]
         kept == context = js[s] /\ kv[s] # 0
     IN
     /\ js' = [js EXCEPT ![s] = context]
     /\ kv' = IF context = js[s] THEN kv ELSE [kv EXCEPT ![s] = 0]
     /\ IF kept \/ context = 0
          THEN Leave(s, kept)
          ELSE /\ creating' = [creating EXCEPT ![s] = <<context, epoch>>]
               /\ UNCHANGED <<queue, pc, at, watch>>
  /\ UNCHANGED <<link, calls, epoch, mine, storeGen, listed, awaited, synced, watchGen, counts>>

Create(s) ==
  /\ creating[s] # NoCreate /\ Connected
  /\ kv' = IF StillMine(s) THEN [kv EXCEPT ![s] = creating[s][2]] ELSE kv
  /\ Leave(s, StillMine(s))
  /\ UNCHANGED <<link, calls, js, epoch, mine, storeGen, listed, awaited, synced, watchGen,
                 counts>>

CreateFails(s) ==
  /\ creating[s] # NoCreate
  /\ Fault \/ (~Connected /\ UNCHANGED faults)
  /\ Leave(s, FALSE)
  /\ UNCHANGED <<link, calls, js, kv, epoch, mine, storeGen, listed, awaited, synced, watchGen,
                 drops>>

-----------------------------------------------------------------------------
(* start, resync and init_stores *)

Connect ==
  /\ pc["start"] = "connect" /\ link = "none"
  /\ link' = "up" /\ pc' = [pc EXCEPT !["start"] = "init"]
  /\ UNCHANGED <<calls, buckets, inits, watches, counts>>

\* The first round of init_stores, for a new generation and JetStream context.
InitStores(t) ==
  /\ pc[t] = "init"
  /\ storeGen' = storeGen + 1 /\ mine' = [mine EXCEPT ![t] = storeGen + 1]
  /\ IF Connected
       THEN /\ pc' = [pc EXCEPT ![t] = "open"] /\ at' = [at EXCEPT ![t] = 1]
            /\ queue' = [queue EXCEPT ![1] = Append(@, Opener(t))]
       ELSE /\ pc' = [pc EXCEPT ![t] = AfterInit(t)]
            /\ UNCHANGED <<at, queue>>
  /\ UNCHANGED <<link, calls, js, kv, creating, epoch, watches, counts>>

\* A later round, after the wait: unless superseded.
RetryStores(t) ==
  /\ pc[t] = "sleep"
  /\ IF Connected /\ storeGen = mine[t]
       THEN /\ pc' = [pc EXCEPT ![t] = "open"] /\ at' = [at EXCEPT ![t] = 1]
            /\ queue' = [queue EXCEPT ![1] = Append(@, Opener(t))]
       ELSE /\ pc' = [pc EXCEPT ![t] = AfterInit(t)]
            /\ UNCHANGED <<at, queue>>
  /\ UNCHANGED <<link, calls, js, kv, creating, epoch, mine, storeGen, watches, counts>>

Subscribe ==
  /\ pc["start"] = "subscribe"
  /\ pc' = [pc EXCEPT !["start"] = "watches"]
  /\ UNCHANGED <<link, calls, buckets, inits, watches, counts>>

\* start closes the connection, which calls on_disconnected, and connects anew.
SubscribeFails ==
  /\ pc["start"] = "subscribe" /\ Fault
  /\ link' = "closed" /\ calls' = Append(calls, "disconnected")
  /\ pc' = [pc EXCEPT !["start"] = "leaving"]
  /\ UNCHANGED <<buckets, inits, watches, drops>>

LeaveConnection ==
  /\ pc["start"] = "leaving" /\ calls = <<>>
  /\ link' = "none" /\ pc' = [pc EXCEPT !["start"] = "connect"]
  /\ UNCHANGED <<calls, buckets, inits, watches, counts>>

-----------------------------------------------------------------------------
(* Watches *)

\* start_watches, up to its wait for the tasks it supersedes.
StartWatches(t) ==
  /\ pc[t] = "watches"
  /\ watchGen' = watchGen + 1 /\ mine' = [mine EXCEPT ![t] = watchGen + 1]
  /\ synced' = {}
  /\ CancelWatches(t) /\ LeaveLocks({Watcher(g) : g \in listed})
  /\ pc' = [pc EXCEPT ![t] = "gather"]
  /\ UNCHANGED <<link, calls, js, kv, epoch, at, storeGen, counts>>

\* ... and after it: a newer start_watches wins.
LaunchWatches(t) ==
  /\ pc[t] = "gather" /\ Gathered(t)
  /\ IF watchGen = mine[t]
       THEN /\ watch' = [watch EXCEPT ![watchGen] = [s \in Watched |-> "loop"]]
            /\ listed' = listed \union {watchGen}
       ELSE UNCHANGED <<watch, listed>>
  /\ awaited' = [awaited EXCEPT ![t] = {}]
  /\ pc' = [pc EXCEPT ![t] = "off"]
  /\ UNCHANGED <<link, calls, buckets, inits, synced, watchGen, counts>>

\* Mutant: a watch of an older generation goes on.
CurrentAny(g) == TRUE

\* The guard of run_watch.
Current(g) == g = watchGen

\* run_watch: another round, or the end.
RunWatch(g, s) ==
  /\ watch[g][s] \in {"loop", "sleep"}
  /\ IF Connected /\ Current(g)
       THEN /\ watch' = [watch EXCEPT ![g][s] = "open"]
            /\ queue' = [queue EXCEPT ![s] = Append(@, Watcher(g))]
       ELSE /\ watch' = [watch EXCEPT ![g][s] = "done"]
            /\ UNCHANGED queue
  /\ UNCHANGED <<link, calls, js, kv, creating, epoch, pc, inits, listed, awaited, synced,
                 watchGen, counts>>

\* The end of the replay: mark_watch_synced.
Replayed(g, s) ==
  /\ watch[g][s] = "replay" /\ Connected
  /\ watch' = [watch EXCEPT ![g][s] = "live"]
  /\ synced' = IF g = watchGen THEN synced \union {s} ELSE synced
  /\ UNCHANGED <<link, calls, buckets, pc, inits, listed, awaited, watchGen, counts>>

\* The watch raises; its watcher is stopped first.
WatchFails(g, s) ==
  /\ watch[g][s] \in {"replay", "live"}
  /\ Fault \/ (~Connected /\ UNCHANGED faults)
  /\ watch' = [watch EXCEPT ![g][s] = "stop"]
  /\ UNCHANGED <<link, calls, buckets, pc, inits, listed, awaited, synced, watchGen, drops>>

\* The watcher is stopped; a cancelled task ends, unless a transport error took the
\* place of its cancellation.
Stopped(g, s) ==
  /\ \/ watch[g][s] = "cancelled" /\ UNCHANGED faults
        /\ watch' = [watch EXCEPT ![g][s] = "done"]
     \/ \/ watch[g][s] = "cancelled" /\ Fault
        \/ watch[g][s] = "stop" /\ UNCHANGED faults
        /\ watch' = [watch EXCEPT ![g][s] = IF Connected THEN "sleep" ELSE "done"]
  /\ synced' = synced \ Discarded([h \in Generations |-> IF h = g THEN {s} ELSE {}], watchGen)
  /\ UNCHANGED <<link, calls, buckets, pc, inits, listed, awaited, watchGen, drops>>

-----------------------------------------------------------------------------
(* The connection (external), its callbacks, and close *)

Drop ==
  /\ link = "up" /\ drops < MaxDrops /\ drops' = drops + 1
  /\ link' = "lost" /\ calls' = Append(calls, "disconnected")
  /\ UNCHANGED <<buckets, pc, inits, watches, faults>>

\* nats-py reconnects once disconnected_cb has returned.
Reconnect ==
  /\ link = "lost" /\ calls = <<>>
  /\ link' = "up" /\ calls' = <<"reconnected">>
  /\ UNCHANGED <<buckets, pc, inits, watches, counts>>

\* on_disconnected, up to its wait for the cancelled tasks.
OnDisconnected ==
  /\ calls # <<>> /\ Head(calls) = "disconnected"
  /\ calls' = <<"resetting">> \o Tail(calls)
  /\ pc' = [pc EXCEPT !["resync"] = "off"]
  /\ synced' = synced \ Interrupted
  /\ CancelWatches("callback")
  /\ LeaveLocks({Opener("resync")} \union {Watcher(g) : g \in listed})
  /\ UNCHANGED <<link, js, kv, epoch, inits, watchGen, counts>>

ResetStores ==
  /\ js' = [s \in Stores |-> 0] /\ kv' = [s \in Stores |-> 0] /\ epoch' = epoch + 1

\* ... and after it; the presence claim is reset too.
OnReset ==
  /\ calls # <<>> /\ Head(calls) = "resetting" /\ Gathered("callback")
  /\ calls' = Tail(calls) /\ awaited' = [awaited EXCEPT !["callback"] = {}]
  /\ ResetStores
  /\ UNCHANGED <<link, queue, creating, pc, inits, watch, listed, synced, watchGen, counts>>

OnReconnected ==
  /\ calls # <<>> /\ Head(calls) = "reconnected"
  /\ calls' = Tail(calls)
  /\ pc' = [pc EXCEPT !["resync"] = "init"]
  /\ LeaveLocks({Opener("resync")})
  /\ UNCHANGED <<link, js, kv, epoch, inits, watches, counts>>

\* Bot.close cancels start; Coordinator.close cancels the rest.
Close ==
  /\ pc["close"] = "off"
  /\ pc' = [start |-> "off", resync |-> "off", close |-> "gather"]
  /\ link' = "closed"
  /\ synced' = synced \ Interrupted
  /\ CancelWatches("close")
  /\ LeaveLocks({Opener(t) : t \in Tasks} \union {Watcher(g) : g \in listed})
  /\ UNCHANGED <<calls, js, kv, epoch, inits, watchGen, counts>>

Closed ==
  /\ pc["close"] = "gather" /\ Gathered("close")
  /\ pc' = [pc EXCEPT !["close"] = "closed"]
  /\ awaited' = [awaited EXCEPT !["close"] = {}]
  /\ ResetStores
  /\ UNCHANGED <<link, calls, queue, creating, inits, watch, listed, synced, watchGen, counts>>

-----------------------------------------------------------------------------

InitStep(t) == InitStores(t) \/ RetryStores(t) \/ StartWatches(t) \/ LaunchWatches(t)
StartStep == Connect \/ Subscribe \/ LeaveConnection
StoreStep(s) == Open(s) \/ Create(s)
WatchStep(g, s) == RunWatch(g, s) \/ Replayed(g, s) \/ Stopped(g, s)
Callback == OnDisconnected \/ OnReset \/ OnReconnected \/ Reconnect

Next ==
  \/ StartStep \/ SubscribeFails \/ \E t \in Tasks : InitStep(t)
  \/ \E s \in Stores : StoreStep(s) \/ CreateFails(s)
  \/ \E g \in Generations, s \in Watched : WatchStep(g, s) \/ WatchFails(g, s)
  \/ Drop \/ Callback \/ Close \/ Closed

Spec == Init /\ [][Next]_vars

\* Tasks run, JetStream answers in the end, nats-py reconnects and calls back.
Fairness ==
  /\ WF_vars(StartStep) /\ WF_vars(Callback) /\ WF_vars(Closed)
  /\ \A t \in Tasks : WF_vars(InitStep(t))
  /\ \A s \in Stores : WF_vars(StoreStep(s) \/ CreateFails(s))
  /\ \A g \in Generations, s \in Watched : WF_vars(WatchStep(g, s))

FairSpec == Spec /\ Fairness

-----------------------------------------------------------------------------
(* Properties *)

\* Handles never outlive their connection: whatever opens overlapped the disconnect, a
\* bucket in use was opened after the stores were last reset.
HandlesCurrent == \A s \in Stores : kv[s] # 0 => kv[s] = epoch

\* A watch counts as replayed exactly while the newest generation's task is past its
\* marker: superseded tasks that still clean up neither add nor take a mark.
SyncedExactly ==
  watchGen # 0 =>
    \A s \in Watched :
      /\ s \in synced => watch[watchGen][s] \in {"live", "stop", "cancelled"}
      /\ watch[watchGen][s] = "live" => s \in synced

\* No bucket is delivered by two watches at once, also when tasks outlive their cancel.
OneWatcher ==
  \A s \in Watched, g, h \in Generations :
    watch[g][s] \in {"replay", "live"} /\ watch[h][s] \in {"replay", "live"} => g = h

\* The part of `ready' that is the coordinator's own.
Ready == Connected /\ synced = Watched /\ \A s \in Stores : kv[s] # 0

\* Whatever overlapped while connections dropped, the bot is ready again in the end, and
\* needs no further reconnect for it; or it is closed.
EventuallyReady == <>[](Ready \/ pc["close"] = "closed")

-----------------------------------------------------------------------------
(* Why the safety properties hold: an inductive invariant, in parts *)

\* Callbacks come one after another: a disconnect that is pending, or being handled, came
\* after everything but the end of an earlier one, and there is no connection.
CallsInOrder ==
  /\ \A i \in DOMAIN calls : i > 1 => calls[i] = "disconnected"
  /\ (\E i \in DOMAIN calls : calls[i] # "reconnected") => link # "up"
  /\ link = "none" => calls = <<>>
  /\ pc["close"] # "off" => link = "closed" /\ pc["start"] = "off"

\* The start_watches that are still to come; they bound the watch generations.
Due(t) == IF pc[t] \in {"off", "gather"} THEN 0 ELSE 1
ReconnectsDue ==
  (IF link = "lost" THEN 1 ELSE 0)
    + (IF calls # <<>> /\ Head(calls) = "reconnected" THEN 1 ELSE 0)

GenerationsLeft ==
  watchGen + Due("start") + Due("resync") + ReconnectsDue + (MaxDrops - drops) <= MaxDrops + 1

In(q) == {q[i] : i \in DOMAIN q}
OnceEach(q) == \A i, j \in DOMAIN q : q[i] = q[j] => i = j

\* The locks of the stores: a task waits once, for the bucket it opens; a creation has a
\* holder, and either its context is the store's still or the stores were reset since.
LocksHeld ==
  /\ \A s \in Stores : OnceEach(queue[s])
  /\ \A s \in Stores :
       /\ \A t \in Tasks : Opener(t) \in In(queue[s]) => pc[t] = "open" /\ at[t] = s
       /\ \A g \in Generations :
            Watcher(g) \in In(queue[s]) => s \in Watched /\ watch[g][s] = "open"
  /\ \A s \in Stores : creating[s] # NoCreate =>
       /\ queue[s] # <<>> /\ creating[s][1] # 0
       /\ js[s] = 0 \/ (js[s] = creating[s][1] /\ creating[s][2] = epoch)

\* Whoever cancelled the tasks of a generation still waits for them, without a connection.
Retiring(g) ==
  pc["close"] # "off"
    \/ (calls # <<>> /\ Head(calls) = "resetting" /\ g \in awaited["callback"])

\* Only the newest generation is in watch_tasks, and no other one works on: of one that is
\* not there, tasks only clean up.
WatchesListed ==
  /\ listed \subseteq {watchGen}
  /\ \A g \in Generations, s \in Watched :
       /\ g > watchGen => watch[g][s] = "none"
       /\ watch[g][s] \in {"loop", "open", "replay", "live", "stop"} => g \in listed
       /\ g = watchGen /\ g \notin listed /\ watch[g][s] \in {"cancelled", "sleep"} =>
            watch[g][s] = "cancelled" /\ Retiring(g)
  /\ \A t \in Tasks : pc[t] = "gather" =>
       /\ mine[t] \in 1 .. watchGen
       /\ mine[t] = watchGen => \A s \in Watched : watch[watchGen][s] = "none"
       /\ \A u \in Tasks : pc[u] = "gather" /\ mine[u] = mine[t] => u = t

LifecycleInv ==
  /\ TypeOK /\ CallsInOrder /\ GenerationsLeft /\ LocksHeld /\ WatchesListed
  /\ HandlesCurrent /\ SyncedExactly

=============================================================================
