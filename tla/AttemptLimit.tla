---------------------------- MODULE AttemptLimit ----------------------------
(***************************************************************************)
(* The mesh-wide limit on AUTH attempts of one identity: AttemptStore.allow *)
(* of nats/store.py, called by any number of authenticate() tasks on any    *)
(* bots.  Only the KV bucket is shared: one key per attempt slot, holding   *)
(* the clock reading of the attempt that took the slot last.                *)
(*                                                                         *)
(* Time is discrete; every bot reads a clock at most Skew away from the     *)
(* bucket's own.  allow() reads it once, before its first KV call.          *)
(***************************************************************************)
EXTENDS Integers, FiniteSets

CONSTANTS
  Attempts,        \* concurrent calls of allow() for the identity, mesh-wide
  Limit,           \* ATTEMPT_LIMIT
  Window,          \* ATTEMPT_WINDOW
  TTL,             \* ATTEMPT_TTL
  Skew,            \* bound on clock error
  MaxDelay,        \* bound on the age of a call's clock reading when it still runs
  MaxTime,         \* bound on the clock
  MaxLate          \* bound on requests served after their caller gave up

ASSUME LimitAssumption == Limit \in Nat \ {0} /\ Window \in Nat \ {0}
ASSUME TimeAssumption ==
  TTL \in Nat /\ Skew \in Nat /\ MaxDelay \in Nat /\ MaxTime \in Nat /\ MaxLate \in Nat

\* 120 s against a 60 s window: a slot outlives its window by more than a call takes.
ASSUME TTLAssumption == MaxDelay + 2 * Skew <= TTL - Window

VARIABLES
  now,        \* the bucket's time
  stamp,      \* the clock reading stored in each slot
  born,       \* when that value was written, Absent if the slot is empty
  rev,        \* the slot's KV revision
  attempt,    \* the calls of allow()
  late,       \* requests whose call has failed that may still be served
  allowed     \* history: the clock reading and revision of every attempt allowed, by slot

vars == <<now, stamp, born, rev, attempt, late, allowed>>

-----------------------------------------------------------------------------
(* Types *)

Slots == 0 .. Limit - 1
Absent == -1

\* A call: its position in the loop over the slots, its clock reading and when it was
\* made, and the revision it read.
Call(pc, slot, clock, start, seen) ==
  [pc |-> pc, slot |-> slot, clock |-> clock, start |-> start, seen |-> seen]

Calls == [pc : {"idle", "get", "create", "update"}, slot : Slots,
          clock : Int, start : Int, seen : Nat]

Idle == Call("idle", 0, 0, 0, 0)

\* No call of allow() leaves the slots of the limit, and slots hold clock readings.
TypeOK ==
  /\ now \in Nat
  /\ stamp \in [Slots -> Int] /\ born \in [Slots -> Int] /\ rev \in [Slots -> Nat]
  /\ attempt \in [Attempts -> Calls]
  /\ late \subseteq Calls
  /\ allowed \in [Slots -> SUBSET [at : Int, rev : Nat]]

Init ==
  /\ now = 0
  /\ stamp = [s \in Slots |-> 0]
  /\ born = [s \in Slots |-> Absent]
  /\ rev = [s \in Slots |-> 0]
  /\ attempt = [a \in Attempts |-> Idle]
  /\ late = {}
  /\ allowed = [s \in Slots |-> {}]

-----------------------------------------------------------------------------
(* Time, and the bucket (external: create, compare-and-set update, TTL) *)

\* A call whose clock reading is MaxDelay old has failed by now: KV requests time out.
Tick ==
  /\ now < MaxTime
  /\ \A a \in Attempts : attempt[a].pc # "idle" => now < attempt[a].start + MaxDelay
  /\ now' = now + 1
  /\ UNCHANGED <<stamp, born, rev, attempt, late, allowed>>

\* Mutant: the bucket TTL is the window itself.
ShortTTL(s) == now >= born[s] + Window

Aged(s) == now >= born[s] + TTL

ExpireSlot(s) ==
  /\ born[s] # Absent /\ Aged(s)
  /\ born' = [born EXCEPT ![s] = Absent]
  /\ UNCHANGED <<now, stamp, rev, attempt, late, allowed>>

Accepts(call) ==
  IF call.pc = "create" THEN born[call.slot] = Absent
                        ELSE born[call.slot] # Absent /\ rev[call.slot] = call.seen

Write(call) ==
  /\ stamp' = [stamp EXCEPT ![call.slot] = call.clock]
  /\ born' = [born EXCEPT ![call.slot] = now]
  /\ rev' = [rev EXCEPT ![call.slot] = @ + 1]

-----------------------------------------------------------------------------
(* AttemptStore.allow *)

\* The clock is read once, before the first KV call.
Start(a, clock) ==
  /\ attempt[a].pc = "idle" /\ now < MaxTime
  /\ attempt' = [attempt EXCEPT ![a] = Call("get", 0, clock, now, 0)]
  /\ UNCHANGED <<now, stamp, born, rev, late, allowed>>

\* Mutant: the loop runs one slot too far.
AtNextSlotPast(call) ==
  IF call.slot + 1 <= Limit
    THEN Call("get", call.slot + 1, call.clock, call.start, 0)
    ELSE Idle

\* The next slot, or a denial after the last.
AtNextSlot(call) ==
  IF call.slot + 1 < Limit
    THEN Call("get", call.slot + 1, call.clock, call.start, 0)
    ELSE Idle

\* Mutant: the window is off by one.
FreeEarly(s, clock) == stamp[s] <= clock - Window + 1

Free(s, clock) == stamp[s] <= clock - Window

\* kv.get: an empty slot is created, one from before the cutoff is overwritten, any
\* other is left alone.
Get(a) ==
  LET call == attempt[a]  s == attempt[a].slot IN
  /\ call.pc = "get"
  /\ \/ /\ born[s] = Absent
        /\ attempt' = [attempt EXCEPT ![a] =
             Call("create", s, call.clock, call.start, 0)]
     \/ /\ born[s] # Absent /\ Free(s, call.clock)
        /\ attempt' = [attempt EXCEPT ![a] =
             Call("update", s, call.clock, call.start, rev[s])]
     \/ /\ born[s] # Absent /\ ~Free(s, call.clock)
        /\ attempt' = [attempt EXCEPT ![a] = AtNextSlot(call)]
  /\ UNCHANGED <<now, stamp, born, rev, late, allowed>>

\* The slot is taken and the attempt allowed.
Take(a) ==
  LET call == attempt[a] IN
  /\ call.pc \in {"create", "update"} /\ Accepts(call)
  /\ Write(call)
  /\ allowed' = [allowed EXCEPT ![call.slot] =
       @ \union {[at |-> call.clock, rev |-> rev[call.slot] + 1]}]
  /\ attempt' = [attempt EXCEPT ![a] = Idle]
  /\ UNCHANGED <<now, late>>

\* Another call was faster.
LoseRace(a) ==
  /\ attempt[a].pc \in {"create", "update"} /\ ~Accepts(attempt[a])
  /\ attempt' = [attempt EXCEPT ![a] = AtNextSlot(attempt[a])]
  /\ UNCHANGED <<now, stamp, born, rev, late, allowed>>

\* A KV request fails and the attempt is denied; the write it asked for is lost, or may
\* still be served, now or later.
Fail(a) ==
  /\ attempt[a].pc # "idle"
  /\ attempt' = [attempt EXCEPT ![a] = Idle]
  /\ \/ UNCHANGED late
     \/ /\ attempt[a].pc # "get" /\ Cardinality(late) < MaxLate
        /\ late' = late \union {attempt[a]}
  /\ UNCHANGED <<now, stamp, born, rev, allowed>>

ServeLate(call) ==
  /\ late' = late \ {call}
  /\ IF Accepts(call) THEN Write(call) ELSE UNCHANGED <<stamp, born, rev>>
  /\ UNCHANGED <<now, attempt, allowed>>

-----------------------------------------------------------------------------

Clocks == (now - Skew) .. (now + Skew)

Next ==
  \/ Tick
  \/ \E s \in Slots : ExpireSlot(s)
  \/ \E call \in late : ServeLate(call)
  \/ \E a \in Attempts :
       \/ \E clock \in Clocks : Start(a, clock)
       \/ Get(a) \/ Take(a) \/ LoseRace(a) \/ Fail(a)

Spec == Init /\ [][Next]_vars

-----------------------------------------------------------------------------
(* Properties *)

\* Two attempts allowed on the same slot are a whole window apart on the bots' clocks,
\* although a call may use a clock reading from before the slot's last value was even
\* written, and although the bucket forgets the slot.
SlotSpacing ==
  \A s \in Slots : \A x, y \in allowed[s] :
    x # y => x.at - y.at >= Window \/ y.at - x.at >= Window

Within(from) ==
  UNION {{<<s, x>> : x \in {y \in allowed[s] : from <= y.at /\ y.at < from + Window}} :
         s \in Slots}

\* However many bots work on one identity's AUTH commands at once, no stretch of Window
\* on their clocks holds more than Limit allowed attempts.
AttemptBudget ==
  \A s \in Slots : \A x \in allowed[s] : Cardinality(Within(x.at)) <= Limit

\* Why: whatever a slot holds is at least as new as the attempts it allowed, or was
\* written so long after them that their windows are over.
Distant(x, t) == x.at - Skew + TTL <= t

SlotsRemember ==
  \A s \in Slots :
    /\ born[s] # Absent => born[s] <= now /\ stamp[s] <= born[s] + Skew
    /\ \A x \in allowed[s] :
         IF born[s] = Absent THEN Distant(x, now)
                             ELSE x.at <= stamp[s] \/ Distant(x, born[s])

\* An update finds its slot changed, or holding what was read and found free.
UpdateSound(call) ==
  call.pc = "update" =>
    /\ call.seen <= rev[call.slot]
    /\ call.seen = rev[call.slot] /\ born[call.slot] # Absent =>
         Free(call.slot, call.clock)

Timely(call) ==
  /\ call.start <= now /\ now <= call.start + MaxDelay
  /\ call.start - Skew <= call.clock /\ call.clock <= call.start + Skew

CallsSound ==
  \A a \in Attempts :
    attempt[a].pc # "idle" => Timely(attempt[a]) /\ UpdateSound(attempt[a])

LateSound ==
  \A call \in late :
    call.pc \in {"create", "update"} /\ call.clock <= now + Skew /\ UpdateSound(call)

IInv == TypeOK /\ SlotsRemember /\ CallsSound /\ LateSound /\ SlotSpacing

=============================================================================
