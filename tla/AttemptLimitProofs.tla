------------------------- MODULE AttemptLimitProofs -------------------------
(***************************************************************************)
(* AttemptLimit for any number of calls, any limit and window, and every     *)
(* clock skew and delay that TTLAssumption admits.                          *)
(***************************************************************************)
EXTENDS AttemptLimit, FiniteSetTheorems, TLAPS

USE LimitAssumption, TimeAssumption

LEMMA CallTyped ==
  ASSUME NEW pc \in {"idle", "get", "create", "update"}, NEW slot \in Slots,
         NEW clock \in Int, NEW start \in Int, NEW seen \in Nat
  PROVE  Call(pc, slot, clock, start, seen) \in Calls
  BY DEF Call, Calls

LEMMA NextSlotTyped ==
  ASSUME NEW call \in Calls
  PROVE  /\ Idle \in Calls /\ Idle.pc = "idle"
         /\ AtNextSlot(call) \in Calls
         /\ AtNextSlot(call).pc \in {"idle", "get"}
         /\ AtNextSlot(call).pc # "idle" =>
              AtNextSlot(call).clock = call.clock /\ AtNextSlot(call).start = call.start
<1>1. 0 \in Slots
  BY DEF Slots
<1>2. Idle \in Calls /\ Idle.pc = "idle"
  BY <1>1, CallTyped DEF Idle, Call
<1>3. CASE call.slot + 1 < Limit
  <2>1. call.slot + 1 \in Slots
    BY <1>3 DEF Slots, Calls
  <2>2. Call("get", call.slot + 1, call.clock, call.start, 0) \in Calls
    BY <2>1, CallTyped DEF Calls
  <2> QED BY <1>2, <1>3, <2>2 DEF AtNextSlot, Call
<1>4. CASE ~(call.slot + 1 < Limit)
  BY <1>2, <1>4 DEF AtNextSlot
<1> QED BY <1>2, <1>3, <1>4

-----------------------------------------------------------------------------
(* Writing a slot *)

WrittenBy(call) ==
  \A s \in Slots :
    IF s = call.slot
      THEN stamp'[s] = call.clock /\ born'[s] = now /\ rev'[s] = rev[s] + 1
      ELSE stamp'[s] = stamp[s] /\ born'[s] = born[s] /\ rev'[s] = rev[s]

LEMMA WriteTyped ==
  ASSUME TypeOK, NEW call \in Calls, Write(call)
  PROVE  /\ stamp' \in [Slots -> Int] /\ born' \in [Slots -> Int]
         /\ rev' \in [Slots -> Nat]
         /\ WrittenBy(call)
<1>1. call.slot \in Slots /\ call.clock \in Int
  BY DEF Calls
<1>2. now \in Int /\ rev[call.slot] + 1 \in Nat
  BY <1>1 DEF TypeOK
<1> QED BY <1>1, <1>2 DEF Write, WrittenBy, TypeOK

\* The bots' clocks and the bucket's differ by less than the TTL allows for.
LEMMA CutoffPassed ==
  ASSUME NEW call, call.clock \in Int, call.start \in Int, now \in Nat, Timely(call),
         NEW x, x.at \in Int, Distant(x, now)
  PROVE  call.clock - x.at >= Window
  BY TTLAssumption DEF Timely, Distant

\* What a served write follows: every attempt the slot allowed is a window older than
\* the call's clock, or so much older than now that its window is over.
LEMMA WriteFollows ==
  ASSUME IInv, NEW call \in Calls, call.pc \in {"create", "update"},
         Accepts(call), UpdateSound(call), NEW x \in allowed[call.slot]
  PROVE  call.clock - x.at >= Window \/ Distant(x, now)
<1> DEFINE s == call.slot
<1>1. s \in Slots /\ call.clock \in Int /\ now \in Nat
  BY DEF Calls, IInv, TypeOK
<1>2. x.at \in Int /\ stamp[s] \in Int /\ born[s] \in Int /\ rev[s] \in Nat
  BY <1>1 DEF IInv, TypeOK
<1>3. IF born[s] = Absent THEN Distant(x, now)
                          ELSE x.at <= stamp[s] \/ Distant(x, born[s])
  BY <1>1 DEF IInv, SlotsRemember
<1>4. CASE born[s] = Absent
  BY <1>3, <1>4
<1>5. CASE born[s] # Absent
  <2>1. stamp[s] <= call.clock - Window
    BY <1>5 DEF Accepts, UpdateSound, Free
  <2>2. born[s] <= now
    BY <1>1, <1>5 DEF IInv, SlotsRemember
  <2>3. CASE x.at <= stamp[s]
    BY <1>1, <1>2, <2>1, <2>3
  <2>4. CASE Distant(x, born[s])
    BY <1>1, <1>2, <2>2, <2>4 DEF Distant
  <2> QED BY <1>3, <1>5, <2>3, <2>4
<1> QED BY <1>4, <1>5

LEMMA WriteRemembers ==
  ASSUME IInv, NEW call \in Calls, call.pc \in {"create", "update"},
         Accepts(call), UpdateSound(call), call.clock <= now + Skew, Write(call),
         now' = now,
         \A s \in Slots : \A x \in allowed'[s] :
           x \in allowed[s] \/ (s = call.slot /\ x.at = call.clock)
  PROVE  SlotsRemember'
<1>1. WrittenBy(call)
  BY WriteTyped DEF IInv
<1>2. now \in Nat /\ now # Absent /\ call.clock \in Int
  BY DEF IInv, TypeOK, Absent, Calls
<1>3. SUFFICES ASSUME NEW s \in Slots
               PROVE  /\ born'[s] # Absent =>
                           born'[s] <= now /\ stamp'[s] <= born'[s] + Skew
                      /\ \A x \in allowed'[s] :
                           IF born'[s] = Absent
                             THEN Distant(x, now)
                             ELSE x.at <= stamp'[s] \/ Distant(x, born'[s])
  BY DEF SlotsRemember, Distant
<1>4. CASE s = call.slot
  <2>1. stamp'[s] = call.clock /\ born'[s] = now
    BY <1>1, <1>4 DEF WrittenBy
  <2>2. ASSUME NEW x \in allowed[s]
        PROVE  x.at <= call.clock \/ Distant(x, now)
    <3>1. call.clock - x.at >= Window \/ Distant(x, now)
      BY <1>4, WriteFollows
    <3>2. x.at \in Int
      BY DEF IInv, TypeOK
    <3> QED BY <1>2, <3>1, <3>2
  <2>3. \A x \in allowed'[s] : x.at <= call.clock \/ Distant(x, now)
    BY <1>2, <2>2
  <2> QED BY <1>2, <2>1, <2>3
<1>5. CASE s # call.slot
  <2>1. stamp'[s] = stamp[s] /\ born'[s] = born[s]
    BY <1>1, <1>5 DEF WrittenBy
  <2>2. \A x \in allowed'[s] : x \in allowed[s]
    BY <1>5
  <2> QED BY <2>1, <2>2 DEF IInv, SlotsRemember
<1> QED BY <1>4, <1>5

\* Requests under way stay sound when a slot is written: its revision moves on.
LEMMA WriteKeepsSound ==
  ASSUME TypeOK, NEW call \in Calls, Write(call), NEW other \in Calls, UpdateSound(other)
  PROVE  UpdateSound(other)'
<1>1. WrittenBy(call)
  BY WriteTyped
<1>2. other.slot \in Slots /\ rev[other.slot] \in Nat /\ other.seen \in Nat
  BY DEF TypeOK, Calls
<1> QED BY <1>1, <1>2 DEF WrittenBy, UpdateSound, Free

-----------------------------------------------------------------------------
(* The inductive invariant *)

LEMMA InitIInv == Init => IInv
<1> SUFFICES ASSUME Init PROVE IInv
  OBVIOUS
<1>1. 0 \in Slots /\ Idle \in Calls /\ Idle.pc = "idle"
  BY CallTyped DEF Slots, Idle, Call
<1>2. TypeOK
  BY <1>1 DEF Init, TypeOK, Absent
<1>3. \A s \in Slots : born[s] = Absent /\ allowed[s] = {}
  BY DEF Init
<1>4. SlotsRemember /\ SlotSpacing
  BY <1>3 DEF SlotsRemember, SlotSpacing
<1>5. CallsSound /\ LateSound
  BY <1>1 DEF Init, CallsSound, LateSound
<1> QED BY <1>2, <1>4, <1>5 DEF IInv

\* One call moves on, the slots stay as they are.
LEMMA CallMoves ==
  ASSUME IInv, NEW a \in Attempts, NEW call \in Calls,
         call.pc # "idle" => Timely(call) /\ UpdateSound(call),
         attempt' = [attempt EXCEPT ![a] = call],
         UNCHANGED <<now, stamp, born, rev, allowed>>,
         late' = late \/ (late' = late \union {attempt[a]}
                           /\ attempt[a].pc \in {"create", "update"})
  PROVE  IInv'
<1>1. TypeOK'
  BY DEF IInv, TypeOK
<1>2. SlotsRemember' /\ SlotSpacing'
  BY DEF IInv, SlotsRemember, SlotSpacing, Distant
<1>3. \A b \in Attempts : attempt'[b] = IF b = a THEN call ELSE attempt[b]
  BY DEF IInv, TypeOK
<1>4. \A c \in Calls : (Timely(c)' <=> Timely(c)) /\ (UpdateSound(c)' <=> UpdateSound(c))
  BY DEF Timely, UpdateSound, Free
<1>5. CallsSound'
  BY <1>3, <1>4 DEF IInv, TypeOK, CallsSound
<1>6. LateSound'
  <2>1. attempt[a] \in Calls /\ late \in SUBSET Calls
    BY DEF IInv, TypeOK
  <2>2. ASSUME attempt[a].pc \in {"create", "update"}
        PROVE  attempt[a].clock <= now + Skew /\ UpdateSound(attempt[a])
    <3>1. Timely(attempt[a]) /\ UpdateSound(attempt[a])
      BY <2>2 DEF IInv, CallsSound
    <3>2. attempt[a].clock \in Int /\ attempt[a].start \in Int /\ now \in Int
      BY <2>1 DEF Calls, IInv, TypeOK
    <3> QED BY <3>1, <3>2 DEF Timely
  <2>3. \A c \in late' :
          c \in late \/ (c = attempt[a] /\ attempt[a].pc \in {"create", "update"})
    OBVIOUS
  <2>4. \A c \in late' :
          c.pc \in {"create", "update"} /\ c.clock <= now + Skew /\ UpdateSound(c)
    BY <2>2, <2>3 DEF IInv, LateSound
  <2>5. \A c \in late' : c \in Calls
    BY <2>1, <2>3
  <2> QED BY <1>4, <2>4, <2>5 DEF LateSound
<1> QED BY <1>1, <1>2, <1>5, <1>6 DEF IInv

LEMMA TickIInv == IInv /\ Tick => IInv'
<1> SUFFICES ASSUME IInv, Tick PROVE IInv'
  OBVIOUS
<1>1. TypeOK' /\ now \in Nat /\ now' = now + 1
  BY DEF IInv, TypeOK, Tick
<1>2. \A c \in Calls : UpdateSound(c)' <=> UpdateSound(c)
  BY DEF Tick, UpdateSound, Free
<1>3. SlotsRemember'
  <2>1. \A s \in Slots : \A x \in allowed[s] : x.at \in Int /\ born[s] \in Int
    BY DEF IInv, TypeOK
  <2> QED BY <1>1, <2>1 DEF IInv, Tick, SlotsRemember, Distant, TypeOK
<1>4. CallsSound'
  <2>1. ASSUME NEW a \in Attempts, attempt[a].pc # "idle"
        PROVE  Timely(attempt[a])' /\ UpdateSound(attempt[a])'
    <3>1. attempt[a] \in Calls
      BY DEF IInv, TypeOK
    <3>2. Timely(attempt[a]) /\ UpdateSound(attempt[a])
      BY <2>1 DEF IInv, CallsSound
    <3>3. now < attempt[a].start + MaxDelay /\ attempt' = attempt
      BY <2>1 DEF Tick
    <3>4. attempt[a].start \in Int
      BY <3>1 DEF Calls
    <3>5. Timely(attempt[a])'
      BY <1>1, <3>2, <3>3, <3>4 DEF Timely
    <3>6. UpdateSound(attempt[a])'
      BY <3>2 DEF UpdateSound, Free, Tick
    <3> QED BY <3>5, <3>6
  <2> QED BY <2>1 DEF CallsSound, Tick
<1>5. LateSound'
  <2>1. \A c \in late : c \in Calls /\ c.clock \in Int
    BY DEF IInv, TypeOK, Calls
  <2> QED BY <1>1, <1>2, <2>1 DEF IInv, Tick, LateSound
<1>6. SlotSpacing'
  BY DEF IInv, Tick, SlotSpacing
<1> QED BY <1>1, <1>3, <1>4, <1>5, <1>6 DEF IInv

LEMMA ExpireIInv == ASSUME NEW e \in Slots PROVE IInv /\ ExpireSlot(e) => IInv'
<1> SUFFICES ASSUME IInv, ExpireSlot(e) PROVE IInv'
  OBVIOUS
<1>1. \A s \in Slots : born'[s] = IF s = e THEN Absent ELSE born[s]
  BY DEF IInv, TypeOK, ExpireSlot
<1>2. TypeOK'
  BY DEF IInv, TypeOK, ExpireSlot, Absent
<1>3. SlotsRemember'
  <2>1. ASSUME NEW x \in allowed[e] PROVE Distant(x, now)
    <3>1. born[e] <= now /\ stamp[e] <= born[e] + Skew /\ born[e] + TTL <= now
      BY DEF IInv, SlotsRemember, ExpireSlot, Aged
    <3>2. x.at <= stamp[e] \/ Distant(x, born[e])
      BY DEF IInv, SlotsRemember, ExpireSlot
    <3>3. x.at \in Int /\ born[e] \in Int /\ stamp[e] \in Int /\ now \in Int
      BY DEF IInv, TypeOK
    <3> QED BY <3>1, <3>2, <3>3 DEF Distant
  <2>2. UNCHANGED <<now, stamp, allowed>>
    BY DEF ExpireSlot
  <2> QED BY <1>1, <2>1, <2>2 DEF IInv, SlotsRemember, Distant
<1>4. \A c \in Calls : (Timely(c)' <=> Timely(c)) /\ (UpdateSound(c) => UpdateSound(c)')
  <2>1. \A c \in Calls : c.slot \in Slots
    BY DEF Calls
  <2> QED BY <1>1, <2>1 DEF ExpireSlot, Timely, UpdateSound, Free
<1>5. CallsSound' /\ LateSound' /\ SlotSpacing'
  <2>1. (\A a \in Attempts : attempt[a] \in Calls) /\ late \subseteq Calls
    BY DEF IInv, TypeOK
  <2> QED BY <1>4, <2>1 DEF IInv, ExpireSlot, CallsSound, LateSound, SlotSpacing
<1> QED BY <1>2, <1>3, <1>5 DEF IInv

LEMMA StartIInv ==
  ASSUME NEW a \in Attempts, NEW clock \in Clocks
  PROVE  IInv /\ Start(a, clock) => IInv'
<1> SUFFICES ASSUME IInv, Start(a, clock) PROVE IInv'
  OBVIOUS
<1> DEFINE call == Call("get", 0, clock, now, 0)
<1>1. now \in Int /\ clock \in Int /\ now - Skew <= clock /\ clock <= now + Skew
  BY DEF Clocks, IInv, TypeOK
<1>2. call \in Calls
  <2>1. 0 \in Slots
    BY DEF Slots
  <2> QED BY <1>1, <2>1, CallTyped
<1>3. Timely(call) /\ UpdateSound(call)
  BY <1>1 DEF Call, Timely, UpdateSound
<1>4. attempt' = [attempt EXCEPT ![a] = call] /\ late' = late
      /\ UNCHANGED <<now, stamp, born, rev, allowed>>
  BY DEF Start
<1> HIDE DEF call
<1> QED BY <1>2, <1>3, <1>4, CallMoves

\* The call under way, and what it becomes when it leaves its slot.
LEMMA Underway ==
  ASSUME IInv, NEW a \in Attempts, attempt[a].pc # "idle"
  PROVE  /\ attempt[a] \in Calls /\ Timely(attempt[a]) /\ UpdateSound(attempt[a])
         /\ AtNextSlot(attempt[a]) \in Calls
         /\ AtNextSlot(attempt[a]).pc # "idle" =>
              Timely(AtNextSlot(attempt[a])) /\ UpdateSound(AtNextSlot(attempt[a]))
<1>1. attempt[a] \in Calls /\ Timely(attempt[a]) /\ UpdateSound(attempt[a])
  BY DEF IInv, TypeOK, CallsSound
<1> QED BY <1>1, NextSlotTyped DEF Timely, UpdateSound

LEMMA GetIInv == ASSUME NEW a \in Attempts PROVE IInv /\ Get(a) => IInv'
<1> SUFFICES ASSUME IInv, Get(a) PROVE IInv'
  OBVIOUS
<1> DEFINE call == attempt[a]
           created == Call("create", call.slot, call.clock, call.start, 0)
           updated == Call("update", call.slot, call.clock, call.start, rev[call.slot])
<1>1. call.pc = "get" /\ late' = late /\ UNCHANGED <<now, stamp, born, rev, allowed>>
  BY DEF Get
<1>2. call \in Calls /\ Timely(call) /\ rev[call.slot] \in Nat
  BY <1>1, Underway DEF Calls, IInv, TypeOK
<1>3. CASE attempt' = [attempt EXCEPT ![a] = created]
  <2>1. created \in Calls
    BY <1>2, CallTyped DEF Calls
  <2>2. Timely(created) /\ UpdateSound(created)
    BY <1>2 DEF Call, Timely, UpdateSound
  <2> HIDE DEF created
  <2> QED BY <1>1, <1>3, <2>1, <2>2, CallMoves
<1>4. CASE /\ attempt' = [attempt EXCEPT ![a] = updated]
           /\ Free(call.slot, call.clock)
  <2>1. updated \in Calls
    BY <1>2, CallTyped DEF Calls
  <2>2. Timely(updated) /\ UpdateSound(updated)
    BY <1>2, <1>4 DEF Call, Timely, UpdateSound
  <2> HIDE DEF updated
  <2> QED BY <1>1, <1>4, <2>1, <2>2, CallMoves
<1>5. CASE attempt' = [attempt EXCEPT ![a] = AtNextSlot(call)]
  BY <1>1, <1>5, Underway, CallMoves
<1> QED BY <1>3, <1>4, <1>5 DEF Get

LEMMA LoseRaceIInv == ASSUME NEW a \in Attempts PROVE IInv /\ LoseRace(a) => IInv'
<1> SUFFICES ASSUME IInv, LoseRace(a) PROVE IInv'
  OBVIOUS
<1> QED BY Underway, CallMoves DEF LoseRace

LEMMA FailIInv == ASSUME NEW a \in Attempts PROVE IInv /\ Fail(a) => IInv'
<1> SUFFICES ASSUME IInv, Fail(a) PROVE IInv'
  OBVIOUS
<1>1. Idle \in Calls /\ Idle.pc = "idle"
  BY NextSlotTyped, Underway DEF Fail
<1>2. /\ attempt' = [attempt EXCEPT ![a] = Idle]
      /\ UNCHANGED <<now, stamp, born, rev, allowed>>
  BY DEF Fail
<1>3. late' = late \/ (late' = late \union {attempt[a]}
                       /\ attempt[a].pc \in {"create", "update"})
  <2>1. attempt[a].pc \in {"idle", "get", "create", "update"}
    BY DEF IInv, TypeOK, Calls
  <2> QED BY <2>1 DEF Fail
<1> QED BY <1>1, <1>2, <1>3, CallMoves

LEMMA TakeIInv == ASSUME NEW a \in Attempts PROVE IInv /\ Take(a) => IInv'
<1> SUFFICES ASSUME IInv, Take(a) PROVE IInv'
  OBVIOUS
<1> DEFINE call == attempt[a]
           s == call.slot
           taken == [at |-> call.clock, rev |-> rev[s] + 1]
<1>1. /\ call.pc \in {"create", "update"} /\ Accepts(call) /\ Write(call)
      /\ allowed' = [allowed EXCEPT ![s] = @ \union {taken}]
      /\ attempt' = [attempt EXCEPT ![a] = Idle]
      /\ UNCHANGED <<now, late>>
  BY DEF Take
<1>2. call \in Calls /\ Timely(call) /\ UpdateSound(call)
  BY <1>1, Underway
<1>3. s \in Slots /\ call.clock \in Int /\ call.start \in Int /\ now \in Nat
      /\ rev[s] \in Nat
  BY <1>2 DEF Calls, IInv, TypeOK
<1>4. Idle \in Calls /\ Idle.pc = "idle"
  BY <1>2, NextSlotTyped
<1>5. \A r \in Slots : \A x \in allowed'[r] : x \in allowed[r] \/ (r = s /\ x = taken)
  <2> HIDE DEF taken, s
  <2> QED BY <1>1, <1>3 DEF IInv, TypeOK
<1>6. TypeOK'
  <2>1. stamp' \in [Slots -> Int] /\ born' \in [Slots -> Int] /\ rev' \in [Slots -> Nat]
    BY <1>1, <1>2, WriteTyped DEF IInv
  <2>2. taken \in [at : Int, rev : Nat]
    BY <1>3
  <2>3. allowed' \in [Slots -> SUBSET [at : Int, rev : Nat]]
    <3> HIDE DEF taken, s
    <3> QED BY <1>1, <1>3, <2>2 DEF IInv, TypeOK
  <2> QED BY <1>1, <1>4, <2>1, <2>3 DEF IInv, TypeOK
<1>7. SlotsRemember'
  <2>1. call.clock <= now + Skew
    BY <1>2, <1>3 DEF Timely
  <2>2. taken.at = call.clock
    OBVIOUS
  <2>3. \A r \in Slots : \A x \in allowed'[r] :
          x \in allowed[r] \/ (r = call.slot /\ x.at = call.clock)
    BY <1>5, <2>2
  <2> HIDE DEF call
  <2> QED BY <1>1, <1>2, <2>1, <2>3, WriteRemembers
<1>8. CallsSound'
  <2>1. \A b \in Attempts : attempt'[b] = IF b = a THEN Idle ELSE attempt[b]
    BY <1>1 DEF IInv, TypeOK
  <2>2. ASSUME NEW b \in Attempts, attempt'[b].pc # "idle"
        PROVE  Timely(attempt[b])' /\ UpdateSound(attempt[b])'
    <3>1. attempt'[b] = attempt[b]
      BY <1>4, <2>1, <2>2
    <3>2. attempt[b] \in Calls /\ Timely(attempt[b]) /\ UpdateSound(attempt[b])
      BY <2>2, <3>1, Underway
    <3> DEFINE other == attempt[b]
    <3>3. other \in Calls /\ UpdateSound(other)
      BY <3>2
    <3>4. UpdateSound(attempt[b])'
      <4>1. WrittenBy(call)
        BY <1>1, <1>2, WriteTyped DEF IInv
      <4>2. other.slot \in Slots /\ rev[other.slot] \in Nat /\ other.seen \in Nat
        BY <3>2 DEF Calls, IInv, TypeOK
      <4> QED BY <3>1, <3>2, <4>1, <4>2 DEF WrittenBy, UpdateSound, Free
    <3>5. Timely(attempt[b])'
      BY <1>1, <3>1, <3>2 DEF Timely
    <3> QED BY <3>4, <3>5
  <2> QED BY <2>2 DEF CallsSound
<1>9. LateSound'
  <2>1. \A c \in late : /\ c \in Calls /\ c.pc \in {"create", "update"}
                       /\ UpdateSound(c) /\ c.clock <= now + Skew
    BY DEF IInv, TypeOK, LateSound
  <2>2. \A c \in late : UpdateSound(c)'
    BY <1>1, <1>2, <2>1, WriteKeepsSound DEF IInv
  <2> QED BY <1>1, <2>1, <2>2 DEF LateSound
<1>10. SlotSpacing'
  <2>1. ASSUME NEW x \in allowed[s] PROVE taken.at - x.at >= Window
    <3>1. x.at \in Int
      BY <1>3 DEF IInv, TypeOK
    <3>2. call.clock - x.at >= Window \/ Distant(x, now)
      BY <1>1, <1>2, WriteFollows
    <3>3. call.clock - x.at >= Window
      BY <1>2, <1>3, <3>1, <3>2, CutoffPassed
    <3> QED BY <3>3
  <2>2. SUFFICES ASSUME NEW r \in Slots, NEW x \in allowed'[r], NEW y \in allowed'[r], x # y
                 PROVE  x.at - y.at >= Window \/ y.at - x.at >= Window
    BY DEF SlotSpacing
  <2>3. CASE x \in allowed[r] /\ y \in allowed[r]
    BY <2>2, <2>3 DEF IInv, SlotSpacing
  <2>4. CASE r = s /\ (x = taken \/ y = taken)
    <3> HIDE DEF taken, s
    <3> QED BY <1>5, <2>1, <2>2, <2>4
  <2> QED BY <1>5, <2>3, <2>4
<1> QED BY <1>6, <1>7, <1>8, <1>9, <1>10 DEF IInv

LEMMA ServeLateIInv == ASSUME NEW call \in late PROVE IInv /\ ServeLate(call) => IInv'
<1> SUFFICES ASSUME IInv, ServeLate(call) PROVE IInv'
  OBVIOUS
<1>1. /\ call \in Calls /\ call.pc \in {"create", "update"}
      /\ UpdateSound(call) /\ call.clock <= now + Skew
  BY DEF IInv, TypeOK, LateSound
<1>2. UNCHANGED <<now, attempt, allowed>> /\ late' \subseteq late
  BY DEF ServeLate
<1>3. CASE Accepts(call) /\ Write(call)
  <2>1. TypeOK'
    BY <1>1, <1>2, <1>3, WriteTyped DEF IInv, TypeOK
  <2>2. SlotsRemember'
    BY <1>1, <1>2, <1>3, WriteRemembers
  <2>3. \A c \in late : /\ c \in Calls /\ c.pc \in {"create", "update"}
                       /\ UpdateSound(c) /\ c.clock <= now + Skew
    BY DEF IInv, TypeOK, LateSound
  <2>4. \A c \in late : UpdateSound(c)'
    BY <1>1, <1>3, <2>3, WriteKeepsSound DEF IInv
  <2>5. LateSound'
    BY <1>2, <2>3, <2>4 DEF LateSound
  <2>6. CallsSound'
    <3>1. ASSUME NEW b \in Attempts, attempt[b].pc # "idle"
          PROVE  Timely(attempt[b])' /\ UpdateSound(attempt[b])'
      <4>1. attempt[b] \in Calls /\ Timely(attempt[b]) /\ UpdateSound(attempt[b])
        BY <3>1, Underway
      <4>2. WrittenBy(call)
        BY <1>1, <1>3, WriteTyped DEF IInv
      <4>3. /\ attempt[b].slot \in Slots /\ rev[attempt[b].slot] \in Nat
            /\ attempt[b].seen \in Nat
        BY <4>1 DEF Calls, IInv, TypeOK
      <4> QED BY <1>2, <4>1, <4>2, <4>3 DEF WrittenBy, UpdateSound, Free, Timely
    <3> QED BY <1>2, <3>1 DEF CallsSound
  <2>7. SlotSpacing'
    BY <1>2 DEF IInv, SlotSpacing
  <2> QED BY <2>1, <2>2, <2>5, <2>6, <2>7 DEF IInv
<1>4. CASE UNCHANGED <<stamp, born, rev>>
  BY <1>2, <1>4 DEF IInv, TypeOK, SlotsRemember, Distant, CallsSound, Timely, UpdateSound,
                    Free, LateSound, SlotSpacing
<1> QED BY <1>3, <1>4 DEF ServeLate

LEMMA StepIInv == IInv /\ [Next]_vars => IInv'
<1> SUFFICES ASSUME IInv, [Next]_vars PROVE IInv'
  OBVIOUS
<1>1. CASE Tick
  BY <1>1, TickIInv
<1>2. ASSUME NEW s \in Slots, ExpireSlot(s) PROVE IInv'
  BY <1>2, ExpireIInv
<1>3. ASSUME NEW call \in late, ServeLate(call) PROVE IInv'
  BY <1>3, ServeLateIInv
<1>4. ASSUME NEW a \in Attempts, NEW clock \in Clocks, Start(a, clock) PROVE IInv'
  BY <1>4, StartIInv
<1>5. ASSUME NEW a \in Attempts, Get(a) \/ Take(a) \/ LoseRace(a) \/ Fail(a) PROVE IInv'
  BY <1>5, GetIInv, TakeIInv, LoseRaceIInv, FailIInv
<1>6. CASE UNCHANGED vars
  BY <1>6 DEF vars, IInv, TypeOK, SlotsRemember, Distant, CallsSound, Timely, UpdateSound,
              Free, LateSound, SlotSpacing
<1> QED BY <1>1, <1>2, <1>3, <1>4, <1>5, <1>6 DEF Next

THEOREM Invariance == Spec => []IInv
<1> QED BY InitIInv, StepIInv, PTL DEF Spec

\* The type invariant, for any number of calls and slots.
THEOREM TypeCorrect == Spec => []TypeOK
<1>1. IInv => TypeOK
  BY DEF IInv
<1> QED BY <1>1, Invariance, PTL

\* No slot allows two attempts within a window, whatever calls, expiries and late
\* writes interleave, if the TTL exceeds the window by the delay and twice the skew.
THEOREM SpacingHolds == Spec => []SlotSpacing
<1>1. IInv => SlotSpacing
  BY DEF IInv
<1> QED BY <1>1, Invariance, PTL

-----------------------------------------------------------------------------
(* From one slot to the budget of all of them *)

\* A window holds at most one allowed attempt of each slot.
LEMMA OnePerSlot ==
  ASSUME IInv, NEW from \in Int, NEW e \in Within(from), NEW f \in Within(from), e[1] = f[1]
  PROVE  e = f
<1>1. PICK r \in Slots : \E x \in allowed[r] :
        e = <<r, x>> /\ from <= x.at /\ x.at < from + Window
  BY DEF Within
<1>2. PICK x \in allowed[r] : e = <<r, x>> /\ from <= x.at /\ x.at < from + Window
  BY <1>1
<1>3. PICK q \in Slots : \E y \in allowed[q] :
        f = <<q, y>> /\ from <= y.at /\ y.at < from + Window
  BY DEF Within
<1>4. PICK y \in allowed[q] : f = <<q, y>> /\ from <= y.at /\ y.at < from + Window
  BY <1>3
<1>5. r = q
  BY <1>2, <1>4
<1>6. x.at \in Int /\ y.at \in Int
  BY <1>5 DEF IInv, TypeOK
<1>7. x = y
  <2>1. ASSUME x # y PROVE FALSE
    <3>1. x.at - y.at >= Window \/ y.at - x.at >= Window
      BY <1>5, <2>1 DEF IInv, SlotSpacing
    <3> QED BY <1>2, <1>4, <1>6, <3>1
  <2> QED BY <2>1
<1> QED BY <1>2, <1>4, <1>5, <1>7

LEMMA BudgetFollows == IInv => AttemptBudget
<1> SUFFICES ASSUME IInv, NEW s \in Slots, NEW x \in allowed[s]
             PROVE  Cardinality(Within(x.at)) <= Limit
  BY DEF AttemptBudget
<1>1. x.at \in Int
  BY DEF IInv, TypeOK
<1> DEFINE W == Within(x.at)
           slotOf == [e \in W |-> e[1]]
<1>2. \A e \in W : e[1] \in Slots
  BY DEF Within
<1>3. slotOf \in Injection(W, Slots)
  <2>1. slotOf \in [W -> Slots]
    BY <1>2
  <2>2. \A e, f \in W : slotOf[e] = slotOf[f] => e = f
    BY <1>1, OnePerSlot
  <2> QED BY <2>1, <2>2 DEF Injection, IsInjective
<1>4. IsFiniteSet(Slots) /\ Cardinality(Slots) = Limit
  <2>1. 0 \in Int /\ Limit - 1 \in Int /\ ~(0 > Limit - 1) /\ Limit - 1 - 0 + 1 = Limit
    OBVIOUS
  <2> QED BY <2>1, FS_Interval DEF Slots
<1>5. Cardinality(W) <= Cardinality(Slots)
  <2> HIDE DEF W, slotOf
  <2> QED BY <1>3, <1>4, FS_Injection
<1> QED BY <1>4, <1>5

\* No window of the bots' clocks holds more than Limit allowed attempts, for any limit.
THEOREM BudgetHolds == Spec => []AttemptBudget
<1> QED BY BudgetFollows, Invariance, PTL

=============================================================================
