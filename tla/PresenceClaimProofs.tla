------------------------- MODULE PresenceClaimProofs -------------------------
(***************************************************************************)
(* What holds of PresenceClaim for every set of instances and all bounds.   *)
(***************************************************************************)
EXTENDS PresenceClaim, TLAPS

USE InstancesAssumption, RecordsAssumption, BoundsAssumption

\* What the claim puts into `op' is well formed.
LEMMA RequestInOps ==
  ASSUME NEW pc \in Writes \union {"idle", "get"},
         NEW by \in {"nobody", "beat", "watch", "close"},
         NEW last \in Nat, NEW round \in 0..2
  PROVE  Request(pc, by, last, round) \in Ops
  BY DEF Request, Ops

LEMMA OpsClosed ==
  /\ Idle \in Ops
  /\ \A o \in Ops : Invalidate(o) \in Ops
  /\ \A rev \in Nat : Request("update", "beat", rev, 0) \in Ops
  /\ \A rev \in Nat : Request("delete", "close", rev, 0) \in Ops
  /\ ClaimRequest("beat") \in Ops /\ ClaimRequest("watch") \in Ops
<1>1. Idle \in Ops
  BY RequestInOps DEF Idle, Writes
<1>2. \A o \in Ops : Invalidate(o) \in Ops
  BY DEF Invalidate, Ops
<1>3. \A rev \in Nat : Request("update", "beat", rev, 0) \in Ops
  BY RequestInOps DEF Writes
<1>4. \A rev \in Nat : Request("delete", "close", rev, 0) \in Ops
  BY RequestInOps DEF Writes
<1>5. ClaimRequest("beat") \in Ops /\ ClaimRequest("watch") \in Ops
  BY RequestInOps DEF ClaimRequest, Writes
<1> QED BY <1>1, <1>2, <1>3, <1>4, <1>5

LEMMA ServedInOps ==
  ASSUME NEW o \in Ops, NEW result \in Nat
  PROVE  Served(o, result) \in Ops
  BY DEF Served, Ops

LEMMA InitTypeOK == Init => TypeOK
<1> SUFFICES ASSUME Init PROVE TypeOK
  OBVIOUS
<1>1. log \in Seq(Records) /\ held \in {0, Len(log)}
  BY DEF Init
<1>2. /\ proc \in [Instances -> {"new", "up", "dropped", "down", "closing", "stopped"}]
      /\ state \in [Instances -> States]
      /\ revision \in [Instances -> Nat]
  BY DEF Init, States
<1>3. op \in [Instances -> Ops]
  BY OpsClosed DEF Init
<1>4. late \in [Instances -> [pc : Writes \union {"none"}, last : Nat]]
  BY DEF Init, NoRequest
<1>5. watch \in [Instances -> Watches]
  BY DEF Init, Off, Watches
<1>6. faults \in 0..MaxFaults /\ refreshes \in 0..MaxRefresh
  BY DEF Init
<1> QED BY <1>1, <1>2, <1>3, <1>4, <1>5, <1>6 DEF TypeOK

\* Writing a record keeps every revision there was.
LEMMA Appending ==
  ASSUME log \in Seq(Records), NEW x \in Records, log' = Append(log, x)
  PROVE  /\ log' \in Seq(Records)
         /\ Len(log) \in Nat /\ Len(log') = Len(log) + 1
         /\ log'[Len(log')] = x
         /\ \A r \in 1..Len(log) : r \in 1..Len(log') /\ log'[r] = log[r]
  OBVIOUS

LEMMA WriteType ==
  ASSUME TypeOK, NEW p \in Instances, NEW request, Write(p, request)
  PROVE  log' \in Seq(Records) /\ held' \in {0, Len(log')}
<1>1. Deleted \in Records /\ p \in Records
  BY DEF Records
<1>2. log \in Seq(Records)
  BY DEF TypeOK
<1> QED BY <1>1, <1>2, Appending DEF Write

\* The three variables of a claim after one of its transitions.
ClaimTyped ==
  /\ state' \in [Instances -> States]
  /\ revision' \in [Instances -> Nat]
  /\ op' \in [Instances -> Ops]

LEMMA OpTyped ==
  ASSUME TypeOK, NEW p \in Instances, NEW o \in Ops, op' = [op EXCEPT ![p] = o]
  PROVE  op' \in [Instances -> Ops]
  BY DEF TypeOK

LEMMA TransitionTyped ==
  ASSUME TypeOK, NEW p \in Instances, NEW s \in States, NEW rev \in Nat,
         NEW o \in Ops, Transition(p, s, rev, o)
  PROVE  ClaimTyped
<1>1. state' \in [Instances -> States] /\ revision' \in [Instances -> Nat]
  BY DEF Transition, TypeOK
<1>2. PICK n \in Ops : op' = [op EXCEPT ![p] = n]
  BY OpsClosed DEF Transition
<1> QED BY <1>1, <1>2, OpTyped DEF ClaimTyped

LEMMA ResetTyped ==
  ASSUME TypeOK, NEW p \in Instances, NEW o \in Ops, Reset(p, o)
  PROVE  ClaimTyped
<1>1. state' \in [Instances -> States] /\ revision' \in [Instances -> Nat]
  BY DEF Reset, States, TypeOK
<1>2. Invalidate(o) \in Ops
  BY OpsClosed
<1> QED BY <1>1, <1>2, OpTyped DEF Reset, ClaimTyped

LEMMA StayTyped ==
  ASSUME TypeOK, NEW p \in Instances, NEW o \in Ops, op' = [op EXCEPT ![p] = o],
         UNCHANGED <<state, revision>>
  PROVE  ClaimTyped
  BY OpTyped DEF ClaimTyped, TypeOK

LEMMA WatchResumesTyped ==
  ASSUME TypeOK, NEW p \in Instances, WatchResumes(p)
  PROVE  watch' \in [Instances -> Watches]
  BY DEF WatchResumes, TypeOK, Watches

LEMMA AbandonTyped ==
  ASSUME TypeOK, NEW p \in Instances, Abandon(p)
  PROVE  late' \in [Instances -> [pc : Writes \union {"none"}, last : Nat]]
<1>1. op[p] \in Ops /\ op[p].last \in Nat
  BY DEF TypeOK, Ops
<1>2. op[p].pc \in Writes =>
        [pc |-> op[p].pc, last |-> op[p].last] \in [pc : Writes \union {"none"}, last : Nat]
  BY <1>1
<1> QED BY <1>2 DEF Abandon, TypeOK

LEMMA ContinueInOps ==
  ASSUME TypeOK, NEW p \in Instances, NEW pc \in {"get", "recreate", "overwrite"},
         NEW last \in Nat, NEW round \in 0..2
  PROVE  Continue(p, pc, last, round) \in Ops
<1>1. op[p] \in Ops
  BY DEF TypeOK
<1>2. op[p].by \in {"nobody", "beat", "watch", "close"} /\ op[p].fresh \in BOOLEAN
  BY <1>1 DEF Ops
<1>3. pc \in Writes \union {"idle", "get"}
  BY DEF Writes
<1>4. Request(pc, op[p].by, last, round) \in Ops
  BY <1>2, <1>3, RequestInOps
<1> QED BY <1>2, <1>4 DEF Continue, Ops

LEMMA FinishTyped ==
  ASSUME TypeOK, NEW p \in Instances, NEW rev \in Nat, Finish(p, rev)
  PROVE  ClaimTyped /\ watch' \in [Instances -> Watches]
<1>1. ClaimTyped
  <2> Idle \in Ops /\ 0 \in Nat /\ {"OWNED", "DUPLICATE"} \subseteq States
    BY OpsClosed DEF States
  <2> QED BY TransitionTyped, StayTyped DEF Finish, Adopt, YieldKey
<1> QED BY <1>1, WatchResumesTyped DEF Finish

LEMMA StepTypeOK == TypeOK /\ [Next]_vars => TypeOK'
<1> SUFFICES ASSUME TypeOK, [Next]_vars PROVE TypeOK'
  OBVIOUS
<1>1. CASE UNCHANGED vars
  BY <1>1 DEF vars, TypeOK
<1>2. CASE Expire \/ ExpireAbandoned
  <2>1. UNCHANGED <<log, proc, state, revision, op, late, watch, refreshes>> /\ held' = 0
    BY <1>2 DEF Expire, ExpireAbandoned
  <2>2. faults' \in 0..MaxFaults
    BY <1>2 DEF Expire, ExpireAbandoned, Fault, TypeOK
  <2> QED BY <2>1, <2>2 DEF TypeOK
<1>3. CASE Clobber
  <2>1. log' \in Seq(Records) /\ held' \in {0, Len(log')}
    <3>1. Forged \in Records /\ log \in Seq(Records)
      BY DEF Records, TypeOK
    <3> QED BY <1>3, <3>1, Appending DEF Clobber
  <2>2. faults' \in 0..MaxFaults
    BY <1>3 DEF Clobber, Fault, TypeOK
  <2> QED BY <1>3, <2>1, <2>2 DEF Clobber, TypeOK
<1>4. ASSUME NEW p \in Instances, Serve(p) PROVE TypeOK'
  <2>1. Current \in Nat /\ Len(log) + 1 \in Nat
    BY DEF Current, TypeOK
  <2>2. op[p] \in Ops
    BY DEF TypeOK
  <2>3. op' \in [Instances -> Ops]
    <3>1. PICK r \in Nat : op' = [op EXCEPT ![p] = Served(op[p], r)]
      BY <1>4, <2>1 DEF Serve
    <3> QED BY <2>2, <3>1, ServedInOps, OpTyped
  <2>4. log' \in Seq(Records) /\ held' \in {0, Len(log')}
    <3>1. CASE Write(p, op[p])
      BY <3>1, WriteType
    <3>2. CASE UNCHANGED <<log, held>>
      BY <3>2 DEF TypeOK
    <3> QED BY <1>4, <3>1, <3>2 DEF Serve
  <2> QED BY <1>4, <2>3, <2>4 DEF Serve, TypeOK
<1>5. ASSUME NEW p \in Instances, ServeLate(p) PROVE TypeOK'
  <2>1. log' \in Seq(Records) /\ held' \in {0, Len(log')}
    <3>1. CASE Write(p, late[p])
      BY <3>1, WriteType
    <3>2. CASE UNCHANGED <<log, held>>
      BY <3>2 DEF TypeOK
    <3> QED BY <1>5, <3>1, <3>2 DEF ServeLate
  <2>2. late' \in [Instances -> [pc : Writes \union {"none"}, last : Nat]]
    BY <1>5 DEF ServeLate, NoRequest, TypeOK
  <2> QED BY <1>5, <2>1, <2>2 DEF ServeLate, TypeOK
<1>6. ASSUME NEW p \in Instances, StartPut(p) PROVE TypeOK'
  <2>1. op' \in [Instances -> Ops]
    <3>1. revision[p] \in Nat
      BY DEF TypeOK
    <3>2. PICK o \in Ops : op' = [op EXCEPT ![p] = o]
      BY <1>6, <3>1, OpsClosed DEF StartPut
    <3> QED BY <3>2, OpTyped
  <2>2. refreshes' \in 0..MaxRefresh
    BY <1>6 DEF StartPut, TypeOK
  <2> QED BY <1>6, <2>1, <2>2 DEF StartPut, TypeOK
<1>7. ASSUME NEW p \in Instances, ReplyUpdate(p) PROVE TypeOK'
  <2>1. op[p].result \in Nat
    BY DEF TypeOK, Ops
  <2>2. state' \in [Instances -> States] /\ revision' \in [Instances -> Nat]
    BY <1>7, <2>1 DEF ReplyUpdate, TypeOK, States
  <2>3. PICK o \in Ops : op' = [op EXCEPT ![p] = o]
    BY <1>7, OpsClosed DEF ReplyUpdate
  <2>4. op' \in [Instances -> Ops]
    BY <2>3, OpTyped
  <2> QED BY <1>7, <2>2, <2>4 DEF ReplyUpdate, TypeOK
<1>8. ASSUME NEW p \in Instances, ReplyCreate(p) \/ ReplyGet(p) \/ ReplyRace(p)
      PROVE TypeOK'
  <2>0. op[p].result \in Nat /\ op[p].round \in 0..2 /\ 0 \in Nat /\ 1 \in 0..2 /\ 2 \in 0..2
    BY DEF TypeOK, Ops
  <2>1. Verdict(p, op[p].result) \in Nat
    BY <2>0 DEF Verdict
  <2>2. ClaimTyped /\ watch' \in [Instances -> Watches]
    <3>1. CASE \E rev \in Nat : Finish(p, rev)
      BY <3>1, FinishTyped
    <3>2. CASE Exhausted(p)
      BY <3>2, OpsClosed, StayTyped, WatchResumesTyped DEF Exhausted
    <3>3. CASE /\ UNCHANGED <<state, revision, watch>>
               /\ \E pc \in {"get", "recreate", "overwrite"}, last \in Nat, round \in 0..2 :
                    op' = [op EXCEPT ![p] = Continue(p, pc, last, round)]
      <4>1. PICK o \in Ops : op' = [op EXCEPT ![p] = o]
        BY <3>3, ContinueInOps
      <4> QED BY <3>3, <4>1, StayTyped DEF TypeOK
    <3> QED
      BY <1>8, <2>0, <2>1, <3>1, <3>2, <3>3 DEF ReplyCreate, ReplyGet, ReplyRace
  <2>3. UNCHANGED <<log, held, proc, late, faults, refreshes>>
    BY <1>8 DEF ReplyCreate, ReplyGet, ReplyRace
  <2> QED BY <2>2, <2>3 DEF ClaimTyped, TypeOK
<1>9. ASSUME NEW p \in Instances, ReleaseDone(p) PROVE TypeOK'
  <2>1. late' \in [Instances -> [pc : Writes \union {"none"}, last : Nat]]
    BY <1>9, AbandonTyped DEF ReleaseDone, TypeOK
  <2>2. ClaimTyped
    BY <1>9, OpsClosed, ResetTyped DEF ReleaseDone
  <2> QED BY <1>9, <2>1, <2>2 DEF ReleaseDone, ClaimTyped, TypeOK
<1>10. ASSUME NEW p \in Instances, Fail(p) PROVE TypeOK'
  <2>1. late' \in [Instances -> [pc : Writes \union {"none"}, last : Nat]]
    BY <1>10, AbandonTyped DEF Fail
  <2>2. ClaimTyped /\ watch' \in [Instances -> Watches]
    BY <1>10, OpsClosed, StayTyped, WatchResumesTyped DEF Fail, Exhausted
  <2>3. faults' \in 0..MaxFaults
    BY <1>10 DEF Fail, Fault, TypeOK
  <2> QED BY <1>10, <2>1, <2>2, <2>3 DEF Fail, ClaimTyped, TypeOK
<1>11. ASSUME NEW p \in Instances, StartWatch(p) PROVE TypeOK'
  <2>1. watch' \in [Instances -> Watches]
    <3>1. Len(log) \in Nat /\ (held # 0 => Len(log) - 1 \in Nat)
      BY DEF TypeOK
    <3> QED BY <1>11, <3>1 DEF StartWatch, ReplayPhase, TypeOK, Watches
  <2> QED BY <1>11, <2>1 DEF StartWatch, TypeOK
<1>12. ASSUME NEW p \in Instances, Deliver(p) PROVE TypeOK'
  <2> DEFINE rev == watch[p].pos + 1
  <2>1. rev \in Nat /\ revision[p] \in Nat /\ op[p] \in Ops
    BY DEF TypeOK, Watches
  <2>2. Newest(p, rev) \in Nat
    BY <2>1 DEF Newest
  <2>3. ClaimTyped
    <3>1. CASE Observe(p, rev)
      <4> 0 \in Nat /\ {"OWNED", "DUPLICATE"} \subseteq States
        BY DEF States
      <4> QED BY <2>1, <2>2, <3>1, TransitionTyped DEF Observe, Adopt, YieldKey
    <3>2. CASE UNCHANGED <<state, revision, op>>
      BY <3>2 DEF ClaimTyped, TypeOK
    <3> QED BY <1>12, <3>1, <3>2 DEF Deliver
  <2>4. watch' \in [Instances -> Watches]
    <3>1. PICK c \in BOOLEAN, w \in {"nothing", "expired"} : Received(p, c, w)
      BY <1>12 DEF Deliver
    <3>2. [phase |-> AfterEntry(p, c), wants |-> w, pos |-> rev] \in Watches
      BY <2>1 DEF AfterEntry, Watches
    <3> QED BY <3>1, <3>2 DEF Received, TypeOK
  <2> QED BY <1>12, <2>3, <2>4 DEF Deliver, ClaimTyped, TypeOK
<1>13. ASSUME NEW p \in Instances, ReplayEnds(p) PROVE TypeOK'
  BY <1>13 DEF ReplayEnds, TypeOK, Watches
<1>14. ASSUME NEW p \in Instances, StartReclaim(p) PROVE TypeOK'
  <2>1. watch' \in [Instances -> Watches]
    <3>1. CASE watch' = [watch EXCEPT ![p].wants = "nothing"]
      BY <3>1 DEF TypeOK, Watches
    <3> QED BY <1>14, <3>1 DEF StartReclaim, TypeOK
  <2>2. op' \in [Instances -> Ops]
    BY <1>14, OpsClosed, OpTyped DEF StartReclaim, TypeOK
  <2> QED BY <1>14, <2>1, <2>2 DEF StartReclaim, TypeOK
<1>15. ASSUME NEW p \in Instances, StartExpired(p) PROVE TypeOK'
  <2>1. op' \in [Instances -> Ops]
    BY <1>15, OpsClosed, OpTyped DEF StartExpired
  <2>2. state' \in [Instances -> States] /\ revision' \in [Instances -> Nat]
    BY <1>15 DEF StartExpired, TypeOK, States
  <2> QED BY <1>15, <2>1, <2>2 DEF StartExpired, TypeOK
<1>16. Off \in Watches
  BY DEF Off, Watches
<1>17. ASSUME NEW p \in Instances, WatchFails(p) PROVE TypeOK'
  BY <1>16, <1>17 DEF WatchFails, Fault, TypeOK
<1>18. ASSUME NEW p \in Instances, Start(p) \/ Reconnect(p) PROVE TypeOK'
  BY <1>18 DEF Start, Reconnect, TypeOK
<1>19. ASSUME NEW p \in Instances, Disconnect(p) PROVE TypeOK'
  <2>1. op' \in [Instances -> Ops]
    BY <1>19, OpsClosed, OpTyped DEF Disconnect, TypeOK
  <2>2. late' \in [Instances -> [pc : Writes \union {"none"}, last : Nat]]
    BY <1>19, AbandonTyped DEF Disconnect, TypeOK
  <2>3. faults' \in 0..MaxFaults /\ watch' \in [Instances -> Watches]
    BY <1>16, <1>19 DEF Disconnect, Fault, TypeOK
  <2> QED BY <1>19, <2>1, <2>2, <2>3 DEF Disconnect, TypeOK
<1>20. ASSUME NEW p \in Instances, OnDisconnected(p) PROVE TypeOK'
  <2>1. ClaimTyped
    BY <1>20, ResetTyped DEF OnDisconnected, TypeOK
  <2> QED BY <1>20, <2>1 DEF OnDisconnected, ClaimTyped, TypeOK
<1>21. ASSUME NEW p \in Instances, Close(p) \/ Crash(p) PROVE TypeOK'
  <2>1. late' \in [Instances -> [pc : Writes \union {"none"}, last : Nat]]
    BY <1>21, AbandonTyped DEF Close, Crash
  <2>2. ClaimTyped
    <3>1. CASE Reset(p, Idle)
      BY <3>1, OpsClosed, ResetTyped
    <3>2. CASE /\ op' = [op EXCEPT ![p] = Request("delete", "close", revision[p], 0)]
               /\ UNCHANGED <<state, revision>>
      <4> revision[p] \in Nat
        BY DEF TypeOK
      <4> QED BY <3>2, OpsClosed, StayTyped
    <3> QED BY <1>21, <3>1, <3>2 DEF Close, Crash
  <2>3. /\ proc' \in [Instances -> {"new", "up", "dropped", "down", "closing", "stopped"}]
        /\ watch' \in [Instances -> Watches]
    <3>1. watch' = [watch EXCEPT ![p] = Off]
      BY <1>21 DEF Close, Crash
    <3>2. PICK s \in {"closing", "stopped"} : proc' = [proc EXCEPT ![p] = s]
      BY <1>21 DEF Close, Crash
    <3> QED BY <1>16, <3>1, <3>2 DEF TypeOK
  <2>4. UNCHANGED <<log, held, faults, refreshes>>
    BY <1>21 DEF Close, Crash
  <2> QED BY <2>1, <2>2, <2>3, <2>4 DEF ClaimTyped, TypeOK
<1> QED
  BY <1>1, <1>2, <1>3, <1>4, <1>5, <1>6, <1>7, <1>8, <1>9, <1>10, <1>11, <1>12,
     <1>13, <1>14, <1>15, <1>17, <1>18, <1>19, <1>20, <1>21
  DEF Next, ClaimStep, WatchStep, ConnectionStep

\* The variables keep their types, for any number of instances.
THEOREM TypeCorrect == Spec => []TypeOK
  BY InitTypeOK, StepTypeOK, PTL DEF Spec

-----------------------------------------------------------------------------

\* No step changes or removes a record under a revision already written.
LEMMA LogGrows ==
  ASSUME TypeOK, [Next]_vars
  PROVE  \A r \in 1..Len(log) : r \in 1..Len(log') /\ log'[r] = log[r]
<1>1. CASE UNCHANGED log
  BY <1>1
<1>2. ASSUME NEW x \in Records, log' = Append(log, x)
      PROVE  \A r \in 1..Len(log) : r \in 1..Len(log') /\ log'[r] = log[r]
  BY <1>2, Appending DEF TypeOK
<1>3. Forged \in Records /\ Deleted \in Records /\ Instances \subseteq Records
  BY DEF Records
<1>4. UNCHANGED log \/ \E x \in Records : log' = Append(log, x)
  <2>1. CASE UNCHANGED vars
    BY <2>1 DEF vars
  <2>2. CASE Expire \/ ExpireAbandoned \/ Clobber
    BY <1>3, <2>2 DEF Expire, ExpireAbandoned, Clobber
  <2>3. ASSUME NEW p \in Instances, Serve(p) \/ ServeLate(p)
        PROVE  UNCHANGED log \/ \E x \in Records : log' = Append(log, x)
    BY <1>3, <2>3 DEF Serve, ServeLate, Write
  <2>4. ASSUME NEW p \in Instances,
               \/ StartPut(p) \/ ClaimStep(p) \/ Fail(p)
               \/ WatchStep(p) \/ StartReclaim(p) \/ StartExpired(p) \/ WatchFails(p)
               \/ Start(p) \/ Disconnect(p) \/ ConnectionStep(p) \/ Close(p) \/ Crash(p)
        PROVE  UNCHANGED log
    BY <2>4 DEF StartPut, ClaimStep, ReplyUpdate, ReplyCreate, ReplyGet, ReplyRace,
                ReleaseDone, Fail, WatchStep, StartWatch, Deliver, ReplayEnds,
                StartReclaim, StartExpired, WatchFails, Start, Disconnect,
                ConnectionStep, OnDisconnected, Reconnect, Close, Crash
  <2> QED BY <2>1, <2>2, <2>3, <2>4 DEF Next
<1> QED BY <1>1, <1>2, <1>4

\* What one instance knows, as one formula.
Sound(p) ==
  /\ Owned(p) \/ revision[p] # 0 => Mine(p, revision[p])
  /\ RequestSound(p, op[p])
  /\ RequestSound(p, late[p])
  /\ ResultSound(p)

LEMMA SoundIsIInv == IInv <=> TypeOK /\ \A p \in Instances : Sound(p)
  BY DEF IInv, OwnRevision, Sound

\* Whoever took the step, an instance whose claim it left alone still knows the truth.
LEMMA OthersSound ==
  ASSUME TypeOK, [Next]_vars, NEW q \in Instances, Sound(q),
         state'[q] = state[q], revision'[q] = revision[q],
         op'[q] = op[q], late'[q] = late[q]
  PROVE  Sound(q)'
<1>1. \A r \in 1..Len(log) : r \in 1..Len(log') /\ log'[r] = log[r]
  BY LogGrows
<1>2. (Owned(q) \/ revision[q] # 0 => Mine(q, revision[q]))'
  BY <1>1 DEF Sound, Owned, Mine
<1>3. RequestSound(q, op[q])' /\ RequestSound(q, late[q])'
  BY <1>1 DEF Sound, RequestSound, Mine
<1>4. ResultSound(q)'
  BY <1>1 DEF Sound, ResultSound
<1> QED BY <1>2, <1>3, <1>4 DEF Sound

\* A fresh request, an idle claim, an invalidated result.
LEMMA IdleSound ==
  ASSUME NEW p \in Instances
  PROVE  RequestSound(p, Idle) /\ RequestSound(p, NoRequest)
  BY DEF RequestSound, Idle, NoRequest, Request

LEMMA AbandonSound ==
  ASSUME IInv, NEW p \in Instances, Abandon(p)
  PROVE  RequestSound(p, late'[p])
<1>1. late'[p] = late[p] \/ late'[p] = [pc |-> op[p].pc, last |-> op[p].last]
  BY DEF Abandon, IInv, TypeOK
<1>2. RequestSound(p, op[p]) /\ RequestSound(p, late[p])
  BY DEF IInv
<1> QED BY <1>1, <1>2 DEF RequestSound

\* What makes a value of op[p] sound, and the values the claim's code builds.
Trusted(p, o) ==
  /\ RequestSound(p, o)
  /\ o.done /\ o.result # 0 =>
       /\ o.result \in 1..Len(log)
       /\ o.pc \in Writes \ {"delete"} => log[o.result] = p

LEMMA TrustedValues ==
  ASSUME NEW p \in Instances
  PROVE  /\ Trusted(p, Idle)
         /\ \A by : Trusted(p, ClaimRequest(by))
         /\ \A o \in Ops : Trusted(p, o) => Trusted(p, Invalidate(o))
         /\ \A rev : Mine(p, rev) => /\ Trusted(p, Request("update", "beat", rev, 0))
                                     /\ Trusted(p, Request("delete", "close", rev, 0))
         /\ \A pc \in {"get", "recreate"} : \A round : Trusted(p, Continue(p, pc, 0, round))
         /\ \A rev \in 1..Len(log) : \A round :
              log[rev] \notin Instances => Trusted(p, Continue(p, "overwrite", rev, round))
<1>1. Trusted(p, Idle) /\ \A by : Trusted(p, ClaimRequest(by))
  BY DEF Trusted, RequestSound, Idle, ClaimRequest, Request
<1>2. \A o \in Ops : Trusted(p, o) => Trusted(p, Invalidate(o))
  BY DEF Trusted, RequestSound, Invalidate, Ops
<1>3. \A rev : Mine(p, rev) => /\ Trusted(p, Request("update", "beat", rev, 0))
                               /\ Trusted(p, Request("delete", "close", rev, 0))
  BY DEF Trusted, RequestSound, Request
<1>4. \A pc \in {"get", "recreate"} : \A round : Trusted(p, Continue(p, pc, 0, round))
  BY DEF Trusted, RequestSound, Continue, Request
<1>5. \A rev \in 1..Len(log) : \A round :
        log[rev] \notin Instances => Trusted(p, Continue(p, "overwrite", rev, round))
  BY DEF Trusted, RequestSound, Continue, Request
<1> QED BY <1>1, <1>2, <1>3, <1>4, <1>5

\* After a step that leaves the log alone, the new values decide.
LEMMA StepSound ==
  ASSUME TypeOK, UNCHANGED log, NEW p \in Instances,
         state'[p] = "OWNED" \/ revision'[p] # 0 => Mine(p, revision'[p]),
         Trusted(p, op'[p]), RequestSound(p, late'[p])
  PROVE  Sound(p)'
<1>1. (Owned(p) \/ revision[p] # 0 => Mine(p, revision[p]))'
  BY DEF Owned, Mine
<1>2. RequestSound(p, op[p])' /\ RequestSound(p, late[p])'
  BY DEF Trusted, RequestSound, Mine
<1>3. ResultSound(p)'
  BY DEF Trusted, ResultSound
<1> QED BY <1>1, <1>2, <1>3 DEF Sound

\* The transitions of the claim preserve it, given a sound revision and operation.
LEMMA TransitionSound ==
  ASSUME TypeOK, UNCHANGED log, NEW p \in Instances, NEW s, NEW rev, NEW o \in Ops,
         Transition(p, s, rev, o), s = "OWNED" \/ rev # 0 => Mine(p, rev),
         Trusted(p, o), RequestSound(p, late'[p])
  PROVE  Sound(p)'
<1>1. state'[p] = s /\ revision'[p] = rev /\ op'[p] \in {o, Invalidate(o)}
  BY DEF Transition, TypeOK
<1>2. Trusted(p, op'[p])
  BY <1>1, TrustedValues
<1> QED BY <1>1, <1>2, StepSound

LEMMA ResetSound ==
  ASSUME TypeOK, UNCHANGED log, NEW p \in Instances, NEW o \in Ops,
         Reset(p, o), Trusted(p, o), RequestSound(p, late'[p])
  PROVE  Sound(p)'
<1>1. state'[p] # "OWNED" /\ revision'[p] = 0 /\ op'[p] = Invalidate(o)
  BY DEF Reset, Owned, TypeOK
<1>2. Trusted(p, op'[p])
  BY <1>1, TrustedValues
<1> QED BY <1>1, <1>2, StepSound

LEMMA FinishSound ==
  ASSUME IInv, UNCHANGED <<log, late>>, NEW p \in Instances, NEW rev,
         Finish(p, rev), rev # 0 => Mine(p, rev)
  PROVE  Sound(p)'
<1> USE DEF IInv
<1>1. Trusted(p, Idle) /\ Idle \in Ops /\ RequestSound(p, late'[p])
  BY TrustedValues, OpsClosed
<1>2. CASE op' = [op EXCEPT ![p] = Idle] /\ UNCHANGED <<state, revision>>
  <2>1. op'[p] = Idle
    BY <1>2 DEF TypeOK
  <2>2. state'[p] = "OWNED" \/ revision'[p] # 0 => Mine(p, revision'[p])
    BY <1>2 DEF OwnRevision, Owned
  <2> QED BY <1>1, <2>1, <2>2, StepSound
<1>3. CASE rev = 0 /\ YieldKey(p, Idle)
  BY <1>1, <1>3, TransitionSound DEF YieldKey
<1>4. CASE rev # 0 /\ Adopt(p, rev, Idle)
  BY <1>1, <1>4, TransitionSound DEF Adopt
<1> QED BY <1>2, <1>3, <1>4 DEF Finish

ProcessStep(p) ==
  \/ Serve(p) \/ ServeLate(p) \/ StartPut(p) \/ ClaimStep(p) \/ Fail(p)
  \/ WatchStep(p) \/ StartReclaim(p) \/ StartExpired(p) \/ WatchFails(p)
  \/ Start(p) \/ Disconnect(p) \/ ConnectionStep(p) \/ Close(p) \/ Crash(p)

\* A step of one process touches no other process's claim.
LEMMA OneProcess ==
  ASSUME TypeOK, NEW p \in Instances, ProcessStep(p), NEW q \in Instances \ {p}
  PROVE  /\ state'[q] = state[q] /\ revision'[q] = revision[q]
         /\ op'[q] = op[q] /\ late'[q] = late[q]
<1> USE DEF TypeOK
<1>1. late'[q] = late[q]
  <2>1. CASE Abandon(p) \/ UNCHANGED late
    BY <2>1 DEF Abandon
  <2>2. CASE ServeLate(p)
    BY <2>2 DEF ServeLate
  <2> QED BY <2>1, <2>2
      DEF ProcessStep, Serve, StartPut, ClaimStep, ReplyUpdate, ReplyCreate, ReplyGet,
          ReplyRace, ReleaseDone, Fail, WatchStep, StartWatch, Deliver, ReplayEnds,
          StartReclaim, StartExpired, WatchFails, Start, Disconnect, ConnectionStep,
          OnDisconnected, Reconnect, Close, Crash
<1>2. ASSUME NEW s, NEW rev, NEW o, Transition(p, s, rev, o)
      PROVE  state'[q] = state[q] /\ revision'[q] = revision[q] /\ op'[q] = op[q]
  BY <1>2 DEF Transition
<1>3. ASSUME NEW o, Reset(p, o)
      PROVE  state'[q] = state[q] /\ revision'[q] = revision[q] /\ op'[q] = op[q]
  BY <1>3 DEF Reset
<1>4. ASSUME NEW rev, Finish(p, rev)
      PROVE  state'[q] = state[q] /\ revision'[q] = revision[q] /\ op'[q] = op[q]
  BY <1>2, <1>4 DEF Finish, Adopt, YieldKey
<1>5. state'[q] = state[q] /\ revision'[q] = revision[q] /\ op'[q] = op[q]
  <2>1. CASE Serve(p) \/ ServeLate(p) \/ StartPut(p) \/ ReplyUpdate(p)
    BY <2>1 DEF Serve, ServeLate, StartPut, ReplyUpdate
  <2>2. CASE ReplyCreate(p) \/ ReplyGet(p) \/ ReplyRace(p)
    BY <1>4, <2>2 DEF ReplyCreate, ReplyGet, ReplyRace, Exhausted
  <2>3. CASE ReleaseDone(p) \/ OnDisconnected(p) \/ Close(p) \/ Crash(p)
    BY <1>3, <2>3 DEF ReleaseDone, OnDisconnected, Close, Crash
  <2>4. CASE Deliver(p)
    BY <1>2, <2>4 DEF Deliver, Observe, Adopt, YieldKey
  <2>5. CASE Fail(p) \/ StartReclaim(p) \/ StartExpired(p) \/ Disconnect(p)
    BY <2>5 DEF Fail, Exhausted, StartReclaim, StartExpired, Disconnect
  <2>6. CASE StartWatch(p) \/ ReplayEnds(p) \/ WatchFails(p) \/ Start(p) \/ Reconnect(p)
    BY <2>6 DEF StartWatch, ReplayEnds, WatchFails, Start, Reconnect
  <2> QED BY <2>1, <2>2, <2>3, <2>4, <2>5, <2>6
      DEF ProcessStep, ClaimStep, WatchStep, ConnectionStep
<1> QED BY <1>1, <1>5

\* The process that takes the step still knows the truth about its claim.
LEMMA ActorSound ==
  ASSUME IInv, [Next]_vars, NEW p \in Instances, ProcessStep(p)
  PROVE  Sound(p)'
<1> USE DEF IInv
<1>0. /\ Owned(p) \/ revision[p] # 0 => Mine(p, revision[p])
      /\ Trusted(p, op[p]) /\ RequestSound(p, late[p]) /\ op[p] \in Ops
      /\ Trusted(p, Idle) /\ Idle \in Ops
  BY TrustedValues, OpsClosed DEF OwnRevision, ResultSound, Trusted, TypeOK
<1>1. \A r \in 1..Len(log) : r \in 1..Len(log') /\ log'[r] = log[r]
  BY LogGrows
<1>2. CASE Serve(p)
  <2>1. state'[p] = state[p] /\ revision'[p] = revision[p] /\ late'[p] = late[p]
    BY <1>2 DEF Serve
  <2>2. /\ op'[p].pc = op[p].pc /\ op'[p].last = op[p].last
        /\ \/ op'[p].result = 0
           \/ op[p].pc = "get" /\ op'[p].result = Current
           \/ Write(p, op[p]) /\ op'[p].result = Len(log) + 1
    <3>1. PICK r : /\ op' = [op EXCEPT ![p] = Served(op[p], r)]
                   /\ \/ r = 0
                      \/ op[p].pc = "get" /\ r = Current
                      \/ Write(p, op[p]) /\ r = Len(log) + 1
      BY <1>2 DEF Serve
    <3>2. op'[p] = Served(op[p], r)
      BY <3>1 DEF TypeOK
    <3>3. op'[p].pc = op[p].pc /\ op'[p].last = op[p].last /\ op'[p].result = r
      BY <1>0, <3>2 DEF Served, Ops
    <3> QED BY <3>1, <3>3
  <2>3. (Owned(p) \/ revision[p] # 0 => Mine(p, revision[p]))'
    BY <1>0, <1>1, <2>1 DEF Owned, Mine
  <2>4. RequestSound(p, op[p])' /\ RequestSound(p, late[p])'
    BY <1>0, <1>1, <2>1, <2>2 DEF Trusted, RequestSound, Mine
  <2>5. ResultSound(p)'
    <3>1. CASE op'[p].result = 0
      BY <3>1 DEF ResultSound
    <3>2. CASE op[p].pc = "get" /\ op'[p].result = Current
      <4>1. Current # 0 => Current \in 1..Len(log)
        BY DEF Current, Live, TypeOK
      <4> QED BY <1>1, <2>2, <3>2, <4>1 DEF ResultSound, Writes
    <3>3. CASE Write(p, op[p]) /\ op'[p].result = Len(log) + 1
      <4>1. Deleted \in Records /\ p \in Records /\ log \in Seq(Records)
        BY DEF Records, TypeOK
      <4>2. PICK x \in Records : log' = Append(log, x) /\ (op[p].pc # "delete" => x = p)
        BY <3>3, <4>1 DEF Write
      <4>3. Len(log') \in Nat /\ Len(log') = Len(log) + 1 /\ log'[Len(log')] = x
        BY <4>1, <4>2, Appending
      <4> QED BY <2>2, <3>3, <4>2, <4>3 DEF ResultSound
    <3> QED BY <2>2, <3>1, <3>2, <3>3
  <2> QED BY <2>3, <2>4, <2>5 DEF Sound
<1>3. CASE ServeLate(p)
  <2>1. /\ state'[p] = state[p] /\ revision'[p] = revision[p]
        /\ op'[p] = op[p] /\ late'[p] = NoRequest
    BY <1>3 DEF ServeLate, TypeOK
  <2>2. (Owned(p) \/ revision[p] # 0 => Mine(p, revision[p]))'
    BY <1>0, <1>1, <2>1 DEF Owned, Mine
  <2>3. RequestSound(p, op[p])' /\ RequestSound(p, late[p])'
    BY <1>0, <1>1, <2>1 DEF Trusted, RequestSound, Mine, NoRequest
  <2>4. ResultSound(p)'
    BY <1>0, <1>1, <2>1 DEF Trusted, ResultSound
  <2> QED BY <2>2, <2>3, <2>4 DEF Sound
<1>4. CASE StartPut(p)
  <2>1. Trusted(p, op'[p])
    BY <1>0, <1>4, TrustedValues DEF StartPut, TypeOK
  <2>2. UNCHANGED <<log, state, revision, late>>
    BY <1>4 DEF StartPut
  <2> QED BY <1>0, <2>1, <2>2, StepSound DEF Owned
<1>5. CASE ReplyUpdate(p)
  <2>1. UNCHANGED <<log, late>>
    BY <1>5 DEF ReplyUpdate
  <2>2. Trusted(p, op'[p])
    BY <1>0, <1>5, TrustedValues DEF ReplyUpdate, TypeOK
  <2>3. state'[p] = "OWNED" \/ revision'[p] # 0 => Mine(p, revision'[p])
    <3>1. CASE UNCHANGED <<state, revision>>
      BY <1>0, <3>1 DEF Owned
    <3>2. CASE op[p].result # 0 /\ revision' = [revision EXCEPT ![p] = op[p].result]
      BY <1>0, <1>5, <3>2
      DEF ReplyUpdate, Awaits, Trusted, Mine, Writes, TypeOK
    <3>3. CASE /\ state' = [state EXCEPT ![p] = "UNCLAIMED"]
               /\ revision' = [revision EXCEPT ![p] = 0]
      BY <3>3 DEF TypeOK
    <3> QED BY <1>5, <3>1, <3>2, <3>3 DEF ReplyUpdate
  <2> QED BY <1>0, <2>1, <2>2, <2>3, StepSound
<1>6. CASE ReplyCreate(p) \/ ReplyGet(p) \/ ReplyRace(p)
  <2>1. UNCHANGED <<log, late>>
    BY <1>6 DEF ReplyCreate, ReplyGet, ReplyRace
  <2>2. CASE \E rev : Finish(p, rev) /\ (rev # 0 => Mine(p, rev))
    BY <2>1, <2>2, FinishSound
  <2>3. CASE Trusted(p, op'[p]) /\ UNCHANGED <<state, revision>>
    BY <1>0, <2>1, <2>3, StepSound DEF Owned
  <2>4. CASE ReplyCreate(p)
    <3>1. op[p].result # 0 => Mine(p, op[p].result)
      BY <1>0, <2>4 DEF ReplyCreate, Awaits, Trusted, Mine, Writes
    <3> QED BY <2>2, <2>3, <2>4, <3>1, TrustedValues DEF ReplyCreate, TypeOK
  <2>5. CASE ReplyGet(p)
    <3>1. op[p].result # 0 => op[p].result \in 1..Len(log)
      BY <1>0, <2>5 DEF ReplyGet, Awaits, Trusted
    <3>2. op[p].result # 0 =>
            (Verdict(p, op[p].result) # 0 => Mine(p, Verdict(p, op[p].result)))
      BY <3>1 DEF Verdict, Mine
    <3> QED BY <2>2, <2>3, <2>5, <3>1, <3>2, TrustedValues DEF ReplyGet, Valid, TypeOK
  <2>6. CASE ReplyRace(p)
    <3>1. op[p].result # 0 => Mine(p, op[p].result)
      BY <1>0, <2>6 DEF ReplyRace, Awaits, Trusted, Mine, Writes
    <3> QED BY <1>0, <2>2, <2>3, <2>6, <3>1, TrustedValues DEF ReplyRace, Exhausted, TypeOK
  <2> QED BY <1>6, <2>4, <2>5, <2>6
<1>7. CASE ReleaseDone(p) \/ Close(p) \/ Crash(p)
  <2>1. UNCHANGED log
    BY <1>7 DEF ReleaseDone, Close, Crash
  <2>2. RequestSound(p, late'[p])
    BY <1>0, <1>7, AbandonSound DEF ReleaseDone, Close, Crash
  <2>3. CASE Reset(p, Idle)
    BY <1>0, <2>1, <2>2, <2>3, ResetSound
  <2>4. CASE /\ Owned(p) /\ UNCHANGED <<state, revision>>
             /\ op' = [op EXCEPT ![p] = Request("delete", "close", revision[p], 0)]
    <3>1. Trusted(p, op'[p])
      BY <1>0, <2>4, TrustedValues DEF TypeOK
    <3> QED BY <1>0, <2>1, <2>2, <2>4, <3>1, StepSound
  <2> QED BY <1>7, <2>3, <2>4 DEF ReleaseDone, Close, Crash
<1>8. CASE OnDisconnected(p)
  BY <1>0, <1>8, ResetSound DEF OnDisconnected
<1>9. CASE Fail(p) \/ Disconnect(p)
  <2>1. UNCHANGED <<log, state, revision>>
    BY <1>9 DEF Fail, Exhausted, Disconnect
  <2>2. RequestSound(p, late'[p])
    BY <1>0, <1>9, AbandonSound DEF Fail, Disconnect
  <2>3. op'[p] \in {op[p], Idle}
    BY <1>9 DEF Fail, Exhausted, Disconnect, TypeOK
  <2> QED BY <1>0, <2>1, <2>2, <2>3, StepSound DEF Owned
<1>10. CASE Deliver(p)
  <2> DEFINE rev == watch[p].pos + 1
  <2>1. UNCHANGED <<log, late>> /\ rev \in 1..Len(log)
    BY <1>10 DEF Deliver, TypeOK, Watches
  <2>2. CASE UNCHANGED <<state, revision, op>>
    BY <1>0, <2>1, <2>2, StepSound DEF Owned
  <2>3. CASE Observe(p, rev) /\ log[rev] = p
    <3>1. Mine(p, Newest(p, rev))
      BY <1>0, <2>1, <2>3 DEF Newest, Mine, TypeOK
    <3> QED BY <1>0, <2>1, <2>3, <3>1, TransitionSound DEF Observe, Adopt
  <2>4. CASE Observe(p, rev) /\ log[rev] # p
    BY <1>0, <2>1, <2>4, TransitionSound DEF Observe, YieldKey
  <2> QED BY <1>10, <2>2, <2>3, <2>4 DEF Deliver
<1>11. CASE StartReclaim(p)
  <2>1. UNCHANGED <<log, state, revision, late>>
    BY <1>11 DEF StartReclaim
  <2>2. Trusted(p, op'[p])
    BY <1>0, <1>11, TrustedValues DEF StartReclaim, TypeOK
  <2> QED BY <1>0, <2>1, <2>2, StepSound DEF Owned
<1>12. CASE StartExpired(p)
  <2>1. UNCHANGED <<log, late>> /\ state'[p] # "OWNED" /\ revision'[p] = 0
    BY <1>12 DEF StartExpired, Owned, TypeOK
  <2>2. Trusted(p, op'[p])
    BY <1>12, TrustedValues DEF StartExpired, TypeOK
  <2> QED BY <1>0, <2>1, <2>2, StepSound
<1>13. CASE StartWatch(p) \/ ReplayEnds(p) \/ WatchFails(p) \/ Start(p) \/ Reconnect(p)
  <2>1. UNCHANGED <<log, state, revision, op, late>>
    BY <1>13 DEF StartWatch, ReplayEnds, WatchFails, Start, Reconnect
  <2> QED BY <1>0, <2>1, StepSound DEF Owned
<1> QED
  BY <1>2, <1>3, <1>4, <1>5, <1>6, <1>7, <1>8, <1>9, <1>10, <1>11, <1>12, <1>13
  DEF ProcessStep, ClaimStep, WatchStep, ConnectionStep

LEMMA InitIInv == Init => IInv
<1> SUFFICES ASSUME Init PROVE IInv
  OBVIOUS
<1>1. TypeOK
  BY InitTypeOK
<1>2. ASSUME NEW p \in Instances PROVE Sound(p)
  <2>1. /\ state[p] = "UNCLAIMED" /\ revision[p] = 0
        /\ op[p] = Idle /\ late[p] = NoRequest
    BY DEF Init
  <2>2. ~Idle.done
    BY DEF Idle, Request
  <2> QED BY <2>1, <2>2, IdleSound DEF Sound, Owned, ResultSound
<1> QED BY <1>1, <1>2, SoundIsIInv

LEMMA StepIInv == IInv /\ [Next]_vars => IInv'
<1> SUFFICES ASSUME IInv, [Next]_vars PROVE IInv'
  OBVIOUS
<1>1. TypeOK /\ TypeOK' /\ \A q \in Instances : Sound(q)
  BY StepTypeOK, SoundIsIInv DEF IInv
<1>2. ASSUME NEW q \in Instances PROVE Sound(q)'
  <2>1. CASE UNCHANGED <<state, revision, op, late>>
    BY <1>1, <2>1, OthersSound
  <2>2. CASE ProcessStep(q)
    BY <2>2, ActorSound
  <2>3. ASSUME NEW p \in Instances \ {q}, ProcessStep(p) PROVE Sound(q)'
    BY <1>1, <2>3, OneProcess, OthersSound
  <2>4. UNCHANGED vars \/ Expire \/ ExpireAbandoned \/ Clobber =>
          UNCHANGED <<state, revision, op, late>>
    BY DEF vars, Expire, ExpireAbandoned, Clobber
  <2> QED BY <2>1, <2>2, <2>3, <2>4 DEF Next, ProcessStep
<1>3. (\A p \in Instances : Sound(p))' /\ TypeOK'
  BY <1>1, <1>2
<1> QED BY <1>3 DEF IInv, OwnRevision, Sound

\* A process only ever refreshes or deletes a record it wrote itself.
THEOREM OwnRevisionHolds == Spec => []OwnRevision
<1>1. IInv => OwnRevision
  BY DEF IInv
<1> QED BY <1>1, InitIInv, StepIInv, PTL DEF Spec

\* One step cannot evict the live record of a peer.
EvictsNobody ==
  Live /\ Last \in Instances /\ log' # log =>
    \/ Last' \in {Last, Forged}
    \/ Last' = Deleted /\ DeletePending(Last)

LEMMA StepEvictsNobody == IInv /\ [Next]_vars => EvictsNobody
<1> SUFFICES ASSUME IInv, [Next]_vars, Live, Last \in Instances, log' # log
             PROVE  \/ Last' \in {Last, Forged}
                    \/ Last' = Deleted /\ DeletePending(Last)
  BY DEF EvictsNobody
<1> USE DEF IInv
<1>0. log \in Seq(Records) /\ {Forged, Deleted} \subseteq Records /\ Instances \subseteq Records
  BY DEF Records, TypeOK
<1>1. ASSUME NEW x \in Records, log' = Append(log, x) PROVE Last' = x
  BY <1>0, <1>1, Appending DEF Last
<1>2. CASE Clobber
  BY <1>0, <1>1, <1>2 DEF Clobber
<1>3. ASSUME NEW p \in Instances, NEW request, request \in {op[p], late[p]},
             request.pc \in Writes, Accepts(request), Write(p, request)
      PROVE  \/ Last' \in {Last, Forged}
             \/ Last' = Deleted /\ DeletePending(Last)
  <2>1. request.pc \in {"update", "overwrite", "delete"} /\ request.last = Len(log)
    BY <1>3 DEF Accepts, Writes
  <2>2. RequestSound(p, request)
    BY <1>3
  <2>3. CASE request.pc = "update"
    <3>1. Last = p
      BY <2>1, <2>2, <2>3 DEF RequestSound, Mine, Last
    <3> QED BY <1>0, <1>1, <1>3, <2>3, <3>1 DEF Write
  <2>4. CASE request.pc = "overwrite"
    BY <2>1, <2>2, <2>4 DEF RequestSound, Last
  <2>5. CASE request.pc = "delete"
    <3>1. Last = p
      BY <2>1, <2>2, <2>5 DEF RequestSound, Mine, Last
    <3> QED BY <1>0, <1>1, <1>3, <2>5, <3>1 DEF Write, DeletePending
  <2> QED BY <2>1, <2>3, <2>4, <2>5
<1>4. ASSUME NEW p \in Instances, Serve(p) \/ ServeLate(p)
      PROVE  \/ Last' \in {Last, Forged}
             \/ Last' = Deleted /\ DeletePending(Last)
  <2>1. op[p].pc \in Writes \union {"idle", "get"} /\ late[p].pc \in Writes \union {"none"}
    BY DEF TypeOK, Ops
  <2>2. \E request \in {op[p], late[p]} :
          request.pc \in Writes /\ Accepts(request) /\ Write(p, request)
    BY <1>4, <2>1 DEF Serve, ServeLate
  <2> QED BY <1>3, <2>2
<1>5. UNCHANGED log \/ Clobber \/ \E p \in Instances : Serve(p) \/ ServeLate(p)
  BY DEF vars, Next, Expire, ExpireAbandoned,
         StartPut, ClaimStep, ReplyUpdate, ReplyCreate, ReplyGet, ReplyRace,
         ReleaseDone, Fail, WatchStep, StartWatch, Deliver, ReplayEnds,
         StartReclaim, StartExpired, WatchFails, Start, Disconnect,
         ConnectionStep, OnDisconnected, Reconnect, Close, Crash
<1> QED BY <1>2, <1>4, <1>5

\* Compare-and-set fences every process with every other, whatever is delayed or lost.
THEOREM NeverEvictsPeerHolds == Spec => NeverEvictsPeer
<1>1. IInv /\ [Next]_vars =>
        [Live /\ Last \in Instances /\ log' # log =>
           \/ Last' \in {Last, Forged}
           \/ Last' = Deleted /\ DeletePending(Last)]_vars
  BY StepEvictsNobody DEF EvictsNobody
<1> QED BY <1>1, InitIInv, StepIInv, PTL DEF Spec, NeverEvictsPeer

-----------------------------------------------------------------------------

Steady(p) == ClaimUnowned(p) /\ RefreshStands(p)

\* What a step of p's own coroutines makes of its call: a new one, or the same served one.
Settled(p) ==
  \/ ~op'[p].done
  \/ op'[p] \in {op[p], Invalidate(op[p])} /\ late'[p] = late[p]

LEMMA InvalidateKeeps ==
  ASSUME NEW o \in Ops
  PROVE  /\ Invalidate(o).pc = o.pc /\ Invalidate(o).done = o.done
         /\ Invalidate(o).result = o.result
         /\ o.pc # "idle" => ~Invalidate(o).fresh
  BY DEF Invalidate, Ops

LEMMA SettledStands ==
  ASSUME TypeOK, NEW p \in Instances, RefreshStands(p), UNCHANGED <<log, held>>, Settled(p)
  PROVE  RefreshStands(p)'
<1>1. CASE ~op'[p].done
  BY <1>1 DEF RefreshStands, RefreshServed
<1>2. CASE op'[p] \in {op[p], Invalidate(op[p])} /\ late'[p] = late[p]
  <2>1. op[p] \in Ops
    BY DEF TypeOK
  <2>2. op'[p].pc = op[p].pc /\ op'[p].done = op[p].done /\ op'[p].result = op[p].result
    BY <1>2, <2>1, InvalidateKeeps
  <2> QED BY <1>2, <2>2 DEF RefreshStands, RefreshServed, NewestButDeleted
<1> QED BY <1>1, <1>2 DEF Settled

\* A new call: unserved, and a claim only for a process that is not the owner.
LEMMA NewCalls ==
  ASSUME NEW p \in Instances
  PROVE  /\ ~Idle.done /\ Idle.pc = "idle"
         /\ \A by : ~ClaimRequest(by).done
         /\ \A pc, by, last, round : /\ ~Request(pc, by, last, round).done
                                     /\ Request(pc, by, last, round).pc = pc
         /\ \A pc, last, round : /\ ~Continue(p, pc, last, round).done
                                 /\ Continue(p, pc, last, round).fresh = op[p].fresh
<1>1. /\ ~Idle.done /\ Idle.pc = "idle"
      /\ \A by : ~ClaimRequest(by).done
  BY DEF Idle, ClaimRequest, Request
<1>2. \A pc, by, last, round : /\ ~Request(pc, by, last, round).done
                               /\ Request(pc, by, last, round).pc = pc
  BY DEF Request
<1>3. \A pc, last, round : /\ ~Continue(p, pc, last, round).done
                           /\ Continue(p, pc, last, round).fresh = op[p].fresh
  BY DEF Continue, Request
<1> QED BY <1>1, <1>2, <1>3

\* A transition of the claim leaves no fresh claim to a process that becomes the owner.
LEMMA TransitionSteady ==
  ASSUME TypeOK, NEW p \in Instances, ClaimUnowned(p), NEW s, NEW rev, NEW o \in Ops,
         Transition(p, s, rev, o), UNCHANGED late, o \in {Idle, op[p]}
  PROVE  Settled(p) /\ ClaimUnowned(p)'
<1>1. state'[p] = s /\ op'[p] = (IF s = state[p] THEN o ELSE Invalidate(o))
  BY DEF Transition, TypeOK
<1>2. Invalidate(Idle) = Idle
  BY NewCalls DEF Invalidate
<1>3. CASE o = Idle
  BY <1>1, <1>2, <1>3, NewCalls DEF Settled, ClaimUnowned
<1>4. CASE o = op[p]
  <2>1. Settled(p)
    BY <1>1, <1>4 DEF Settled
  <2>2. CASE s = state[p]
    BY <1>1, <1>4, <2>1, <2>2 DEF ClaimUnowned, Owned
  <2>3. CASE s # state[p]
    <3>1. op'[p] = Invalidate(o) /\ Invalidate(o).pc = o.pc
      BY <1>1, <2>3, InvalidateKeeps
    <3>2. o.pc # "idle" => ~Invalidate(o).fresh
      BY InvalidateKeeps
    <3> QED BY <2>1, <3>1, <3>2 DEF ClaimUnowned
  <2> QED BY <2>1, <2>2, <2>3
<1> QED BY <1>3, <1>4

LEMMA ResetSteady ==
  ASSUME TypeOK, NEW p \in Instances, NEW o, Reset(p, o),
         o = Idle \/ (o = op[p] /\ UNCHANGED late)
  PROVE  Settled(p) /\ ClaimUnowned(p)'
<1>1. state'[p] # "OWNED" /\ op'[p] = Invalidate(o)
  BY DEF Reset, Owned, TypeOK
<1>2. Invalidate(Idle) = Idle
  BY NewCalls DEF Invalidate
<1>3. ClaimUnowned(p)'
  BY <1>1 DEF ClaimUnowned, Owned
<1>4. Settled(p)
  BY <1>1, <1>2, NewCalls DEF Settled
<1> QED BY <1>3, <1>4

\* A call given up or answered, or followed by another one.
LEMMA CallSteady ==
  ASSUME TypeOK, NEW p \in Instances, UNCHANGED state, NEW o, op' = [op EXCEPT ![p] = o],
         ~o.done, o.pc \in {"create", "recreate", "get", "overwrite"} /\ o.fresh => ~Owned(p)
  PROVE  Settled(p) /\ ClaimUnowned(p)'
<1>1. op'[p] = o
  BY DEF TypeOK
<1> QED BY <1>1 DEF Settled, ClaimUnowned, Owned

LEMMA FinishSteady ==
  ASSUME TypeOK, NEW p \in Instances, ClaimUnowned(p), NEW rev, Finish(p, rev), UNCHANGED late
  PROVE  Settled(p) /\ ClaimUnowned(p)'
<1>1. CASE op' = [op EXCEPT ![p] = Idle] /\ UNCHANGED <<state, revision>>
  BY <1>1, NewCalls, CallSteady
<1>2. CASE YieldKey(p, Idle) \/ Adopt(p, rev, Idle)
  BY <1>2, OpsClosed, TransitionSteady DEF YieldKey, Adopt
<1> QED BY <1>1, <1>2 DEF Finish

LEMMA OwnStepSteady ==
  ASSUME TypeOK, NEW p \in Instances, ClaimUnowned(p), ProcessStep(p), ~Serve(p), ~ServeLate(p)
  PROVE  UNCHANGED <<log, held>> /\ Settled(p) /\ ClaimUnowned(p)'
<1>1. CASE StartPut(p)
  <2>1. CASE Owned(p) /\ op' = [op EXCEPT ![p] = Request("update", "beat", revision[p], 0)]
    BY <1>1, <2>1, NewCalls, CallSteady DEF StartPut
  <2>2. CASE ~Owned(p) /\ op' = [op EXCEPT ![p] = ClaimRequest("beat")]
    BY <1>1, <2>2, NewCalls, CallSteady DEF StartPut
  <2> QED BY <1>1, <2>1, <2>2 DEF StartPut
<1>2. CASE ReplyUpdate(p)
  <2>1. CASE op' = [op EXCEPT ![p] = Idle] /\ UNCHANGED state
    BY <1>2, <2>1, NewCalls, CallSteady DEF ReplyUpdate
  <2>2. CASE /\ state' = [state EXCEPT ![p] = "UNCLAIMED"]
             /\ op' = [op EXCEPT ![p] = ClaimRequest("beat")]
    <3>1. state'[p] = "UNCLAIMED" /\ op'[p] = ClaimRequest("beat")
      BY <2>2 DEF TypeOK
    <3> QED BY <1>2, <3>1, NewCalls DEF ReplyUpdate, Settled, ClaimUnowned, Owned
  <2> QED BY <1>2, <2>1, <2>2 DEF ReplyUpdate
<1>3. CASE ReplyCreate(p) \/ ReplyGet(p) \/ ReplyRace(p)
  <2>1. UNCHANGED <<log, held, late>>
    BY <1>3 DEF ReplyCreate, ReplyGet, ReplyRace
  <2>2. op[p].fresh => ~Owned(p)
    BY <1>3 DEF ReplyCreate, ReplyGet, ReplyRace, Awaits, ClaimUnowned
  <2>3. CASE \E rev : Finish(p, rev)
    BY <2>1, <2>3, FinishSteady
  <2>4. CASE UNCHANGED state /\ op' = [op EXCEPT ![p] = Idle]
    BY <2>1, <2>4, NewCalls, CallSteady
  <2>5. CASE /\ UNCHANGED state
             /\ \E pc, last, round : op' = [op EXCEPT ![p] = Continue(p, pc, last, round)]
    <3>1. PICK pc, last, round : op' = [op EXCEPT ![p] = Continue(p, pc, last, round)]
      BY <2>5
    <3> DEFINE o == Continue(p, pc, last, round)
    <3>2. ~o.done /\ (o.fresh => ~Owned(p))
      BY <2>2, NewCalls
    <3> HIDE DEF o
    <3>3. op' = [op EXCEPT ![p] = o]
      BY <3>1 DEF o
    <3> QED BY <2>1, <2>5, <3>2, <3>3, CallSteady
  <2>6. CASE ReplyCreate(p)
    BY <2>3, <2>5, <2>6 DEF ReplyCreate
  <2>7. CASE ReplyGet(p)
    BY <2>3, <2>5, <2>7 DEF ReplyGet
  <2>8. CASE ReplyRace(p)
    BY <2>3, <2>4, <2>5, <2>8 DEF ReplyRace, Exhausted
  <2> QED BY <1>3, <2>6, <2>7, <2>8
<1>4. CASE Fail(p)
  BY <1>4, NewCalls, CallSteady DEF Fail, Exhausted
<1>5. CASE ReleaseDone(p) \/ OnDisconnected(p) \/ Crash(p)
  BY <1>5, ResetSteady DEF ReleaseDone, OnDisconnected, Crash
<1>6. CASE Close(p)
  <2>1. CASE Reset(p, Idle)
    BY <1>6, <2>1, ResetSteady DEF Close
  <2>2. CASE /\ op' = [op EXCEPT ![p] = Request("delete", "close", revision[p], 0)]
             /\ UNCHANGED <<state, revision>>
    BY <1>6, <2>2, NewCalls, CallSteady DEF Close
  <2> QED BY <1>6, <2>1, <2>2 DEF Close
<1>7. ASSUME UNCHANGED <<state, op, late>> PROVE Settled(p) /\ ClaimUnowned(p)'
  BY <1>7 DEF Settled, ClaimUnowned, Owned
<1>8. CASE Deliver(p)
  <2>1. UNCHANGED <<log, held, late>> /\ op[p] \in Ops
    BY <1>8 DEF Deliver, TypeOK
  <2>2. CASE Observe(p, watch[p].pos + 1)
    BY <2>1, <2>2, TransitionSteady DEF Observe, Adopt, YieldKey
  <2> QED BY <1>7, <1>8, <2>1, <2>2 DEF Deliver
<1>9. CASE StartReclaim(p)
  <2>1. CASE UNCHANGED op
    BY <1>7, <1>9, <2>1 DEF StartReclaim
  <2>2. CASE ~Owned(p) /\ op' = [op EXCEPT ![p] = ClaimRequest("watch")]
    BY <1>9, <2>2, NewCalls, CallSteady DEF StartReclaim
  <2> QED BY <1>9, <2>1, <2>2 DEF StartReclaim
<1>10. CASE StartExpired(p)
  <2>1. state'[p] # "OWNED" /\ op'[p] = ClaimRequest("watch")
    BY <1>10 DEF StartExpired, Owned, TypeOK
  <2> QED BY <1>10, <2>1, NewCalls DEF StartExpired, Settled, ClaimUnowned, Owned
<1>11. CASE Disconnect(p)
  <2>1. CASE op' = [op EXCEPT ![p] = Idle]
    BY <1>11, <2>1, NewCalls, CallSteady DEF Disconnect
  <2> QED BY <1>7, <1>11, <2>1 DEF Disconnect
<1>12. CASE StartWatch(p) \/ ReplayEnds(p) \/ WatchFails(p) \/ Start(p) \/ Reconnect(p)
  BY <1>7, <1>12 DEF StartWatch, ReplayEnds, WatchFails, Start, Reconnect
<1> QED
  BY <1>1, <1>2, <1>3, <1>4, <1>5, <1>6, <1>8, <1>9, <1>10, <1>11, <1>12
  DEF ProcessStep, ClaimStep, WatchStep, ConnectionStep

\* What one step can do to the bucket.
Unwritten == UNCHANGED <<log, held>>
ExpiresNow == TTLElapsed /\ UNCHANGED log
Appends(x) == log' = Append(log, x) /\ held' = Len(log) + 1

\* A record of another process, or a delete marker, does not make an older write newest.
LEMMA OthersSteady ==
  ASSUME TypeOK, NEW q \in Instances, Steady(q), op[q].result \in Nat,
         state'[q] = state[q], op'[q] = op[q], late'[q] = late[q],
         Unwritten \/ ExpiresNow \/ \E x \in Records \ {q} : Appends(x)
  PROVE  Steady(q)'
<1>1. ClaimUnowned(q)'
  BY DEF Steady, ClaimUnowned, Owned
<1>2. CASE Unwritten
  <2>1. RefreshStands(q)'
    BY <1>2 DEF Unwritten, Steady, RefreshStands, RefreshServed, NewestButDeleted
  <2> QED BY <1>1, <2>1 DEF Steady
<1>3. CASE ExpiresNow
  <2>1. ~RefreshServed(q)
    BY <1>3 DEF ExpiresNow, TTLElapsed, RefreshServed, Writes
  <2>2. RefreshStands(q)'
    BY <2>1 DEF RefreshStands, RefreshServed
  <2> QED BY <1>1, <2>2 DEF Steady
<1>4. ASSUME NEW x \in Records \ {q}, Appends(x), RefreshServed(q)' PROVE RefreshStands(q)'
  <2>1. RefreshServed(q) /\ op'[q].result = op[q].result
    BY <1>4 DEF RefreshServed
  <2>2. /\ Len(log) \in Nat /\ Len(log') = Len(log) + 1
        /\ \A r \in 1..Len(log) : log'[r] = log[r]
        /\ log'[Len(log')] = x
    BY <1>4, Appending DEF Appends, TypeOK
  <2>3. held' # 0 /\ (late'[q].pc \in {"update", "overwrite", "delete"} =>
                        late'[q].last < op'[q].result)
    BY <1>4, <2>1, <2>2 DEF Appends, Steady, RefreshStands
  <2>4. ASSUME NEW later \in (op[q].result + 1)..Len(log'), log'[later] = q
        PROVE  \E gone \in op[q].result..later : log'[gone] = Deleted
    <3>1. later \in (op[q].result + 1)..Len(log) /\ log[later] = q /\ op[q].result \in Nat \ {0}
      BY <1>4, <2>1, <2>2, <2>4 DEF RefreshServed
    <3>2. PICK gone \in op[q].result..later : log[gone] = Deleted
      BY <2>1, <3>1 DEF Steady, RefreshStands, NewestButDeleted
    <3>3. gone \in 1..Len(log)
      BY <2>2, <3>1, <3>2
    <3> QED BY <2>2, <3>2, <3>3
  <2>5. NewestButDeleted(q, op[q].result)'
    BY <2>1, <2>4 DEF NewestButDeleted
  <2> QED BY <2>3, <2>5 DEF RefreshStands
<1>5. RefreshStands(q)'
  BY <1>2, <1>3, <1>4 DEF RefreshStands, Steady, Unwritten, ExpiresNow, RefreshServed
<1> QED BY <1>1, <1>5 DEF Steady

\* The bucket's own steps, and what a served request may append.
LEMMA WriteAppends ==
  ASSUME NEW p \in Instances, NEW request, Write(p, request)
  PROVE  \E x \in {p, Deleted} : Appends(x)
  BY DEF Write, Appends

LEMMA BucketStep ==
  ASSUME TypeOK, [Next]_vars, NEW q \in Instances,
         UNCHANGED vars \/ Expire \/ ExpireAbandoned \/ Clobber
           \/ \E p \in Instances \ {q} : ProcessStep(p)
  PROVE  Unwritten \/ ExpiresNow \/ \E x \in Records \ {q} : Appends(x)
<1>0. Forged \in Records \ {q} /\ Deleted \in Records \ {q}
  BY DEF Records
<1>1. CASE UNCHANGED vars
  BY <1>1 DEF vars, Unwritten
<1>2. CASE Expire \/ ExpireAbandoned
  BY <1>2 DEF Expire, ExpireAbandoned, ExpiresNow
<1>3. CASE Clobber
  BY <1>0, <1>3 DEF Clobber, Appends
<1>4. ASSUME NEW p \in Instances \ {q}, ProcessStep(p)
      PROVE  Unwritten \/ \E x \in Records \ {q} : Appends(x)
  <2>1. p \in Records \ {q}
    BY DEF Records
  <2>2. CASE Serve(p) \/ ServeLate(p)
    BY <1>0, <2>1, <2>2, WriteAppends DEF Serve, ServeLate, Unwritten
  <2>3. CASE ~Serve(p) /\ ~ServeLate(p)
    BY <1>4, <2>3
    DEF ProcessStep, Unwritten, StartPut, ClaimStep, ReplyUpdate, ReplyCreate, ReplyGet,
        ReplyRace, ReleaseDone, Fail, WatchStep, StartWatch, Deliver, ReplayEnds,
        StartReclaim, StartExpired, WatchFails, Start, Disconnect, ConnectionStep,
        OnDisconnected, Reconnect, Close, Crash
  <2> QED BY <2>2, <2>3
<1> QED BY <1>1, <1>2, <1>3, <1>4

\* A refresh just served is the newest record, and nothing given up names it.
LEMMA ServeSteady ==
  ASSUME IInv, NEW p \in Instances, Steady(p), Serve(p)
  PROVE  Steady(p)'
<1> USE DEF IInv
<1>1. op[p] \in Ops /\ ~op[p].done /\ state'[p] = state[p] /\ late'[p] = late[p]
  BY DEF Serve, TypeOK
<1>2. PICK r : /\ op' = [op EXCEPT ![p] = Served(op[p], r)]
               /\ op[p].pc # "get" => r = 0 \/ (Write(p, op[p]) /\ r = Len(log) + 1)
  BY DEF Serve
<1>3. /\ op'[p].pc = op[p].pc /\ op'[p].fresh = op[p].fresh /\ op'[p].result = r
  <2>1. op'[p] = Served(op[p], r)
    BY <1>2 DEF TypeOK
  <2> QED BY <1>1, <2>1 DEF Served, Ops
<1>4. ClaimUnowned(p)'
  BY <1>1, <1>3 DEF Steady, ClaimUnowned, Owned
<1>5. ASSUME RefreshServed(p)' PROVE RefreshStands(p)'
  <2>1. op[p].pc = "update" /\ Write(p, op[p]) /\ r = Len(log) + 1
    BY <1>2, <1>3, <1>5 DEF RefreshServed
  <2>2. log \in Seq(Records) /\ p \in Records /\ Len(log) \in Nat
    BY DEF Records, TypeOK
  <2>3. log' = Append(log, p) /\ held' = Len(log) + 1
    BY <2>1 DEF Write
  <2>4. Len(log') = Len(log) + 1
    BY <2>2, <2>3, Appending
  <2>5. late[p].pc \in {"update", "overwrite", "delete"} => late[p].last \in 1..Len(log)
    BY DEF RequestSound, Mine
  <2>6. late'[p].pc \in {"update", "overwrite", "delete"} => late'[p].last < op'[p].result
    BY <1>1, <1>3, <2>1, <2>2, <2>5
  <2>7. NewestButDeleted(p, op[p].result)'
    BY <1>3, <2>1, <2>2, <2>4 DEF NewestButDeleted
  <2> QED BY <2>2, <2>3, <2>6, <2>7 DEF RefreshStands
<1>6. RefreshStands(p)'
  BY <1>5 DEF RefreshStands, RefreshServed
<1> QED BY <1>4, <1>6 DEF Steady

\* A request given up earlier cannot land above a served refresh, unless the key is deleted:
\* what names a revision names an older one, and a create needs the key to be gone.
LEMMA ServeLateSteady ==
  ASSUME IInv, NEW p \in Instances, Steady(p), ServeLate(p)
  PROVE  Steady(p)'
<1> USE DEF IInv
<1>1. state'[p] = state[p] /\ op'[p] = op[p] /\ late'[p] = NoRequest
  BY DEF ServeLate, TypeOK
<1>2. ClaimUnowned(p)'
  BY <1>1 DEF Steady, ClaimUnowned, Owned
<1>3. ASSUME RefreshServed(p)' PROVE RefreshStands(p)'
  <2> DEFINE r == op[p].result
  <2>1. RefreshServed(p) /\ r \in 1..Len(log)
    BY <1>1, <1>3 DEF RefreshServed, ResultSound
  <2>2. /\ held # 0 /\ NewestButDeleted(p, r)
        /\ late[p].pc \in {"update", "overwrite", "delete"} => late[p].last < r
    BY <2>1 DEF Steady, RefreshStands
  <2>3. Len(log) \in Nat /\ log \in Seq(Records)
    BY DEF TypeOK
  <2>4. CASE Unwritten
    BY <1>1, <2>2, <2>4 DEF Unwritten, RefreshStands, NewestButDeleted, NoRequest
  <2>5. CASE Accepts(late[p]) /\ Write(p, late[p])
    <3>1. late[p].pc \in Writes \union {"none"} /\ late[p].pc # "none"
      BY DEF TypeOK, ServeLate
    <3>2. late[p].pc \in {"create", "recreate"}
      <4>1. CASE late[p].pc \in {"update", "overwrite", "delete"}
        BY <2>1, <2>2, <2>3, <2>5, <4>1 DEF Accepts
      <4> QED BY <3>1, <4>1 DEF Writes
    <3>3. log[Len(log)] = Deleted
      BY <2>2, <2>5, <3>2 DEF Accepts, Live, Last
    <3>4. log' = Append(log, p) /\ held' = Len(log) + 1 /\ p \in Records
      BY <2>5, <3>2 DEF Write, Records
    <3>5. /\ Len(log') = Len(log) + 1
          /\ \A i \in 1..Len(log) : log'[i] = log[i]
      BY <2>3, <3>4, Appending
    <3>6. ASSUME NEW later \in (r + 1)..Len(log'), log'[later] = p
          PROVE  \E gone \in r..later : log'[gone] = Deleted
      <4>1. CASE later = Len(log')
        <5>1. Len(log) \in r..later /\ log'[Len(log)] = Deleted
          BY <2>1, <2>3, <3>3, <3>5, <4>1
        <5> QED BY <5>1
      <4>2. CASE later # Len(log')
        <5>1. later \in (r + 1)..Len(log) /\ log[later] = p
          BY <2>1, <2>3, <3>5, <3>6, <4>2
        <5>2. PICK gone \in r..later : log[gone] = Deleted
          BY <2>2, <5>1 DEF NewestButDeleted
        <5>3. gone \in 1..Len(log)
          BY <2>1, <2>3, <5>1, <5>2
        <5> QED BY <3>5, <5>2, <5>3
      <4> QED BY <4>1, <4>2
    <3>7. NewestButDeleted(p, op[p].result)'
      BY <1>1, <3>6 DEF NewestButDeleted
    <3> QED BY <1>1, <2>3, <3>4, <3>7 DEF RefreshStands, NoRequest
  <2> QED BY <2>4, <2>5 DEF ServeLate, Unwritten
<1>4. RefreshStands(p)'
  BY <1>3 DEF RefreshStands, RefreshServed
<1> QED BY <1>2, <1>4 DEF Steady

LEMMA InitRevision == Init => RevisionInv
<1> SUFFICES ASSUME Init, NEW p \in Instances PROVE ClaimUnowned(p) /\ RefreshStands(p)
  BY InitIInv DEF RevisionInv
<1>1. op[p].pc = "idle"
  BY NewCalls DEF Init
<1> QED BY <1>1 DEF ClaimUnowned, RefreshStands, RefreshServed

LEMMA StepRevision == RevisionInv /\ [Next]_vars => RevisionInv'
<1> SUFFICES ASSUME RevisionInv, [Next]_vars PROVE RevisionInv'
  OBVIOUS
<1>1. IInv /\ IInv' /\ TypeOK
  BY StepIInv DEF RevisionInv, IInv
<1>2. ASSUME NEW q \in Instances PROVE Steady(q)'
  <2>1. Steady(q) /\ op[q].result \in Nat
    BY <1>1 DEF RevisionInv, Steady, TypeOK, Ops
  <2>2. CASE ProcessStep(q)
    <3>1. CASE ~Serve(q) /\ ~ServeLate(q)
      BY <1>1, <2>1, <2>2, <3>1, OwnStepSteady, SettledStands DEF Steady
    <3> QED BY <1>1, <2>1, <3>1, ServeSteady, ServeLateSteady
  <2>3. ASSUME UNCHANGED vars \/ Expire \/ ExpireAbandoned \/ Clobber
                 \/ \E p \in Instances \ {q} : ProcessStep(p)
        PROVE  Steady(q)'
    <3>1. Unwritten \/ ExpiresNow \/ \E x \in Records \ {q} : Appends(x)
      BY <1>1, <2>3, BucketStep
    <3>2. state'[q] = state[q] /\ op'[q] = op[q] /\ late'[q] = late[q]
      <4>1. ASSUME NEW p \in Instances \ {q}, ProcessStep(p)
            PROVE  state'[q] = state[q] /\ op'[q] = op[q] /\ late'[q] = late[q]
        BY <1>1, <4>1, OneProcess
      <4> QED BY <2>3, <4>1 DEF vars, Expire, ExpireAbandoned, Clobber
    <3> QED BY <1>1, <2>1, <3>1, <3>2, OthersSteady
  <2> QED BY <2>2, <2>3 DEF Next, ProcessStep
<1>3. (\A p \in Instances : Steady(p))'
  BY <1>2
<1> QED BY <1>1, <1>3 DEF RevisionInv, Steady

\* What the step may do to the revision of an owner.
NoRegress(p) ==
  Owned(p) /\ Owned(p)' =>
    \/ revision'[p] >= revision[p]
    \/ \E rev \in revision'[p] .. revision[p] : log[rev] = Deleted

LEMMA StepNoRegress ==
  ASSUME RevisionInv, [Next]_vars, NEW q \in Instances
  PROVE  NoRegress(q)
<1>1. IInv /\ TypeOK /\ ClaimUnowned(q) /\ RefreshStands(q) /\ revision[q] \in Nat
  BY DEF RevisionInv, IInv, TypeOK
<1>2. CASE revision'[q] = revision[q]
  BY <1>1, <1>2 DEF NoRegress
<1>3. ASSUME NEW s, NEW rev, NEW o, Transition(q, s, rev, o), s # "OWNED" \/ rev >= revision[q]
      PROVE  NoRegress(q)
  BY <1>1, <1>3 DEF Transition, NoRegress, Owned, TypeOK
<1>4. ASSUME NEW rev, Finish(q, rev), op[q].fresh => ~Owned(q) PROVE NoRegress(q)
  BY <1>2, <1>4 DEF Finish, NoRegress
<1>5. ASSUME NEW o, Reset(q, o) PROVE NoRegress(q)
  BY <1>1, <1>5 DEF Reset, NoRegress, Owned, TypeOK
<1>6. CASE ReplyUpdate(q)
  <2>1. CASE UNCHANGED <<state, revision>>
    BY <1>2, <2>1
  <2>2. CASE op[q].result # 0 /\ revision' = [revision EXCEPT ![q] = op[q].result]
    <3>1. SUFFICES ASSUME Owned(q), revision'[q] < revision[q]
                   PROVE  \E rev \in revision'[q] .. revision[q] : log[rev] = Deleted
      <4>1. revision'[q] \in Nat
        BY <1>1, <2>2 DEF TypeOK, Ops
      <4> QED BY <1>1, <4>1 DEF NoRegress
    <3>2. Mine(q, revision[q])
      BY <1>1, <3>1 DEF IInv, OwnRevision
    <3>3. RefreshServed(q) /\ revision'[q] = op[q].result /\ op[q].result \in Nat
      BY <1>1, <1>6, <2>2 DEF ReplyUpdate, Awaits, RefreshServed, TypeOK, Ops
    <3>4. revision[q] \in (op[q].result + 1)..Len(log) /\ log[revision[q]] = q
      BY <1>1, <3>1, <3>2, <3>3 DEF Mine
    <3>5. NewestButDeleted(q, op[q].result)
      BY <1>1, <3>3 DEF RefreshStands
    <3> QED BY <3>3, <3>4, <3>5 DEF NewestButDeleted
  <2>3. CASE state' = [state EXCEPT ![q] = "UNCLAIMED"]
    BY <1>1, <2>3 DEF NoRegress, Owned, TypeOK
  <2> QED BY <1>6, <2>1, <2>2, <2>3 DEF ReplyUpdate
<1>7. CASE ReplyCreate(q) \/ ReplyGet(q) \/ ReplyRace(q)
  <2>1. op[q].fresh => ~Owned(q)
    BY <1>1, <1>7 DEF ReplyCreate, ReplyGet, ReplyRace, Awaits, ClaimUnowned
  <2> QED BY <1>2, <1>4, <1>7, <2>1 DEF ReplyCreate, ReplyGet, ReplyRace, Exhausted
<1>8. CASE Deliver(q)
  <2> DEFINE rev == watch[q].pos + 1
  <2>1. rev \in Nat /\ Newest(q, rev) >= revision[q]
    BY <1>1 DEF Newest, TypeOK, Watches
  <2>2. CASE Observe(q, rev)
    BY <1>3, <2>1, <2>2 DEF Observe, Adopt, YieldKey
  <2> QED BY <1>2, <1>8, <2>2 DEF Deliver
<1>9. CASE ReleaseDone(q) \/ OnDisconnected(q) \/ Close(q) \/ Crash(q)
  BY <1>2, <1>5, <1>9 DEF ReleaseDone, OnDisconnected, Close, Crash
<1>10. CASE StartExpired(q)
  BY <1>1, <1>10 DEF StartExpired, NoRegress, Owned, TypeOK
<1>11. CASE ProcessStep(q)
  BY <1>2, <1>6, <1>7, <1>8, <1>9, <1>10, <1>11
  DEF ProcessStep, ClaimStep, WatchStep, ConnectionStep, Serve, ServeLate, StartPut, Fail,
      Exhausted, StartWatch, ReplayEnds, StartReclaim, WatchFails, Start, Disconnect, Reconnect
<1>12. ASSUME NEW p \in Instances \ {q}, ProcessStep(p) PROVE NoRegress(q)
  BY <1>1, <1>2, <1>12, OneProcess
<1>13. CASE UNCHANGED vars \/ Expire \/ ExpireAbandoned \/ Clobber
  BY <1>2, <1>13 DEF vars, Expire, ExpireAbandoned, Clobber
<1> QED BY <1>11, <1>12, <1>13 DEF Next, ProcessStep

\* No reply and no watch entry, however old, takes an owner back to a revision it has
\* already replaced; only a deletion of the key can lie between.
THEOREM RevisionNeverRegressesHolds == Spec => RevisionNeverRegresses
<1>1. RevisionInv /\ [Next]_vars =>
        [\A p \in Instances : Owned(p) /\ Owned(p)' =>
           \/ revision'[p] >= revision[p]
           \/ \E rev \in revision'[p] .. revision[p] : log[rev] = Deleted]_vars
  BY StepNoRegress DEF NoRegress
<1> QED BY <1>1, InitRevision, StepRevision, PTL DEF Spec, RevisionNeverRegresses

=============================================================================
