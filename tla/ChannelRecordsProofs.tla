------------------------ MODULE ChannelRecordsProofs ------------------------
(***************************************************************************)
(* What holds of ChannelRecords for any bots, names, keys and bounds.       *)
(***************************************************************************)
EXTENDS ChannelRecords, TLAPS

USE NamesAssumption, BoundsAssumption

-----------------------------------------------------------------------------
(* Revisions *)

\* A revision is below the first one of the next number.
LEMMA NumberBounds ==
  ASSUME NEW rev \in Nat
  PROVE  Number(rev) \in Nat /\ rev < (Number(rev) + 1) * Tags
<1>1. rev \div Tags \in Nat
  BY SMT
<1>2. rev < (rev \div Tags + 1) * Tags
  BY SMT
<1> QED
  BY <1>1, <1>2 DEF Number

\* A minted revision outranks every revision whose number is no greater.
LEMMA HigherNumber ==
  ASSUME NEW rev \in Nat, NEW number \in Nat, number > Number(rev), NEW tag \in 0 .. Tags - 1
  PROVE  Revision(number, tag) \in Nat /\ Revision(number, tag) > rev
<1>1. Number(rev) \in Nat /\ rev < (Number(rev) + 1) * Tags
  BY NumberBounds
<1>2. number * Tags \in Nat /\ number * Tags >= (Number(rev) + 1) * Tags
  BY <1>1, SMT
<1> QED
  BY <1>1, <1>2, SMT DEF Revision

-----------------------------------------------------------------------------
(* Records, puts and their parts *)

LEMMA UnknownRecord == \A n \in Names : Unknown(n) \in Records
  BY DEF Unknown, Record, Records

LEMMA PutType ==
  ASSUME NEW pc \in {"idle", "get", "create", "update", "reply"},
         NEW by \in {"nobody", "task", "retry", "command"}, NEW rec \in Records,
         NEW seen \in Nat, NEW try \in 0..Tries, NEW stored \in Records
  PROVE  Put(pc, by, rec, seen, try, stored) \in Puts
  BY DEF Put, Puts

LEMMA NoPutType == NoPut \in Puts
  BY UnknownRecord, PutType DEF NoPut

LEMMA PutParts ==
  ASSUME NEW put \in Puts
  PROVE  /\ put.pc \in {"idle", "get", "create", "update", "reply"}
         /\ put.by \in {"nobody", "task", "retry", "command"}
         /\ put.rec \in Records /\ put.seen \in Nat /\ put.try \in 0..Tries
         /\ put.stored \in Records
  BY DEF Puts

LEMMA RecordParts ==
  ASSUME NEW rec \in Records
  PROVE  /\ rec.name \in Names /\ rec.rev \in Nat /\ rec.base \in Nat
         /\ rec.key \in Keys \union {NoKey} /\ rec.present \in BOOLEAN
  BY DEF Records

LEMMA AnsweredType ==
  ASSUME NEW put \in Puts, NEW stored \in Records
  PROVE  Answered(put, stored) \in Puts
<1>1. put.by \in {"nobody", "task", "retry", "command"} /\ put.rec.name \in Names
  BY PutParts, RecordParts
<1>2. Unknown(put.rec.name) \in Records
  BY <1>1, UnknownRecord
<1> QED
  BY <1>1, <1>2, PutType DEF Answered

LEMMA SentType ==
  ASSUME NEW put \in Puts, NEW pc \in {"create", "update"}, NEW held \in Nat
  PROVE  Sent(put, pc, held) \in Puts
  BY PutParts, PutType DEF Sent

LEMMA UnderType ==
  ASSUME TypeOK, NEW name, NEW i \in Under(name)
  PROVE  i \in Nat /\ i \in 1..Len(log) /\ log[i] \in Records /\ log[i].name = name
  BY DEF TypeOK, Under

LEMMA TypeInit == Init => TypeOK
  BY UnknownRecord, NoPutType DEF Init, TypeOK, Slots

-----------------------------------------------------------------------------
(* Types *)

\* Applying a record keeps what a bot knows well typed.
LEMMA ApplyType ==
  ASSUME TypeOK, NEW b \in Bots, NEW rec \in Records, Apply(b, rec)
  PROVE  /\ source' \in [Bots -> [Names -> Records]] /\ view' \in [Bots -> Records]
         /\ key' \in [Bots -> Keys \union {NoKey}] /\ joined' \in SUBSET Bots
<1>1. /\ source \in [Bots -> [Names -> Records]] /\ view \in [Bots -> Records]
      /\ key \in [Bots -> Keys \union {NoKey}] /\ joined \in SUBSET Bots
  BY DEF TypeOK
<1>2. rec.name \in Names /\ rec.key \in Keys \union {NoKey}
  BY RecordParts
<1>3. SourceAfter(b, rec) \in [Names -> Records]
  BY <1>1, <1>2 DEF SourceAfter
<1>4. KeyAfter(b, rec) \in Keys \union {NoKey}
  BY <1>1, <1>2 DEF KeyAfter
<1> QED
  BY <1>1, <1>3, <1>4 DEF Apply

\* Minting a record keeps the put and the counter well typed.
LEMMA MintType ==
  ASSUME TypeOK, NEW b \in Bots, NEW slot \in Slots, NEW by \in {"task", "retry", "command"},
         NEW name \in Names, NEW k \in Keys \union {NoKey}, NEW present \in BOOLEAN,
         NEW tag \in 0 .. Tags - 1, Mint(b, slot, by, name, k, present, tag)
  PROVE  io' \in [Bots -> [Slots -> Puts]] /\ lastNumber' \in [Bots -> Nat]
<1>1. view[b] \in Records /\ source[b][name] \in Records /\ lastNumber[b] \in Nat
  BY DEF TypeOK
<1>2. view[b].rev \in Nat /\ source[b][name].rev \in Nat
  BY <1>1, RecordParts
<1>3. NextNumber(b) \in Nat /\ NextNumber(b) > Number(view[b].rev)
  BY <1>1, <1>2, NumberBounds DEF NextNumber, Greater
<1>4. Revision(NextNumber(b), tag) \in Nat
  BY <1>2, <1>3, HigherNumber
<1>5. Record(name, Revision(NextNumber(b), tag), k, present, source[b][name].rev) \in Records
  BY <1>2, <1>4 DEF Record, Records
<1>6. Put("get", by, Record(name, Revision(NextNumber(b), tag), k, present, source[b][name].rev),
          0, 1, Unknown(name)) \in Puts
  BY <1>5, UnknownRecord, PutType
<1> QED
  BY <1>3, <1>6 DEF Mint, TypeOK

LEMMA IoType ==
  ASSUME TypeOK, NEW b \in Bots, NEW slot \in Slots
  PROVE  /\ io[b][slot] \in Puts /\ late[b] \in Puts
         /\ \A put \in Puts : [io EXCEPT ![b][slot] = put] \in [Bots -> [Slots -> Puts]]
  BY DEF TypeOK

LEMMA AbandonType ==
  ASSUME TypeOK, NEW b \in Bots, NEW put \in Puts, Abandon(b, put)
  PROVE  late' \in [Bots -> Puts]
  BY DEF Abandon, TypeOK

LEMMA RaiseType ==
  ASSUME TypeOK, NEW b \in Bots, NEW slot \in Slots, Raise(b, slot)
  PROVE  io' \in [Bots -> [Slots -> Puts]] /\ pendingKeys' \in [Bots -> SUBSET Names]
<1>1. io' \in [Bots -> [Slots -> Puts]]
  BY IoType, NoPutType DEF Raise
<1>2. io[b]["key"].rec.name \in Names
  BY IoType, PutParts, RecordParts DEF Slots
<1> QED
  BY <1>1, <1>2 DEF Raise, TypeOK

LEMMA FaultType == ASSUME TypeOK, Fault PROVE faults' \in 0..MaxFaults
  BY DEF TypeOK, Fault

LEMMA ServeLateType == ASSUME TypeOK, NEW b \in Bots, ServeLate(b) PROVE TypeOK'
<1>1. late[b].rec \in Records
  BY PutParts DEF TypeOK
<1>2. late' \in [Bots -> Puts]
  BY NoPutType DEF TypeOK, ServeLate
<1>3. log' \in Seq(Records)
  BY <1>1 DEF TypeOK, ServeLate
<1> QED
  BY <1>2, <1>3 DEF TypeOK, ServeLate, cache, channel, watch, counts

LEMMA GetType ==
  ASSUME TypeOK, NEW b \in Bots, NEW slot \in Slots, Get(b, slot)
  PROVE  TypeOK'
<1> DEFINE put == io[b][slot]
<1>1. put \in Puts
  BY IoType
<1>2. Sent(put, "create", 0) \in Puts
  BY <1>1, SentType
<1>3. \A held \in Held(put.rec.name) :
        Sent(put, "update", held) \in Puts /\ Answered(put, log[held]) \in Puts
  <2> SUFFICES ASSUME NEW held \in Held(put.rec.name)
               PROVE  Sent(put, "update", held) \in Puts /\ Answered(put, log[held]) \in Puts
    OBVIOUS
  <2>1. held \in Under(put.rec.name)
    BY DEF Held
  <2>2. held \in Nat /\ log[held] \in Records
    BY <2>1, UnderType
  <2> QED
    BY <1>1, <2>2, SentType, AnsweredType
<1>4. \E p \in Puts : io' = [io EXCEPT ![b][slot] = p]
  BY <1>2, <1>3 DEF Get
<1>5. io' \in [Bots -> [Slots -> Puts]]
  BY <1>4, IoType
<1> QED
  BY <1>5 DEF TypeOK, Get, cache, channel, watch, counts

LEMMA WriteType ==
  ASSUME TypeOK, NEW b \in Bots, NEW slot \in Slots, Write(b, slot)
  PROVE  TypeOK'
<1>1. io[b][slot] \in Puts /\ io[b][slot].rec \in Records
  BY IoType, PutParts
<1>2. io' \in [Bots -> [Slots -> Puts]]
  BY <1>1, AnsweredType, IoType DEF Write
<1>3. log' \in Seq(Records)
  BY <1>1 DEF TypeOK, Write
<1> QED
  BY <1>2, <1>3 DEF TypeOK, Write, cache, channel, watch, counts

LEMMA LoseRaceType ==
  ASSUME TypeOK, NEW b \in Bots, NEW slot \in Slots, LoseRace(b, slot)
  PROVE  TypeOK'
<1> DEFINE put == io[b][slot]
<1>1. /\ put \in Puts /\ put.by \in {"nobody", "task", "retry", "command"}
      /\ put.rec \in Records /\ put.try \in 0..Tries
  BY IoType, PutParts
<1>2. Unknown(put.rec.name) \in Records
  BY <1>1, RecordParts, UnknownRecord
<1>3. put.try + 1 \in 0..Tries
  BY <1>1 DEF LoseRace, AttemptsLeft
<1>4. Put("get", put.by, put.rec, 0, put.try + 1, Unknown(put.rec.name)) \in Puts
  BY <1>1, <1>2, <1>3, PutType
<1>5. io' \in [Bots -> [Slots -> Puts]]
  BY <1>4, IoType DEF LoseRace
<1> QED
  BY <1>5 DEF TypeOK, LoseRace, cache, channel, watch, counts

LEMMA ExhaustType ==
  ASSUME TypeOK, NEW b \in Bots, NEW slot \in Slots, Exhaust(b, slot)
  PROVE  TypeOK'
  BY RaiseType DEF TypeOK, Exhaust, cache, channel, watch, counts

LEMMA WriteFailsType ==
  ASSUME TypeOK, NEW b \in Bots, NEW slot \in Slots, WriteFails(b, slot)
  PROVE  TypeOK'
<1>1. late' \in [Bots -> Puts]
  BY IoType, AbandonType DEF WriteFails
<1>2. faults' \in 0..MaxFaults
  BY FaultType DEF WriteFails, TypeOK
<1> QED
  BY <1>1, <1>2, RaiseType DEF TypeOK, WriteFails, cache, channel, watch

LEMMA WrittenType ==
  ASSUME TypeOK, NEW b \in Bots, NEW slot \in Slots, Written(b, slot)
  PROVE  TypeOK'
<1>1. io[b][slot].stored \in Records
  BY IoType, PutParts
<1>2. io' \in [Bots -> [Slots -> Puts]]
  BY IoType, NoPutType DEF Written
<1>3. pendingKeys' \in [Bots -> SUBSET Names]
  BY DEF Written, TypeOK
<1> QED
  BY <1>1, <1>2, <1>3, ApplyType DEF TypeOK, Written, watch, counts

LEMMA CommandType ==
  ASSUME TypeOK, NEW b \in Bots, NEW name \in Names, NEW k \in Keys \union {NoKey},
         NEW present \in BOOLEAN, NEW tag \in 0 .. Tags - 1, Command(b, name, k, present, tag)
  PROVE  TypeOK'
<1>1. (IF present /\ k = NoKey THEN key[b] ELSE k) \in Keys \union {NoKey}
  BY DEF TypeOK
<1>2. io' \in [Bots -> [Slots -> Puts]] /\ lastNumber' \in [Bots -> Nat]
  BY <1>1, MintType DEF Command, Slots
<1>3. commands' \in 0..MaxCommands
  BY DEF Command, TypeOK
<1> QED
  BY <1>2, <1>3 DEF TypeOK, Command, cache, channel, watch

LEMMA WriteKeyType ==
  ASSUME TypeOK, NEW b \in Bots, NEW by \in {"task", "retry"}, NEW name \in Names,
         NEW k \in Keys \union {NoKey}, NEW tag \in 0 .. Tags - 1, WriteKey(b, by, name, k, tag)
  PROVE  /\ io' \in [Bots -> [Slots -> Puts]] /\ lastNumber' \in [Bots -> Nat]
         /\ pendingKeys' \in [Bots -> SUBSET Names]
<1>1. CASE Settled(b, k)
  <2>1. pendingKeys' = [pendingKeys EXCEPT ![b] = @ \ {name}] /\ UNCHANGED <<io, lastNumber>>
    BY <1>1 DEF WriteKey
  <2> QED
    BY <2>1 DEF TypeOK
<1>2. CASE ~Settled(b, k)
  <2>1. Mint(b, "key", by, name, k, TRUE, tag) /\ UNCHANGED pendingKeys
    BY <1>2 DEF WriteKey
  <2>2. QED
    <3>1. "key" \in Slots /\ TRUE \in BOOLEAN /\ by \in {"task", "retry", "command"}
      BY DEF Slots
    <3>2. io' \in [Bots -> [Slots -> Puts]] /\ lastNumber' \in [Bots -> Nat]
      BY <2>1, <3>1, MintType, Zenon
    <3> QED
      BY <2>1, <3>2 DEF TypeOK
<1> QED
  BY <1>1, <1>2

LEMMA RecordKeyType ==
  ASSUME TypeOK, NEW b \in Bots, NEW tag \in 0 .. Tags - 1, RecordKey(b, tag)
  PROVE  TypeOK'
<1>1. tasks[b] \in Seq(Keys \union {NoKey}) /\ tasks[b] # <<>>
  BY DEF RecordKey, TypeOK
<1>2. Head(tasks[b]) \in Keys \union {NoKey} /\ Tail(tasks[b]) \in Seq(Keys \union {NoKey})
  BY <1>1
<1>3. /\ io' \in [Bots -> [Slots -> Puts]] /\ lastNumber' \in [Bots -> Nat]
      /\ pendingKeys' \in [Bots -> SUBSET Names]
  BY <1>2, WriteKeyType DEF RecordKey
<1> QED
  BY <1>2, <1>3 DEF TypeOK, RecordKey, cache, channel, watch, counts

LEMMA RetryKeyType ==
  ASSUME TypeOK, NEW b \in Bots, NEW name \in Names, NEW tag \in 0 .. Tags - 1,
         RetryKey(b, name, tag)
  PROVE  TypeOK'
<1>1. /\ io' \in [Bots -> [Slots -> Puts]] /\ lastNumber' \in [Bots -> Nat]
      /\ pendingKeys' \in [Bots -> SUBSET Names]
  <2>1. CASE b \in joined
    <3>1. key[b] \in Keys \union {NoKey} /\ WriteKey(b, "retry", name, key[b], tag)
      BY <2>1 DEF RetryKey, TypeOK
    <3> QED
      BY <3>1, WriteKeyType
  <2>2. CASE b \notin joined
    <3>1. /\ pendingKeys' = [pendingKeys EXCEPT ![b] = @ \ {name}]
          /\ UNCHANGED <<io, lastNumber>>
      BY <2>2 DEF RetryKey
    <3> QED
      BY <3>1 DEF TypeOK
  <2> QED
    BY <2>1, <2>2
<1> QED
  BY <1>1 DEF TypeOK, RetryKey, cache, channel, watch, counts

LEMMA ModeType == TypeOK => KeyOnIRC \in Keys \union {NoKey}
  BY DEF TypeOK, KeyOnIRC

LEMMA ProcessKeyType ==
  ASSUME TypeOK, NEW b \in Bots, NEW k \in Keys \union {NoKey}, ProcessKey(b, k)
  PROVE  /\ key' \in [Bots -> Keys \union {NoKey}]
         /\ tasks' \in [Bots -> Seq(Keys \union {NoKey})]
  BY DEF ProcessKey, TypeOK

LEMMA IRCType ==
  ASSUME TypeOK, NEW b \in Bots,
         (\E k \in Keys \union {NoKey} : ChangeMode(k)) \/ SeeMode(b) \/ Join(b) \/ Leave(b)
  PROVE  TypeOK'
<1>1. CASE \E k \in Keys \union {NoKey} : ChangeMode(k)
  BY <1>1, SMTT(20) DEF TypeOK, ChangeMode, cache, watch, counts
<1>2. CASE SeeMode(b)
  <2>1. modes[saw[b] + 1] \in Keys \union {NoKey}
    BY <1>2 DEF TypeOK, SeeMode
  <2>2. /\ key' \in [Bots -> Keys \union {NoKey}]
        /\ tasks' \in [Bots -> Seq(Keys \union {NoKey})]
    BY <1>2, <2>1, ProcessKeyType DEF SeeMode
  <2> QED
    <3>1. /\ saw' = [saw EXCEPT ![b] = @ + 1]
          /\ UNCHANGED <<log, source, view, joined, modes, watch, counts, pendingKeys,
                         lastNumber, io, late>>
      BY <1>2 DEF SeeMode
    <3> QED
      BY <2>2, <3>1, SMTT(20) DEF TypeOK, watch, counts
<1>3. CASE Join(b)
  <2>1. /\ key' \in [Bots -> Keys \union {NoKey}]
        /\ tasks' \in [Bots -> Seq(Keys \union {NoKey})]
    BY <1>3, ModeType, ProcessKeyType DEF Join, TypeOK
  <2> QED
    <3>1. /\ joined' = joined \union {b} /\ saw' = [saw EXCEPT ![b] = Len(modes)]
          /\ UNCHANGED <<log, source, view, modes, watch, counts, pendingKeys, lastNumber, io,
                         late>>
      BY <1>3 DEF Join
    <3>2. joined' \in SUBSET Bots /\ saw' \in [Bots -> Nat]
      BY <3>1 DEF TypeOK
    <3>3. /\ source' \in [Bots -> [Names -> Records]] /\ view' \in [Bots -> Records]
          /\ log' \in Seq(Records) /\ modes' \in Seq(Keys \union {NoKey})
          /\ nats' \in SUBSET Bots /\ pos' \in [Bots -> Nat] /\ goal' \in [Bots -> Nat]
      BY <3>1 DEF TypeOK, watch
    <3>4. /\ pendingKeys' \in [Bots -> SUBSET Names] /\ lastNumber' \in [Bots -> Nat]
          /\ io' \in [Bots -> [Slots -> Puts]] /\ late' \in [Bots -> Puts]
          /\ commands' \in 0..MaxCommands /\ faults' \in 0..MaxFaults
      BY <3>1 DEF TypeOK, counts
    <3> QED
      BY <2>1, <3>2, <3>3, <3>4 DEF TypeOK
<1>4. CASE Leave(b)
  BY <1>4, FaultType DEF TypeOK, Leave, cache, watch
<1> QED
  BY <1>1, <1>2, <1>3, <1>4

LEMMA DeliverType == ASSUME TypeOK, NEW b \in Bots, Deliver(b) PROVE TypeOK'
<1>1. PICK i \in (pos[b] + 1) .. Len(log) : Apply(b, log[i]) /\ pos' = [pos EXCEPT ![b] = i]
  BY DEF Deliver
<1>2. i \in Nat /\ i \in 1..Len(log) /\ log[i] \in Records
  BY DEF TypeOK
<1> QED
  BY <1>1, <1>2, ApplyType DEF TypeOK, Deliver, counts

LEMMA ConnectionType ==
  ASSUME TypeOK, NEW b \in Bots, Disconnect(b) \/ Reconnect(b) \/ WatchFails(b)
  PROVE  TypeOK'
<1>1. CASE Disconnect(b)
  BY <1>1, FaultType DEF TypeOK, Disconnect, Unwatch, cache, channel
<1>2. CASE Reconnect(b)
  BY <1>2 DEF TypeOK, Reconnect, Rewatch, cache, channel, counts
<1>3. CASE WatchFails(b)
  <2>1. faults' \in 0..MaxFaults
    BY <1>3, FaultType DEF WatchFails
  <2>2. pos' \in [Bots -> Nat] /\ goal' \in [Bots -> Nat]
    BY <1>3 DEF WatchFails, Rewatch, TypeOK
  <2>3. UNCHANGED <<log, cache, channel, nats, commands, pendingKeys, lastNumber, tasks, io, late>>
    BY <1>3 DEF WatchFails
  <2> QED
    BY <2>1, <2>2, <2>3 DEF TypeOK, cache, channel
<1> QED
  BY <1>1, <1>2, <1>3

LEMMA CrashType == ASSUME TypeOK, NEW b \in Bots, Crash(b) PROVE TypeOK'
<1>1. late' \in [Bots -> Puts]
  BY IoType, AbandonType DEF Crash
<1>2. faults' \in 0..MaxFaults
  BY FaultType DEF Crash
<1>3. /\ source' \in [Bots -> [Names -> Records]] /\ view' \in [Bots -> Records]
      /\ io' \in [Bots -> [Slots -> Puts]]
  BY UnknownRecord, NoPutType DEF Crash, TypeOK
<1>4. /\ key' \in [Bots -> Keys \union {NoKey}] /\ joined' \in SUBSET Bots
      /\ pendingKeys' \in [Bots -> SUBSET Names] /\ lastNumber' \in [Bots -> Nat]
      /\ tasks' \in [Bots -> Seq(Keys \union {NoKey})]
  BY DEF Crash, TypeOK
<1>5. nats' \in SUBSET Bots /\ pos' \in [Bots -> Nat] /\ goal' \in [Bots -> Nat]
  BY DEF Crash, TypeOK, Unwatch
<1> QED
  BY <1>1, <1>2, <1>3, <1>4, <1>5 DEF Crash, TypeOK

LEMMA TypeNext == TypeOK /\ [Next]_vars => TypeOK'
<1> SUFFICES ASSUME TypeOK, [Next]_vars PROVE TypeOK'
  OBVIOUS
<1>1. CASE \E k \in Keys \union {NoKey} : ChangeMode(k)
  <2>1. CASE Bots = {}
    BY <1>1, <2>1 DEF TypeOK, ChangeMode, cache, watch, counts
  <2> QED
    BY <1>1, <2>1, IRCType
<1>2. ASSUME NEW b \in Bots, ServeLate(b) PROVE TypeOK'
  BY <1>2, ServeLateType
<1>3. ASSUME NEW b \in Bots, NEW slot \in Slots, PutStep(b, slot) \/ WriteFails(b, slot)
      PROVE  TypeOK'
  BY <1>3, GetType, WriteType, LoseRaceType, WrittenType, ExhaustType, WriteFailsType
     DEF PutStep
<1>4. ASSUME NEW b \in Bots, NEW name \in Names, NEW k \in Keys \union {NoKey},
             NEW present \in BOOLEAN, NEW tag \in 0 .. Tags - 1,
             Command(b, name, k, present, tag)
      PROVE  TypeOK'
  BY <1>4, CommandType
<1>5. ASSUME NEW b \in Bots, KeyStep(b) PROVE TypeOK'
  BY <1>5, RecordKeyType, RetryKeyType DEF KeyStep
<1>6. ASSUME NEW b \in Bots, SeeMode(b) \/ Join(b) \/ Leave(b) PROVE TypeOK'
  BY <1>6, IRCType
<1>7. ASSUME NEW b \in Bots,
             Deliver(b) \/ Disconnect(b) \/ Reconnect(b) \/ WatchFails(b) \/ Crash(b)
      PROVE  TypeOK'
  BY <1>7, DeliverType, ConnectionType, CrashType
<1>8. CASE UNCHANGED vars
  BY <1>8 DEF TypeOK, vars
<1> QED
  BY <1>1, <1>2, <1>3, <1>4, <1>5, <1>6, <1>7, <1>8 DEF Next

\* Whatever bots, names, keys and bounds: the channel's state stays well typed.
THEOREM TypeCorrect == Spec => []TypeOK
<1>1. Init => TypeOK
  BY TypeInit
<1>2. TypeOK /\ [Next]_vars => TypeOK'
  BY TypeNext
<1> QED
  BY <1>1, <1>2, PTL DEF Spec

-----------------------------------------------------------------------------
(* The log *)

\* A write leaves earlier records alone.
LEMMA LogGrows ==
  ASSUME TypeOK, NEW rec \in Records, log' = Append(log, rec)
  PROVE  /\ Len(log) \in Nat /\ Len(log') = Len(log) + 1 /\ log'[Len(log) + 1] = rec
         /\ \A i \in 1..Len(log) : log'[i] = log[i] /\ log[i] \in Records
         /\ \A name : Under(name) \subseteq Under(name)'
         /\ Under(rec.name)' = Under(rec.name) \union {Len(log) + 1}
<1>1. log \in Seq(Records)
  BY DEF TypeOK
<1>2. /\ Len(log) \in Nat /\ Len(log') = Len(log) + 1 /\ log'[Len(log) + 1] = rec
      /\ \A i \in 1..Len(log) : log'[i] = log[i] /\ log[i] \in Records
  BY <1>1
<1> QED
  BY <1>2 DEF Under

\* A record written after the one it replaces extends the chain.
LEMMA ChainGrows ==
  ASSUME TypeOK, UpdatesChain, NEW rec \in Records, log' = Append(log, rec),
         rec.rev > rec.base,
         \/ Under(rec.name) = {} /\ rec.base = 0
         \/ \E i \in Held(rec.name) : rec.base = log[i].rev
  PROVE  UpdatesChain'
<1>0. PICK n \in Nat : n = Len(log) + 1
  BY LogGrows
<1>1. /\ Len(log) \in Nat /\ n = Len(log) + 1 /\ Len(log') = n /\ log'[n] = rec
      /\ \A i \in 1..Len(log) : log'[i] = log[i] /\ log[i] \in Records
  BY <1>0, LogGrows
<1>2. \A i \in 1..Len(log) : Previous(i)' = Previous(i) /\ \A j \in Previous(i) : log'[j] = log[j]
  BY <1>1 DEF Previous
<1>3. Previous(n)' = Under(rec.name)
  BY <1>1 DEF Previous, Under
<1>4. ASSUME NEW i \in 1..Len(log')
      PROVE  /\ log'[i].rev > log'[i].base
             /\ IF Previous(i)' = {}
                  THEN log'[i].base = 0
                  ELSE \E j \in Previous(i)' :
                         log'[i].base = log'[j].rev /\ \A k \in Previous(i)' : k <= j
  <2>1. CASE i \in 1..Len(log)
    BY <1>1, <1>2, <2>1 DEF UpdatesChain
  <2>2. CASE i = n
    <3>1. CASE Under(rec.name) = {} /\ rec.base = 0
      BY <1>1, <1>3, <2>2, <3>1
    <3>2. CASE \E j \in Held(rec.name) : rec.base = log[j].rev
      <4>1. PICK j \in Held(rec.name) : rec.base = log[j].rev
        BY <3>2
      <4>2. j \in Under(rec.name) /\ \A k \in Under(rec.name) : k <= j
        BY <4>1 DEF Held
      <4>3. j \in 1..Len(log)
        BY <4>2 DEF Under
      <4> QED
        BY <1>1, <1>3, <2>2, <4>1, <4>2, <4>3
    <3> QED
      BY <3>1, <3>2
  <2>3. i \in 1..Len(log) \/ i = n
    BY <1>1
  <2> QED
    BY <2>1, <2>2, <2>3, Zenon
<1> QED
  BY <1>4 DEF UpdatesChain

LogKept == UNCHANGED log \/ \E rec \in Records : log' = Append(log, rec)

LEMMA Kept ==
  ASSUME TypeOK, LogKept
  PROVE  \A name : \A i \in Under(name) : i \in Under(name)' /\ log'[i] = log[i]
<1>1. CASE UNCHANGED log
  BY <1>1 DEF Under
<1>2. ASSUME NEW rec \in Records, log' = Append(log, rec)
      PROVE  \A name : \A i \in Under(name) : i \in Under(name)' /\ log'[i] = log[i]
  BY <1>2, LogGrows DEF Under
<1> QED
  BY <1>1, <1>2 DEF LogKept

LEMMA StoredKept ==
  ASSUME TypeOK, LogKept, NEW rec, Stored(rec)
  PROVE  Stored(rec)'
  BY Kept DEF Stored

-----------------------------------------------------------------------------
(* Puts *)

PutsSound ==
  \A b \in Bots :
    /\ late[b].pc \in {"idle", "create", "update"} /\ PutSound(late[b])
    /\ \A slot \in Slots : PutSound(io[b][slot])

LEMMA NoPutSound == PutSound(NoPut) /\ NoPut.pc = "idle"
  BY DEF PutSound, NoPut, Put

\* What is sound stays so as the log grows.
LEMMA PutKept ==
  ASSUME TypeOK, LogKept, NEW put, PutSound(put)
  PROVE  PutSound(put)'
<1>1. \A i \in Under(put.rec.name) : i \in Under(put.rec.name)' /\ log'[i] = log[i]
  BY Kept
<1>2. put.pc = "reply" => Stored(put.stored)'
  BY StoredKept DEF PutSound
<1> QED
  BY <1>1, <1>2 DEF PutSound

\* A step that replaces puts by sound ones keeps all sound.
LEMMA PutsKept ==
  ASSUME TypeOK, PutsSound, LogKept,
         \A b \in Bots : \A slot \in Slots :
           io'[b][slot] = io[b][slot] \/ \E put : io'[b][slot] = put /\ PutSound(put)',
         \A b \in Bots :
           late'[b] = late[b] \/ late'[b] = NoPut
           \/ \E slot \in Slots : late'[b] = io[b][slot] /\ io[b][slot].pc \in {"create", "update"}
  PROVE  PutsSound'
<1>1. ASSUME NEW b \in Bots, NEW slot \in Slots PROVE PutSound(io[b][slot])'
  <2>1. \E put : io'[b][slot] = put /\ PutSound(put)'
    <3>1. PICK put : put = io[b][slot]
      OBVIOUS
    <3>2. PutSound(put)'
      BY <3>1, PutKept DEF PutsSound
    <3> QED
      BY <3>1, <3>2
  <2>2. PICK put : io'[b][slot] = put /\ PutSound(put)'
    BY <2>1
  <2> QED
    BY <2>2 DEF PutSound, Stored, Under
<1>2. ASSUME NEW b \in Bots
      PROVE  (late[b].pc \in {"idle", "create", "update"} /\ PutSound(late[b]))'
  <2>1. PICK put : /\ put = late'[b] /\ PutSound(put)
                   /\ put.pc \in {"idle", "create", "update"}
    BY NoPutSound DEF PutsSound
  <2>2. PutSound(put)'
    BY <2>1, PutKept
  <2> QED
    BY <2>1, <2>2 DEF PutSound, Stored, Under
<1> QED
  BY <1>1, <1>2 DEF PutsSound

-----------------------------------------------------------------------------
(* What bots know *)

LEMMA ApplySound ==
  ASSUME TypeOK, ViewIsStored, UNCHANGED log, NEW b \in Bots, NEW rec \in Records,
         Stored(rec), Apply(b, rec)
  PROVE  ViewIsStored'
<1>1. /\ rec.name \in Names /\ rec.rev \in Nat
      /\ source \in [Bots -> [Names -> Records]] /\ view \in [Bots -> Records]
  BY RecordParts DEF TypeOK
<1>2. \A n \in Names : source[b][n].rev \in Nat
  BY <1>1, RecordParts
<1>3. view[b].rev \in Nat /\ view[b].name \in Names
  BY <1>1, RecordParts
<1>4. \A c \in Bots : c # b => source'[c] = source[c] /\ view'[c] = view[c]
  BY <1>1 DEF Apply
<1>5. source'[b] = SourceAfter(b, rec) /\ view'[b] = IF Outdates(b, rec) THEN rec ELSE view[b]
  BY <1>1 DEF Apply
<1>6. \A n \in Names : source'[b][n] = IF n = rec.name /\ rec.rev > source[b][n].rev
                                         THEN rec ELSE source[b][n]
  BY <1>1, <1>2, <1>5 DEF SourceAfter
<1>7. \A n : Under(n)' = Under(n)
  BY DEF Under
<1>8. \A n \in Names : source'[b][n].rev # 0 => \E i \in Under(n) : log[i] = source'[b][n]
  BY <1>6 DEF ViewIsStored, Stored
<1>9. \A n \in Names : source'[b][n].rev <= view'[b].rev
  BY <1>1, <1>2, <1>3, <1>5, <1>6 DEF ViewIsStored, Outdates
<1>10. view'[b].rev # 0 => view'[b] = source'[b][view'[b].name]
  BY <1>1, <1>2, <1>3, <1>5, <1>6 DEF ViewIsStored, Outdates
<1> QED
  BY <1>4, <1>7, <1>8, <1>9, <1>10 DEF ViewIsStored

LEMMA ViewKept ==
  ASSUME TypeOK, ViewIsStored, LogKept, UNCHANGED <<source, view>>
  PROVE  ViewIsStored'
  BY Kept DEF ViewIsStored

-----------------------------------------------------------------------------
(* The inductive invariant *)

LEMMA Parts == IInv <=> TypeOK /\ UpdatesChain /\ ViewIsStored /\ PutsSound
  BY DEF IInv, PutsSound

\* The premise of PutsKept for a step that changes one put, or none.
OnePut(b, slot, put) == io' = [io EXCEPT ![b][slot] = put] /\ PutSound(put)'

LEMMA OnePutChanges ==
  ASSUME TypeOK, NEW b \in Bots, NEW slot \in Slots, NEW put, OnePut(b, slot, put)
  PROVE  \A c \in Bots : \A s \in Slots :
           io'[c][s] = io[c][s] \/ \E p : io'[c][s] = p /\ PutSound(p)'
<1>1. io \in [Bots -> [Slots -> Puts]]
  BY DEF TypeOK
<1>2. \A c \in Bots : \A s \in Slots : io'[c][s] = IF c = b /\ s = slot THEN put ELSE io[c][s]
  BY <1>1 DEF OnePut
<1>3. PutSound(put)'
  BY DEF OnePut
<1> QED
  BY <1>2, <1>3

LEMMA InvInit == Init => IInv
<1> SUFFICES ASSUME Init PROVE IInv
  OBVIOUS
<1>1. TypeOK
  BY TypeInit
<1>2. UpdatesChain
  BY DEF Init, UpdatesChain
<1>3. ViewIsStored
  <2>1. \A n : Unknown(n).rev = 0
    BY DEF Unknown, Record
  <2>2. \A b \in Bots : view[b].rev = 0 /\ \A n \in Names : source[b][n].rev = 0
    BY <2>1 DEF Init
  <2>3. ASSUME NEW b \in Bots, NEW n \in Names
        PROVE  /\ source[b][n].rev # 0 => \E i \in Under(n) : log[i] = source[b][n]
               /\ source[b][n].rev <= view[b].rev
    BY <2>2
  <2>4. ASSUME NEW b \in Bots PROVE view[b].rev # 0 => view[b] = source[b][view[b].name]
    BY <2>2
  <2> QED
    BY <2>3, <2>4 DEF ViewIsStored
<1>4. PutsSound
  BY NoPutSound DEF Init, PutsSound
<1> QED
  BY <1>1, <1>2, <1>3, <1>4, Parts

\* A write the bucket accepts comes after the record it replaces.
LEMMA AcceptedChain ==
  ASSUME TypeOK, UpdatesChain, NEW put \in Puts, PutSound(put),
         put.pc \in {"create", "update"}, Accepts(put), log' = Append(log, put.rec)
  PROVE  UpdatesChain' /\ LogKept
<1>1. PICK rec \in Records : rec = put.rec
  BY PutParts
<1>2. rec.rev > rec.base /\ log' = Append(log, rec)
  BY <1>1 DEF PutSound
<1>3. ASSUME put.pc = "create" PROVE UpdatesChain'
  <2>1. Under(rec.name) = {} /\ rec.base = 0
    BY <1>1, <1>3 DEF PutSound, Accepts
  <2> QED
    BY <1>2, <2>1, ChainGrows
<1>4. ASSUME put.pc = "update" PROVE UpdatesChain'
  <2>1. \E i \in Held(rec.name) : rec.base = log[i].rev
    BY <1>1, <1>4 DEF PutSound, Accepts
  <2> QED
    BY <1>2, <2>1, ChainGrows
<1>5. LogKept
  BY <1>2 DEF LogKept
<1> QED
  BY <1>3, <1>4, <1>5

LEMMA ChainKept == ASSUME UpdatesChain, UNCHANGED log PROVE UpdatesChain' /\ LogKept
  BY DEF UpdatesChain, Previous, LogKept

LEMMA ServeLateInv == ASSUME IInv, NEW b \in Bots, ServeLate(b) PROVE IInv'
<1>0. TypeOK /\ UpdatesChain /\ ViewIsStored /\ PutsSound /\ late[b] \in Puts
  BY Parts DEF TypeOK
<1>1. UpdatesChain' /\ LogKept
  <2>1. CASE Accepts(late[b])
    <3>1. log' = Append(log, late[b].rec) /\ late[b].pc \in {"create", "update"}
      BY <1>0, <2>1 DEF ServeLate, PutsSound
    <3> QED
      BY <1>0, <2>1, <3>1, AcceptedChain DEF PutsSound
  <2>2. CASE ~Accepts(late[b])
    BY <1>0, <2>2, ChainKept DEF ServeLate
  <2> QED
    BY <2>1, <2>2
<1>2. ViewIsStored'
  BY <1>0, <1>1, ViewKept DEF ServeLate, cache
<1>3. PutsSound'
  <2>1. \A c \in Bots : late'[c] = late[c] \/ late'[c] = NoPut
    BY <1>0 DEF ServeLate, TypeOK
  <2>2. UNCHANGED io
    BY DEF ServeLate
  <2> QED
    BY <1>0, <1>1, <2>1, <2>2, PutsKept
<1> QED
  BY <1>0, <1>1, <1>2, <1>3, ServeLateType DEF IInv, PutsSound

LEMMA GetInv ==
  ASSUME IInv, NEW b \in Bots, NEW slot \in Slots, Get(b, slot)
  PROVE  IInv'
<1>0. TypeOK /\ UpdatesChain /\ ViewIsStored /\ PutsSound
  BY Parts
<1>1. PICK put : put = io[b][slot]
  OBVIOUS
<1>2. put \in Puts /\ put.pc = "get" /\ PutSound(put) /\ UNCHANGED <<log, source, view, late>>
  BY <1>0, <1>1, IoType DEF Get, PutsSound, cache
<1>3. UpdatesChain' /\ LogKept
  BY <1>0, <1>2, ChainKept
<1>4. \E p : io' = [io EXCEPT ![b][slot] = p] /\ PutSound(p)
  <2>1. CASE Under(put.rec.name) = {} /\ io' = [io EXCEPT ![b][slot] = Sent(put, "create", 0)]
    <3>1. PutSound(Sent(put, "create", 0))
      BY <1>2, <2>1 DEF PutSound, Sent, Put
    <3> QED
      BY <2>1, <3>1
  <2>2. ASSUME NEW held \in Held(put.rec.name),
               io' = [io EXCEPT ![b][slot] =
                 IF Expected(put, log[held]) THEN Sent(put, "update", held)
                                             ELSE Answered(put, log[held])]
        PROVE  \E p : io' = [io EXCEPT ![b][slot] = p] /\ PutSound(p)
    <3>1. held \in Under(put.rec.name)
      BY DEF Held
    <3>2. Stored(log[held])
      BY <1>0, <3>1, UnderType DEF Stored
    <3>3. Expected(put, log[held]) => PutSound(Sent(put, "update", held))
      BY <1>2, <3>1 DEF PutSound, Sent, Put, Expected
    <3>4. PutSound(Answered(put, log[held]))
      BY <3>2 DEF PutSound, Answered, Put
    <3> QED
      BY <2>2, <3>3, <3>4
  <2> QED
    BY <1>1, <2>1, <2>2 DEF Get
<1>5. PICK p : io' = [io EXCEPT ![b][slot] = p] /\ PutSound(p)
  BY <1>4
<1>6. OnePut(b, slot, p)
  BY <1>0, <1>3, <1>5, PutKept DEF OnePut
<1>7. PutsSound'
  BY <1>0, <1>2, <1>3, <1>6, OnePutChanges, PutsKept
<1>8. ViewIsStored'
  BY <1>0, <1>2, <1>3, ViewKept
<1> QED
  BY <1>0, <1>3, <1>7, <1>8, GetType DEF IInv, PutsSound

\* A step that changes nothing but one put, which stays sound, or not even that.
LEMMA PutOnly ==
  ASSUME IInv, TypeOK', UNCHANGED <<log, source, view, late>>,
         \/ UNCHANGED io
         \/ \E b \in Bots : \E slot \in Slots : \E put :
              io' = [io EXCEPT ![b][slot] = put] /\ PutSound(put)
  PROVE  IInv'
<1>0. TypeOK /\ UpdatesChain /\ ViewIsStored /\ PutsSound
  BY Parts
<1>1. UpdatesChain' /\ LogKept
  BY <1>0, ChainKept
<1>2. ViewIsStored'
  BY <1>0, <1>1, ViewKept
<1>3. CASE UNCHANGED io
  <2>1. PutsSound'
    BY <1>0, <1>1, <1>3, PutsKept
  <2> QED
    BY <1>1, <1>2, <2>1 DEF IInv, PutsSound
<1>4. ASSUME NEW b \in Bots, NEW slot \in Slots, NEW put,
             io' = [io EXCEPT ![b][slot] = put], PutSound(put)
      PROVE  IInv'
  <2>1. OnePut(b, slot, put)
    BY <1>0, <1>1, <1>4, PutKept DEF OnePut
  <2>2. PutsSound'
    BY <1>0, <1>1, <2>1, OnePutChanges, PutsKept
  <2> QED
    BY <1>1, <1>2, <2>2 DEF IInv, PutsSound
<1> QED
  BY <1>3, <1>4

LEMMA WriteInv ==
  ASSUME IInv, NEW b \in Bots, NEW slot \in Slots, Write(b, slot)
  PROVE  IInv'
<1>0. TypeOK /\ UpdatesChain /\ ViewIsStored /\ PutsSound
  BY Parts
<1>1. PICK put : put = io[b][slot]
  OBVIOUS
<1>2. /\ put \in Puts /\ put.rec \in Records /\ PutSound(put)
      /\ put.pc \in {"create", "update"} /\ Accepts(put)
  BY <1>0, <1>1, IoType, PutParts DEF Write, Writing, PutsSound
<1>3. /\ log' = Append(log, put.rec) /\ UNCHANGED <<source, view, late>>
      /\ io' = [io EXCEPT ![b][slot] = Answered(put, put.rec)]
  BY <1>1 DEF Write, cache
<1>4. UpdatesChain' /\ LogKept
  BY <1>0, <1>2, <1>3, AcceptedChain
<1>5. ViewIsStored'
  BY <1>0, <1>3, <1>4, ViewKept
<1>6. Stored(put.rec)'
  <2>1. PICK n \in Nat : n = Len(log) + 1
    BY <1>0, <1>2, <1>3, LogGrows
  <2>2. log'[n] = put.rec /\ n \in 1..Len(log')
    BY <1>0, <1>2, <1>3, <2>1, LogGrows
  <2> QED
    BY <2>2 DEF Stored, Under
<1>7. PICK p : p = Answered(put, put.rec)
  OBVIOUS
<1>8. p.pc = "reply" /\ p.stored = put.rec
  BY <1>7 DEF Answered, Put
<1>9. PutSound(p)'
  BY <1>6, <1>8 DEF PutSound, Stored, Under
<1>10. OnePut(b, slot, p)
  BY <1>3, <1>7, <1>9 DEF OnePut
<1>11. PutsSound'
  BY <1>0, <1>3, <1>4, <1>10, OnePutChanges, PutsKept
<1> QED
  BY <1>0, <1>4, <1>5, <1>11, WriteType DEF IInv, PutsSound

LEMMA LoseRaceInv ==
  ASSUME IInv, NEW b \in Bots, NEW slot \in Slots, LoseRace(b, slot)
  PROVE  IInv'
<1>0. TypeOK /\ PutsSound
  BY Parts
<1>1. PICK put : put = io[b][slot]
  OBVIOUS
<1>2. /\ put \in Puts /\ put.rec \in Records /\ PutSound(put)
      /\ put.pc \in {"create", "update"} /\ ~Accepts(put)
  BY <1>0, <1>1, IoType, PutParts DEF LoseRace, Writing, PutsSound
<1>3. PICK p : p = Put("get", put.by, put.rec, 0, put.try + 1, Unknown(put.rec.name))
  OBVIOUS
<1>4. io' = [io EXCEPT ![b][slot] = p] /\ UNCHANGED <<log, source, view, late>>
  BY <1>1, <1>3 DEF LoseRace, cache
<1>5. p.pc = "get" /\ p.rec = put.rec
  BY <1>3 DEF Put
<1>6. PutSound(p)
  <2>1. CASE put.pc = "create"
    BY <1>2, <1>5, <2>1 DEF PutSound
  <2>2. CASE put.pc = "update"
    BY <1>2, <1>5, <2>2 DEF PutSound
  <2> QED
    BY <1>2, <2>1, <2>2
<1> QED
  BY <1>0, <1>4, <1>6, LoseRaceType, PutOnly

\* An abandoned put becomes late only if it was sent.
LEMMA Abandoned ==
  ASSUME TypeOK, NEW b \in Bots, NEW slot \in Slots, UNCHANGED late \/ Abandon(b, io[b][slot])
  PROVE  \A c \in Bots :
           \/ late'[c] = late[c]
           \/ \E s \in Slots : late'[c] = io[c][s] /\ io[c][s].pc \in {"create", "update"}
<1>1. late \in [Bots -> Puts]
  BY DEF TypeOK
<1>2. UNCHANGED late \/ (late' = [late EXCEPT ![b] = io[b][slot]]
                          /\ io[b][slot].pc \in {"create", "update"})
  BY DEF Abandon
<1>3. CASE UNCHANGED late
  BY <1>3
<1>4. CASE late' = [late EXCEPT ![b] = io[b][slot]] /\ io[b][slot].pc \in {"create", "update"}
  <2>1. \A c \in Bots : late'[c] = IF c = b THEN io[b][slot] ELSE late[c]
    BY <1>1, <1>4
  <2> QED
    BY <1>4, <2>1
<1> QED
  BY <1>2, <1>3, <1>4

\* A put that is given up may leave its write behind.
LEMMA GivenUp ==
  ASSUME IInv, TypeOK', UNCHANGED <<log, source, view>>, NEW b \in Bots, NEW slot \in Slots,
         io' = [io EXCEPT ![b][slot] = NoPut],
         UNCHANGED late \/ Abandon(b, io[b][slot])
  PROVE  IInv'
<1>0. TypeOK /\ UpdatesChain /\ ViewIsStored /\ PutsSound
  BY Parts
<1>1. UpdatesChain' /\ LogKept
  BY <1>0, ChainKept
<1>2. ViewIsStored'
  BY <1>0, <1>1, ViewKept
<1>3. OnePut(b, slot, NoPut)
  <2>1. NoPut.pc = "idle"
    BY NoPutSound
  <2> QED
    BY <2>1 DEF OnePut, PutSound, NoPut, Unknown, Put
<1>4. \A c \in Bots :
        \/ late'[c] = late[c]
        \/ \E s \in Slots : late'[c] = io[c][s] /\ io[c][s].pc \in {"create", "update"}
  BY <1>0, Abandoned
<1>5. PutsSound'
  BY <1>0, <1>1, <1>3, <1>4, OnePutChanges, PutsKept
<1> QED
  BY <1>1, <1>2, <1>5 DEF IInv, PutsSound

LEMMA ExhaustInv ==
  ASSUME IInv, NEW b \in Bots, NEW slot \in Slots, Exhaust(b, slot)
  PROVE  IInv'
<1>1. TypeOK
  BY Parts
<1>2. TypeOK'
  BY <1>1, ExhaustType
<1> QED
  BY <1>2, GivenUp DEF Exhaust, Raise, cache

LEMMA WriteFailsInv ==
  ASSUME IInv, NEW b \in Bots, NEW slot \in Slots, WriteFails(b, slot)
  PROVE  IInv'
<1>1. TypeOK
  BY Parts
<1>2. TypeOK'
  BY <1>1, WriteFailsType
<1> QED
  BY <1>2, GivenUp DEF WriteFails, Raise, cache

\* A step that applies stored records to what a bot knows.
LEMMA Applied ==
  ASSUME IInv, TypeOK', UNCHANGED <<log, late>>, NEW b \in Bots, NEW rec \in Records,
         Stored(rec), Apply(b, rec),
         UNCHANGED io \/ \E slot \in Slots : io' = [io EXCEPT ![b][slot] = NoPut]
  PROVE  IInv'
<1>0. TypeOK /\ UpdatesChain /\ ViewIsStored /\ PutsSound
  BY Parts
<1>1. UpdatesChain' /\ LogKept
  BY <1>0, ChainKept
<1>2. ViewIsStored'
  BY <1>0, ApplySound
<1>3. PutsSound'
  <2>1. CASE UNCHANGED io
    BY <1>0, <1>1, <2>1, PutsKept
  <2>2. ASSUME NEW slot \in Slots, io' = [io EXCEPT ![b][slot] = NoPut]
        PROVE  PutsSound'
    <3>1. NoPut.pc = "idle"
      BY NoPutSound
    <3>2. OnePut(b, slot, NoPut)
      BY <2>2, <3>1 DEF OnePut, PutSound, NoPut, Unknown, Put
    <3> QED
      BY <1>0, <1>1, <3>2, OnePutChanges, PutsKept
  <2> QED
    BY <2>1, <2>2
<1> QED
  BY <1>1, <1>2, <1>3 DEF IInv, PutsSound

LEMMA WrittenInv ==
  ASSUME IInv, NEW b \in Bots, NEW slot \in Slots, Written(b, slot)
  PROVE  IInv'
<1>1. TypeOK /\ PutsSound
  BY Parts
<1>2. TypeOK'
  BY <1>1, WrittenType
<1>3. PICK put : put = io[b][slot]
  OBVIOUS
<1>4. put \in Puts /\ PutSound(put) /\ put.pc = "reply"
  BY <1>1, <1>3, IoType DEF Written, PutsSound
<1>5. put.stored \in Records /\ Stored(put.stored)
  BY <1>4, PutParts DEF PutSound
<1> QED
  BY <1>2, <1>3, <1>5, Applied DEF Written

LEMMA DeliverInv == ASSUME IInv, NEW b \in Bots, Deliver(b) PROVE IInv'
<1>1. TypeOK
  BY Parts
<1>2. TypeOK'
  BY <1>1, DeliverType
<1>3. PICK i \in (pos[b] + 1) .. Len(log) : Apply(b, log[i])
  BY DEF Deliver
<1>4. i \in 1..Len(log) /\ log[i] \in Records
  BY <1>1 DEF TypeOK
<1>5. Stored(log[i])
  BY <1>4 DEF Stored, Under
<1> QED
  BY <1>2, <1>3, <1>4, <1>5, Applied DEF Deliver

-----------------------------------------------------------------------------
(* New puts *)

\* A minted record outranks the one it is written after.
LEMMA MintSound ==
  ASSUME TypeOK, ViewIsStored, NEW b \in Bots, NEW slot \in Slots,
         NEW by \in {"task", "retry", "command"}, NEW name \in Names, NEW k,
         NEW present, NEW tag \in 0 .. Tags - 1, Mint(b, slot, by, name, k, present, tag)
  PROVE  \E put : io' = [io EXCEPT ![b][slot] = put] /\ PutSound(put)
<1>1. view[b] \in Records /\ source[b][name] \in Records /\ lastNumber[b] \in Nat
  BY DEF TypeOK
<1>2. view[b].rev \in Nat /\ source[b][name].rev \in Nat
  BY <1>1, RecordParts
<1>3. NextNumber(b) \in Nat /\ NextNumber(b) > Number(view[b].rev)
  BY <1>1, <1>2, NumberBounds DEF NextNumber, Greater
<1>4. PICK rev \in Nat : rev = Revision(NextNumber(b), tag) /\ rev > view[b].rev
  BY <1>2, <1>3, HigherNumber
<1>5. PICK base \in Nat : base = source[b][name].rev
  BY <1>2
<1>6. base <= view[b].rev /\ (base # 0 => Under(name) # {})
  BY <1>5 DEF ViewIsStored
<1>7. rev > base
  BY <1>2, <1>4, <1>6
<1>8. PICK put : put = Put("get", by, Record(name, rev, k, present, base), 0, 1, Unknown(name))
  OBVIOUS
<1>9. put.pc = "get" /\ put.rec.rev = rev /\ put.rec.base = base /\ put.rec.name = name
  BY <1>8 DEF Put, Record
<1>10. PutSound(put)
  BY <1>6, <1>7, <1>9 DEF PutSound
<1>11. io' = [io EXCEPT ![b][slot] = put]
  BY <1>4, <1>5, <1>8 DEF Mint
<1> QED
  BY <1>10, <1>11

LEMMA CommandInv ==
  ASSUME IInv, NEW b \in Bots, NEW name \in Names, NEW k \in Keys \union {NoKey},
         NEW present \in BOOLEAN, NEW tag \in 0 .. Tags - 1, Command(b, name, k, present, tag)
  PROVE  IInv'
<1>1. TypeOK /\ ViewIsStored
  BY Parts
<1>2. TypeOK'
  BY <1>1, CommandType
<1>3. PICK kept : kept = IF present /\ k = NoKey THEN key[b] ELSE k
  OBVIOUS
<1>4. /\ Mint(b, "command", "command", name, kept, present, tag)
      /\ UNCHANGED <<log, source, view, late>>
  BY <1>3 DEF Command, cache
<1>5. \E put : io' = [io EXCEPT ![b]["command"] = put] /\ PutSound(put)
  <2>1. "command" \in Slots /\ "command" \in {"task", "retry", "command"}
    BY DEF Slots
  <2> QED
    BY <1>1, <1>4, <2>1, MintSound, Zenon
<1> QED
  BY <1>2, <1>4, <1>5, PutOnly DEF Slots

LEMMA WriteKeySound ==
  ASSUME IInv, NEW b \in Bots, NEW by \in {"task", "retry"}, NEW name \in Names,
         NEW k, NEW tag \in 0 .. Tags - 1, WriteKey(b, by, name, k, tag)
  PROVE  UNCHANGED io \/ \E put : io' = [io EXCEPT ![b]["key"] = put] /\ PutSound(put)
<1>1. TypeOK /\ ViewIsStored
  BY Parts
<1>2. CASE Settled(b, k)
  BY <1>2 DEF WriteKey
<1>3. CASE ~Settled(b, k)
  <2>1. Mint(b, "key", by, name, k, TRUE, tag)
    BY <1>3 DEF WriteKey
  <2>2. "key" \in Slots /\ by \in {"task", "retry", "command"}
    BY DEF Slots
  <2> QED
    BY <1>1, <2>1, <2>2, MintSound, Zenon
<1> QED
  BY <1>2, <1>3

LEMMA RecordKeyInv ==
  ASSUME IInv, NEW b \in Bots, NEW tag \in 0 .. Tags - 1, RecordKey(b, tag)
  PROVE  IInv'
<1>1. TypeOK'
  BY Parts, RecordKeyType
<1>2. /\ WriteKey(b, "task", IrcName, Head(tasks[b]), tag)
      /\ UNCHANGED <<log, source, view, late>>
  BY DEF RecordKey, cache
<1>3. UNCHANGED io \/ \E put : io' = [io EXCEPT ![b]["key"] = put] /\ PutSound(put)
  BY <1>2, WriteKeySound
<1> QED
  BY <1>1, <1>2, <1>3, PutOnly DEF Slots

LEMMA RetryKeyInv ==
  ASSUME IInv, NEW b \in Bots, NEW name \in Names, NEW tag \in 0 .. Tags - 1,
         RetryKey(b, name, tag)
  PROVE  IInv'
<1>1. TypeOK'
  BY Parts, RetryKeyType
<1>2. /\ UNCHANGED io \/ WriteKey(b, "retry", name, key[b], tag)
      /\ UNCHANGED <<log, source, view, late>>
  BY DEF RetryKey, cache
<1>3. UNCHANGED io \/ \E put : io' = [io EXCEPT ![b]["key"] = put] /\ PutSound(put)
  BY <1>2, WriteKeySound
<1> QED
  BY <1>1, <1>2, <1>3, PutOnly DEF Slots

-----------------------------------------------------------------------------
(* IRC, connections, crashes *)

\* IRC and the connection touch neither records nor puts.
LEMMA ElsewhereInv ==
  ASSUME IInv, TypeOK',
         \/ \E k \in Keys \union {NoKey} : ChangeMode(k)
         \/ \E b \in Bots : \/ SeeMode(b) \/ Join(b) \/ Leave(b)
                             \/ Disconnect(b) \/ Reconnect(b) \/ WatchFails(b)
  PROVE  IInv'
<1>1. UNCHANGED <<log, source, view, late, io>>
  BY DEF ChangeMode, SeeMode, Join, Leave, Disconnect, Reconnect, WatchFails, cache
<1> QED
  BY <1>1, PutOnly

LEMMA CrashInv == ASSUME IInv, NEW b \in Bots, Crash(b) PROVE IInv'
<1>0. TypeOK /\ UpdatesChain /\ ViewIsStored /\ PutsSound
  BY Parts
<1>1. TypeOK'
  BY <1>0, CrashType
<1>2. UNCHANGED log
  BY DEF Crash
<1>3. UpdatesChain' /\ LogKept
  BY <1>0, <1>2, ChainKept
<1>4. ViewIsStored'
  <2>1. /\ source' = [source EXCEPT ![b] = [n \in Names |-> Unknown(n)]]
        /\ view' = [view EXCEPT ![b] = Unknown(IrcName)]
    BY DEF Crash
  <2>2. \A n : Unknown(n).rev = 0
    BY DEF Unknown, Record
  <2>3. view'[b].rev = 0 /\ \A n \in Names : source'[b][n].rev = 0
    BY <1>0, <2>1, <2>2 DEF TypeOK
  <2>4. \A c \in Bots : c # b => source'[c] = source[c] /\ view'[c] = view[c]
    BY <1>0, <2>1 DEF TypeOK
  <2>5. \A n : Under(n)' = Under(n)
    BY <1>2 DEF Under
  <2>6. ASSUME NEW c \in Bots, NEW n \in Names
        PROVE  /\ source'[c][n].rev # 0 => \E i \in Under(n)' : log'[i] = source'[c][n]
               /\ source'[c][n].rev <= view'[c].rev
    BY <1>0, <1>2, <2>3, <2>4, <2>5 DEF ViewIsStored
  <2>7. ASSUME NEW c \in Bots
        PROVE  view'[c].rev # 0 => view'[c] = source'[c][view'[c].name]
    BY <1>0, <2>3, <2>4 DEF ViewIsStored
  <2> QED
    BY <2>6, <2>7 DEF ViewIsStored
<1>5. PutsSound'
  <2>1. \A c \in Bots :
          \/ late'[c] = late[c]
          \/ \E s \in Slots : late'[c] = io[c][s] /\ io[c][s].pc \in {"create", "update"}
    BY <1>0, Abandoned DEF Crash
  <2>2. PutSound(NoPut)'
    BY NoPutSound DEF PutSound, NoPut, Unknown, Put
  <2>3. \A c \in Bots : \A s \in Slots : io'[c][s] = io[c][s] \/ io'[c][s] = NoPut
    BY <1>0 DEF Crash, TypeOK
  <2>4. \A c \in Bots : \A s \in Slots :
          io'[c][s] = io[c][s] \/ \E put : io'[c][s] = put /\ PutSound(put)'
    BY <2>2, <2>3
  <2> QED
    BY <1>0, <1>3, <2>1, <2>4, PutsKept
<1> QED
  BY <1>1, <1>3, <1>4, <1>5 DEF IInv, PutsSound

LEMMA InvNext == IInv /\ [Next]_vars => IInv'
<1> SUFFICES ASSUME IInv, [Next]_vars PROVE IInv'
  OBVIOUS
<1>0. TypeOK'
  BY Parts, TypeNext
<1>1. ASSUME NEW b \in Bots, ServeLate(b) PROVE IInv'
  BY <1>1, ServeLateInv
<1>2. ASSUME NEW b \in Bots, NEW slot \in Slots, PutStep(b, slot) \/ WriteFails(b, slot)
      PROVE  IInv'
  BY <1>2, GetInv, WriteInv, LoseRaceInv, WrittenInv, ExhaustInv, WriteFailsInv DEF PutStep
<1>3. ASSUME NEW b \in Bots, NEW name \in Names, NEW k \in Keys \union {NoKey},
             NEW present \in BOOLEAN, NEW tag \in 0 .. Tags - 1,
             Command(b, name, k, present, tag)
      PROVE  IInv'
  BY <1>3, CommandInv
<1>4. ASSUME NEW b \in Bots, KeyStep(b) PROVE IInv'
  BY <1>4, RecordKeyInv, RetryKeyInv DEF KeyStep
<1>5. CASE \E k \in Keys \union {NoKey} : ChangeMode(k)
  BY <1>0, <1>5, ElsewhereInv
<1>6. ASSUME NEW b \in Bots, \/ SeeMode(b) \/ Join(b) \/ Leave(b)
                             \/ Disconnect(b) \/ Reconnect(b) \/ WatchFails(b)
      PROVE  IInv'
  BY <1>0, <1>6, ElsewhereInv
<1>7. ASSUME NEW b \in Bots, Deliver(b) \/ Crash(b) PROVE IInv'
  BY <1>7, DeliverInv, CrashInv
<1>8. CASE UNCHANGED vars
  <2>1. UNCHANGED <<log, source, view, late, io>>
    BY <1>8 DEF vars
  <2> QED
    BY <1>0, <2>1, PutOnly
<1> QED
  BY <1>1, <1>2, <1>3, <1>4, <1>5, <1>6, <1>7, <1>8 DEF Next

\* Whatever bots, names, bounds and faults: the invariant is kept by every step.
THEOREM Invariance == Spec => []IInv
<1>1. Init => IInv
  BY InvInit
<1>2. IInv /\ [Next]_vars => IInv'
  BY InvNext
<1> QED
  BY <1>1, <1>2, PTL DEF Spec

\* No update is lost unseen: a stored record was written after the one it replaces and
\* outranks it, for any number of bots, whatever races, fails, lingers or restarts.
THEOREM ChainHolds == Spec => []UpdatesChain
<1>1. IInv => UpdatesChain
  BY DEF IInv
<1> QED
  BY <1>1, Invariance, PTL

\* What a bot acts on was stored, and is the newest record it knows under any name.
THEOREM ViewHolds == Spec => []ViewIsStored
<1>1. IInv => ViewIsStored
  BY DEF IInv
<1> QED
  BY <1>1, Invariance, PTL

-----------------------------------------------------------------------------
(* The register *)

\* Revisions under a name rise with every write, not only over the last one.
Rising ==
  \A i, j \in 1..Len(log) : log[i].name = log[j].name /\ i < j => log[i].rev < log[j].rev

RegisterInv == IInv /\ Rising

Past == [n \in Names |-> {log[i] : i \in Under(n)}]

RegisterStep == [Register!RegisterNext]_(Register!registerVars)

\* A write the bucket accepts outranks every record under its name.
LEMMA AcceptedOutranks ==
  ASSUME TypeOK, Rising, NEW put \in Puts, PutSound(put),
         put.pc \in {"create", "update"}, Accepts(put)
  PROVE  \A i \in Under(put.rec.name) : log[i].rev < put.rec.rev
<1>1. put.rec.rev > put.rec.base /\ put.rec.rev \in Nat /\ put.rec.base \in Nat
  BY PutParts, RecordParts DEF PutSound
<1>2. CASE put.pc = "create"
  BY <1>2 DEF Accepts
<1>3. CASE put.pc = "update"
  <2> SUFFICES ASSUME NEW i \in Under(put.rec.name) PROVE log[i].rev < put.rec.rev
    OBVIOUS
  <2>1. put.seen \in Under(put.rec.name) /\ i <= put.seen
    BY <1>3 DEF Accepts, Held
  <2>2. log[put.seen].rev = put.rec.base
    BY <1>3 DEF PutSound
  <2>3. /\ i \in 1..Len(log) /\ put.seen \in 1..Len(log)
        /\ log[i].name = log[put.seen].name
        /\ log[i].rev \in Nat /\ log[put.seen].rev \in Nat
    BY <2>1, UnderType, RecordParts
  <2>4. log[i].rev <= log[put.seen].rev
    BY <2>1, <2>3 DEF Rising
  <2> QED
    BY <1>1, <2>2, <2>3, <2>4
<1> QED
  BY <1>2, <1>3

\* An accepted write keeps revisions rising and is a write of the register.
LEMMA AcceptedStores ==
  ASSUME TypeOK, Rising, NEW put \in Puts, PutSound(put),
         put.pc \in {"create", "update"}, Accepts(put), log' = Append(log, put.rec),
         UNCHANGED <<source, view>>
  PROVE  Rising' /\ RegisterStep
<1>1. put.rec \in Records /\ put.rec.name \in Names /\ put.rec.rev \in Nat
  BY PutParts, RecordParts
<1>2. \A i \in Under(put.rec.name) : log[i].rev < put.rec.rev
  BY AcceptedOutranks
<1>3. PICK n \in Nat : n = Len(log) + 1
  BY <1>1, LogGrows
<1>4. /\ Len(log) \in Nat /\ Len(log') = n /\ log'[n] = put.rec
      /\ \A i \in 1..Len(log) : log'[i] = log[i] /\ log[i] \in Records
      /\ Under(put.rec.name)' = Under(put.rec.name) \union {n}
  BY <1>1, <1>3, LogGrows
<1>5. Rising'
  <2> SUFFICES ASSUME NEW i \in 1..Len(log'), NEW j \in 1..Len(log'),
                      log'[i].name = log'[j].name, i < j
               PROVE  log'[i].rev < log'[j].rev
    BY DEF Rising
  <2>1. i \in 1..Len(log)
    BY <1>3, <1>4
  <2>2. CASE j \in 1..Len(log)
    BY <1>4, <2>1, <2>2 DEF Rising
  <2>3. CASE j = n
    BY <1>2, <1>4, <2>1, <2>3 DEF Under
  <2> QED
    BY <1>3, <1>4, <2>2, <2>3
<1>6. Past' = [Past EXCEPT ![put.rec.name] = @ \union {put.rec}]
  <2>1. \A m \in Names : \A x :
          /\ x \in Past[m] <=> \E i \in 1..Len(log) : log[i].name = m /\ x = log[i]
          /\ x \in Past'[m] <=> \E i \in 1..Len(log') : log'[i].name = m /\ x = log'[i]
    BY DEF Past, Under
  <2>2. ASSUME NEW m \in Names, m # put.rec.name PROVE Past'[m] = Past[m]
    <3>1. \A x : x \in Past'[m] <=> x \in Past[m]
      BY <1>1, <1>3, <1>4, <2>1, <2>2
    <3> QED
      BY <3>1
  <2>3. Past'[put.rec.name] = Past[put.rec.name] \union {put.rec}
    <3>1. \A x : x \in Past'[put.rec.name] <=> x \in Past[put.rec.name] \/ x = put.rec
      BY <1>1, <1>3, <1>4, <2>1
    <3> QED
      BY <3>1
  <2>4. Past = [m \in Names |-> Past[m]] /\ Past' = [m \in Names |-> Past'[m]]
    BY DEF Past
  <2> QED
    BY <1>1, <2>2, <2>3, <2>4
<1>7. put.rec \in Past'[put.rec.name]
  BY <1>1, <1>6 DEF Past
<1>8. \A old \in Past[put.rec.name] : old.rev < put.rec.rev
  BY <1>1, <1>2 DEF Past
<1>9. Register!Store(put.rec.name)
  BY <1>6, <1>7, <1>8 DEF Register!Store, Past
<1> QED
  BY <1>1, <1>5, <1>9 DEF RegisterStep, Register!RegisterNext

\* A step that writes nothing and teaches no bot anything is none of the register.
LEMMA NoRegisterStep ==
  ASSUME Rising, UNCHANGED <<log, source, view>>
  PROVE  Rising' /\ RegisterStep
<1>1. \A n : Under(n)' = Under(n)
  BY DEF Under
<1>2. Past' = Past
  BY <1>1 DEF Past
<1> QED
  BY <1>2 DEF Rising, RegisterStep, Register!registerVars, Past

LEMMA ServeLateRegister ==
  ASSUME RegisterInv, NEW b \in Bots, ServeLate(b)
  PROVE  Rising' /\ RegisterStep
<1>1. TypeOK /\ Rising /\ PutsSound /\ late[b] \in Puts
  BY Parts DEF RegisterInv, TypeOK
<1>2. UNCHANGED <<source, view>>
  BY DEF ServeLate, cache
<1>3. CASE Accepts(late[b])
  <2>1. log' = Append(log, late[b].rec) /\ late[b].pc \in {"create", "update"}
    BY <1>1, <1>3 DEF ServeLate, PutsSound
  <2> QED
    BY <1>1, <1>2, <1>3, <2>1, AcceptedStores DEF PutsSound
<1>4. CASE ~Accepts(late[b])
  BY <1>1, <1>2, <1>4, NoRegisterStep DEF ServeLate
<1> QED
  BY <1>3, <1>4

LEMMA WriteRegister ==
  ASSUME RegisterInv, NEW b \in Bots, NEW slot \in Slots, Write(b, slot)
  PROVE  Rising' /\ RegisterStep
<1>1. TypeOK /\ Rising /\ PutsSound
  BY Parts DEF RegisterInv
<1>2. PICK put : put = io[b][slot]
  OBVIOUS
<1>3. put \in Puts /\ PutSound(put) /\ put.pc \in {"create", "update"} /\ Accepts(put)
  BY <1>1, <1>2, IoType DEF Write, Writing, PutsSound
<1>4. log' = Append(log, put.rec) /\ UNCHANGED <<source, view>>
  BY <1>2 DEF Write, cache
<1> QED
  BY <1>1, <1>3, <1>4, AcceptedStores

\* Applying a stored record is learning it, or nothing.
LEMMA AppliedRegister ==
  ASSUME TypeOK, Rising, UNCHANGED log, NEW b \in Bots, NEW rec \in Records,
         Stored(rec), Apply(b, rec)
  PROVE  Rising' /\ RegisterStep
<1>1. /\ source \in [Bots -> [Names -> Records]] /\ view \in [Bots -> Records]
      /\ rec.name \in Names /\ rec.rev \in Nat
  BY RecordParts DEF TypeOK
<1>2. source[b][rec.name].rev \in Nat /\ view[b].rev \in Nat
  BY <1>1, RecordParts
<1>3. CASE rec.rev <= source[b][rec.name].rev
  <2>1. SourceAfter(b, rec) = source[b] /\ ~Outdates(b, rec)
    BY <1>1, <1>2, <1>3 DEF SourceAfter, Outdates
  <2>2. source' = source /\ view' = view
    BY <1>1, <2>1 DEF Apply
  <2> QED
    BY <2>2, NoRegisterStep
<1>4. CASE rec.rev > source[b][rec.name].rev
  <2>1. source' = [source EXCEPT ![b][rec.name] = rec]
    <3>1. SourceAfter(b, rec) = [source[b] EXCEPT ![rec.name] = rec]
      BY <1>1, <1>2, <1>4 DEF SourceAfter
    <3>2. source' = [source EXCEPT ![b] = SourceAfter(b, rec)]
      BY DEF Apply
    <3> QED
      BY <1>1, <3>1, <3>2
  <2>2. view' = IF view[b].rev < rec.rev THEN [view EXCEPT ![b] = rec] ELSE view
    BY <1>1, <1>2, <1>4 DEF Apply, Outdates
  <2>3. rec \in Past[rec.name] /\ source[b][rec.name].rev < rec.rev
    BY <1>1, <1>2, <1>4 DEF Past, Stored
  <2>4. Past' = Past
    <3>1. \A n : Under(n)' = Under(n)
      BY DEF Under
    <3> QED
      BY <3>1 DEF Past
  <2>5. Register!Learn(b, rec.name)
    BY <2>1, <2>2, <2>3, <2>4 DEF Register!Learn, Past
  <2>6. Rising'
    BY DEF Rising
  <2> QED
    BY <1>1, <2>5, <2>6 DEF RegisterStep, Register!RegisterNext
<1> QED
  BY <1>1, <1>2, <1>3, <1>4

LEMMA WrittenRegister ==
  ASSUME RegisterInv, NEW b \in Bots, NEW slot \in Slots, Written(b, slot)
  PROVE  Rising' /\ RegisterStep
<1>1. TypeOK /\ Rising /\ PutsSound
  BY Parts DEF RegisterInv
<1>2. PICK put : put = io[b][slot]
  OBVIOUS
<1>3. put \in Puts /\ PutSound(put) /\ put.pc = "reply"
  BY <1>1, <1>2, IoType DEF Written, PutsSound
<1>4. put.stored \in Records /\ Stored(put.stored)
  BY <1>3, PutParts DEF PutSound
<1> QED
  BY <1>1, <1>2, <1>4, AppliedRegister DEF Written

LEMMA DeliverRegister ==
  ASSUME RegisterInv, NEW b \in Bots, Deliver(b)
  PROVE  Rising' /\ RegisterStep
<1>1. TypeOK /\ Rising
  BY Parts DEF RegisterInv
<1>2. PICK i \in (pos[b] + 1) .. Len(log) : Apply(b, log[i])
  BY DEF Deliver
<1>3. i \in 1..Len(log) /\ log[i] \in Records
  BY <1>1 DEF TypeOK
<1>4. Stored(log[i])
  BY <1>3 DEF Stored, Under
<1> QED
  BY <1>1, <1>2, <1>3, <1>4, AppliedRegister DEF Deliver

\* A restart makes the bot forget.
LEMMA CrashRegister ==
  ASSUME RegisterInv, NEW b \in Bots, Crash(b)
  PROVE  Rising' /\ RegisterStep
<1>1. /\ source' = [source EXCEPT ![b] = [n \in Names |-> Unknown(n)]]
      /\ view' = [view EXCEPT ![b] = Unknown(IrcName)] /\ UNCHANGED log
  BY DEF Crash
<1>2. \A n : Under(n)' = Under(n)
  BY <1>1 DEF Under
<1>3. Past' = Past
  BY <1>1, <1>2 DEF Past
<1>4. Register!Forget(b)
  BY <1>1, <1>3 DEF Register!Forget, Past
<1>5. Rising'
  BY <1>1 DEF RegisterInv, Rising
<1> QED
  BY <1>4, <1>5 DEF RegisterStep, Register!RegisterNext

LEMMA RegisterNextStep == RegisterInv /\ [Next]_vars => Rising' /\ RegisterStep
<1> SUFFICES ASSUME RegisterInv, [Next]_vars PROVE Rising' /\ RegisterStep
  OBVIOUS
<1>0. Rising
  BY DEF RegisterInv
<1>1. ASSUME NEW b \in Bots, ServeLate(b) PROVE Rising' /\ RegisterStep
  BY <1>1, ServeLateRegister
<1>2. ASSUME NEW b \in Bots, NEW slot \in Slots, Write(b, slot) \/ Written(b, slot)
      PROVE  Rising' /\ RegisterStep
  BY <1>2, WriteRegister, WrittenRegister
<1>3. ASSUME NEW b \in Bots, Deliver(b) \/ Crash(b) PROVE Rising' /\ RegisterStep
  BY <1>3, DeliverRegister, CrashRegister
<1>4. ASSUME NEW b \in Bots, NEW slot \in Slots,
             Get(b, slot) \/ LoseRace(b, slot) \/ Exhaust(b, slot) \/ WriteFails(b, slot)
      PROVE  Rising' /\ RegisterStep
  BY <1>0, <1>4, NoRegisterStep DEF Get, LoseRace, Exhaust, WriteFails, cache
<1>5. ASSUME NEW b \in Bots,
             \/ KeyStep(b) \/ SeeMode(b) \/ Join(b) \/ Leave(b)
             \/ Disconnect(b) \/ Reconnect(b) \/ WatchFails(b)
      PROVE  Rising' /\ RegisterStep
  <2>1. UNCHANGED <<log, source, view>>
    BY <1>5 DEF KeyStep, RecordKey, RetryKey, SeeMode, Join, Leave, Disconnect, Reconnect,
                WatchFails, cache
  <2> QED
    BY <1>0, <2>1, NoRegisterStep
<1>6. ASSUME NEW b \in Bots, NEW name, NEW k, NEW present, NEW tag,
             Command(b, name, k, present, tag)
      PROVE  Rising' /\ RegisterStep
  BY <1>0, <1>6, NoRegisterStep DEF Command, cache
<1>7. ASSUME NEW k, ChangeMode(k) PROVE Rising' /\ RegisterStep
  BY <1>0, <1>7, NoRegisterStep DEF ChangeMode, cache
<1>8. CASE UNCHANGED vars
  BY <1>0, <1>8, NoRegisterStep DEF vars
<1> QED
  BY <1>1, <1>2, <1>3, <1>4, <1>5, <1>6, <1>7, <1>8 DEF Next, PutStep

\* The channel's records refine RecordRegister, for any bots, names and bounds: a stored
\* revision is only ever topped, and no bot turns back but by a restart.
THEOREM RecordsOnlyRiseHolds == Spec => RecordsOnlyRise
<1>1. Init => Rising /\ Register!RegisterInit
  BY DEF Init, Rising, Register!RegisterInit, Under
<1>2. RegisterInv /\ [Next]_vars => Rising' /\ RegisterStep
  BY RegisterNextStep
<1>3. Init => IInv
  BY InvInit
<1>4. IInv /\ [Next]_vars => IInv'
  BY InvNext
<1>5. RegisterInv <=> IInv /\ Rising
  BY DEF RegisterInv
<1> QED
  BY <1>1, <1>2, <1>3, <1>4, <1>5, PTL
     DEF Spec, RecordsOnlyRise, Register!RegisterSpec, RegisterStep

=============================================================================
