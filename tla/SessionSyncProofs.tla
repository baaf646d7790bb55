---------------------------- MODULE SessionSyncProofs ----------------------------
(***************************************************************************)
(* What holds of SessionSync for any bots, expiries and bounds: however AUTH,  *)
(* QUIT, writes, retries, watches and crashes overlap, no revocation is lost   *)
(* and no grant of a lost identity goes on to hold.                           *)
(***************************************************************************)
EXTENDS SessionSync, TLAPS

-----------------------------------------------------------------------------
(* The order of sessions *)

\* The place of a cell in Session.order.
Rank(r) == 2 * r.exp + r.version

LEMMA CellFacts ==
  ASSUME NEW r \in Cells
  PROVE  /\ r.exp \in Nat /\ r.version \in {0, 1} /\ Rank(r) \in Nat /\ r.revoked \in BOOLEAN
         /\ r.revoked <=> r.version = 1
         /\ r = Session(r.exp, r.version, r.revoked)
         /\ r \in Sessions <=> r # None
         /\ r \in Sessions => r.exp \in Expiries /\ r.exp >= 1
         /\ r.exp = 0 => r = None
<1>1. MaxExpiry \in Nat
  BY BoundsAssumption
<1>2. CASE r = None
  <2>1. r.exp = 0 /\ r.version = 0 /\ r.revoked = FALSE
    BY <1>2 DEF None, Session
  <2>2. r \notin Sessions
    BY <1>1, <2>1 DEF Sessions, Session, Expiries
  <2>3. Rank(r) = 0
    BY <2>1 DEF Rank
  <2>4. r = Session(r.exp, r.version, r.revoked)
    BY <1>2, <2>1 DEF None
  <2>5. r.revoked \in BOOLEAN /\ (r.revoked <=> r.version = 1)
    <3>1. r.version # 1 /\ r.revoked = FALSE
      BY <2>1
    <3> QED BY <3>1, Zenon
  <2> QED BY <1>2, <2>1, <2>2, <2>3, <2>4, <2>5
<1>3. CASE r \in Sessions
  <2>1. PICK e \in Expiries : r = Session(e, 0, FALSE) \/ r = Session(e, 1, TRUE)
    BY <1>3 DEF Sessions
  <2>2. r.exp = e /\ e >= 1 /\ e \in Nat
    BY <1>1, <2>1 DEF Session, Expiries
  <2>3. (r.version = 0 /\ r.revoked = FALSE) \/ (r.version = 1 /\ r.revoked = TRUE)
    BY <2>1 DEF Session
  <2>4. r = Session(r.exp, r.version, r.revoked)
    BY <2>1, <2>2, <2>3 DEF Session
  <2>5. r # None
    BY <2>2 DEF None, Session
  <2>6. Rank(r) \in Nat
    BY <2>2, <2>3 DEF Rank
  <2>7. r.revoked \in BOOLEAN /\ (r.revoked <=> r.version = 1) /\ r.version \in {0, 1}
    <3>1. (r.version # 1 /\ r.revoked = FALSE) \/ (r.version = 1 /\ r.revoked = TRUE)
      BY <2>3
    <3>2. r.version \in {0, 1}
      BY <2>3
    <3> QED BY <3>1, <3>2, Zenon
  <2> QED BY <1>3, <2>2, <2>4, <2>5, <2>6, <2>7
<1> QED BY <1>2, <1>3 DEF Cells

\* Outranks is a linear order on the cells: that of the ranks.
LEMMA OrderFacts ==
  ASSUME NEW r \in Cells, NEW s \in Cells
  PROVE  /\ Outranks(r, s) <=> Rank(r) > Rank(s)
         /\ AtLeast(r, s) <=> Rank(r) >= Rank(s)
         /\ Rank(r) = Rank(s) => r = s
<1>1. /\ r.exp \in Nat /\ s.exp \in Nat /\ r.version \in {0, 1} /\ s.version \in {0, 1}
      /\ r.revoked <=> r.version = 1
      /\ s.revoked <=> s.version = 1
      /\ r.revoked \in BOOLEAN /\ s.revoked \in BOOLEAN
      /\ r = Session(r.exp, r.version, r.revoked) /\ s = Session(s.exp, s.version, s.revoked)
  BY CellFacts
<1>2. Outranks(r, s) <=> Rank(r) > Rank(s)
  BY <1>1 DEF Outranks, Rank
<1>3. Outranks(s, r) <=> Rank(s) > Rank(r)
  BY <1>1 DEF Outranks, Rank
<1>4. Rank(r) \in Nat /\ Rank(s) \in Nat
  BY CellFacts
<1>5. ASSUME Rank(r) = Rank(s) PROVE r = s
  <2>1. r.exp = s.exp /\ r.version = s.version
    BY <1>1, <1>5 DEF Rank
  <2>2. r.revoked = s.revoked
    BY <1>1, <2>1
  <2> QED BY <1>1, <2>1, <2>2
<1> QED BY <1>2, <1>3, <1>4, <1>5 DEF AtLeast

LEMMA NoneFacts == None \in Cells /\ Rank(None) = 0 /\ ~None.revoked /\ ~Active(None)
BY DEF None, Cells, Rank, Session, Active

LEMMA SessionFacts ==
  ASSUME NEW r \in Sessions
  PROVE  r \in Cells /\ Rank(r) >= 2 /\ r # None
<1>1. r \in Cells
  BY DEF Cells
<1> QED BY <1>1, CellFacts DEF Rank

LEMMA GrantFacts ==
  ASSUME NEW e \in Expiries
  PROVE  /\ Session(e, 0, FALSE) \in Sessions /\ Rank(Session(e, 0, FALSE)) = 2 * e
         /\ ~Session(e, 0, FALSE).revoked /\ Session(e, 0, FALSE).exp = e
         /\ e \in Nat /\ 2 * e \in Nat
<1>1. e \in Nat
  BY BoundsAssumption DEF Expiries
<1>2. Session(e, 0, FALSE) \in Sessions
  BY DEF Sessions
<1>3. Session(e, 0, FALSE).exp = e /\ Session(e, 0, FALSE).version = 0
  BY DEF Session
<1>4. ~Session(e, 0, FALSE).revoked
  BY DEF Session
<1>5. Rank(Session(e, 0, FALSE)) = 2 * e
  <2>1. \A r : r.exp = e /\ r.version = 0 => Rank(r) = 2 * e
    BY <1>1 DEF Rank
  <2> QED BY <1>3, <2>1, Zenon
<1>6. 2 * e \in Nat
  BY <1>1
<1> QED BY <1>1, <1>2, <1>3, <1>4, <1>5, <1>6, Zenon

\* A revocation is the next cell after its session.
LEMMA RevokedFacts ==
  ASSUME NEW r \in Cells, Active(r)
  PROVE  /\ r \in Sessions /\ r = Session(r.exp, 0, FALSE) /\ Rank(r) = 2 * r.exp
         /\ Revoked(r) \in Sessions /\ Revoked(r).revoked /\ Rank(Revoked(r)) = Rank(r) + 1
         /\ Revoked(r).exp = r.exp
<1>1. r # None /\ ~r.revoked
  BY DEF Active
<1>2. r \in Sessions /\ r.version = 0 /\ r.exp \in Expiries /\ r.revoked = FALSE /\ r.exp \in Nat
  BY <1>1, CellFacts
<1>3. r = Session(r.exp, 0, FALSE)
  BY <1>2, CellFacts
<1>4. Revoked(r) = Session(r.exp, 1, TRUE)
  BY <1>2 DEF Revoked
<1>5. Revoked(r) \in Sessions
  BY <1>2, <1>4 DEF Sessions
<1>6. Rank(r) = 2 * r.exp
  BY <1>2 DEF Rank
<1>7. Revoked(r).exp = r.exp /\ Revoked(r).version = 1 /\ Revoked(r).revoked
  BY <1>4 DEF Session
<1>8. Rank(Revoked(r)) = 2 * r.exp + 1
  BY <1>7 DEF Rank
<1> QED BY <1>2, <1>3, <1>5, <1>6, <1>7, <1>8

LEMMA RevokedRank ==
  ASSUME NEW r \in Cells, r.revoked
  PROVE  r \in Sessions /\ Rank(r) = 2 * r.exp + 1
<1>1. r # None
  BY NoneFacts
<1> QED BY <1>1, CellFacts DEF Rank

LEMMA KeepFacts ==
  ASSUME NEW old \in Cells, NEW new \in Cells
  PROVE  /\ Keep(old, new) \in {old, new} /\ Keep(old, new) \in Cells
         /\ Rank(Keep(old, new)) >= Rank(old) /\ Rank(Keep(old, new)) >= Rank(new)
<1>1. Rank(old) \in Nat /\ Rank(new) \in Nat
  BY CellFacts
<1>2. Keep(old, new) = IF Rank(new) > Rank(old) THEN new ELSE old
  BY OrderFacts DEF Keep
<1> QED BY <1>1, <1>2

LEMMA EnqueueFacts ==
  ASSUME NEW queued \in Cells, NEW session \in Sessions
  PROVE  /\ Enqueue(queued, session) \in Sessions
         /\ Rank(Enqueue(queued, session)) >= Rank(queued)
         /\ Rank(Enqueue(queued, session)) >= Rank(session)
<1>1. /\ Rank(queued) \in Nat /\ Rank(session) \in Nat /\ session \in Cells
      /\ Rank(None) = 0
  BY CellFacts, SessionFacts, NoneFacts
<1>2. Enqueue(queued, session) =
        IF queued = None \/ Rank(session) > Rank(queued) THEN session ELSE queued
  BY <1>1, OrderFacts DEF Enqueue
<1>3. queued # None => queued \in Sessions
  BY CellFacts
<1> QED BY <1>1, <1>2, <1>3

-----------------------------------------------------------------------------
(* What is where *)

\* The cells of a bot, and what is on its way to the bucket.
LEMMA PlaceFacts ==
  ASSUME TypeOK, CommandsServed, NEW b \in Bots
  PROVE  /\ records[b] \in Cells /\ pending[b] \in Cells /\ flow[b].session \in Cells
         /\ flow[b].pc \in {"none", "queued", "claimed", "sync", "undo"}
         /\ io[b] \in Puts /\ io[b].session \in Cells /\ io[b].stored \in Cells
         /\ io[b].pc \in {"idle", "get", "create", "update", "reply"}
         /\ io[b].by \in {"nobody", "flow", "retry"}
         /\ io[b].rev \in Nat /\ io[b].try \in Nat
         /\ late[b] \in Puts /\ late[b].session \in Cells
         /\ io[b].pc # "idle" => io[b].session \in Sessions
         /\ io[b].pc = "reply" => io[b].stored \in Sessions
         /\ late[b].pc # "idle" => late[b].session \in Sessions
         /\ io[b].pc = "idle" => io[b].by = "nobody"
<1>1. records[b] \in Cells /\ pending[b] \in Cells
  BY DEF TypeOK
<1>2. flow[b] \in Flows /\ io[b] \in Puts /\ late[b] \in Puts
  BY DEF TypeOK
<1>3. flow[b].session \in Cells /\ flow[b].pc \in {"none", "queued", "claimed", "sync", "undo"}
  BY <1>2 DEF Flows
<1>4. /\ io[b].session \in Cells /\ io[b].stored \in Cells
      /\ io[b].pc \in {"idle", "get", "create", "update", "reply"}
      /\ io[b].by \in {"nobody", "flow", "retry"} /\ io[b].rev \in Nat /\ io[b].try \in Nat
      /\ late[b].session \in Cells
  BY <1>2 DEF Puts
<1>5. /\ io[b].pc # "idle" => io[b].session \in Sessions
      /\ io[b].pc = "reply" => io[b].stored \in Sessions
      /\ late[b].pc # "idle" => late[b].session \in Sessions
      /\ io[b].pc = "idle" => io[b] = NoPut
  BY DEF CommandsServed
<1>6. NoPut.by = "nobody"
  BY DEF NoPut, Put
<1> QED BY <1>1, <1>2, <1>3, <1>4, <1>5, <1>6

LEMMA StoredFacts ==
  ASSUME log \in Seq(Sessions)
  PROVE  Stored \in Cells /\ \A i \in DOMAIN log : log[i] \in Sessions
<1>1. \A i \in DOMAIN log : log[i] \in Sessions
  OBVIOUS
<1>2. log # <<>> => Len(log) \in DOMAIN log
  OBVIOUS
<1> QED BY <1>1, <1>2, NoneFacts, SessionFacts DEF Stored

\* The end of a put.
EndsPut(b) == Written(b) \/ Exhaust(b) \/ WriteFails(b)

\* A revocation that its put releases is durable, queued, or an undo's that waits.
Covered(b, record, queued) ==
  record.revoked =>
    \/ AtLeast(queued, record) \/ AtLeast(Stored, record)
    \/ io[b].by # "flow" /\ flow[b].pc = "undo" /\ AtLeast(flow[b].session, record)

\* Whether it succeeds or fails, a put leaves a cache that has risen, and drops no revocation.
LEMMA ReleaseFacts ==
  ASSUME TypeOK, CommandsServed, RecordsRise, RevocationNotLost, NEW b \in Bots, EndsPut(b)
  PROVE  \E record \in Cells, queued \in Cells :
           Released(b, record, queued) /\ AtLeast(record, records[b]) /\ Covered(b, record, queued)
<1> DEFINE stored == io[b].stored
           sent == io[b].session
           cached == Keep(records[b], stored)
<1>1. /\ records[b] \in Cells /\ pending[b] \in Cells /\ flow[b].session \in Cells
      /\ sent \in Cells /\ stored \in Cells /\ Stored \in Cells
      /\ io[b].pc = "reply" => stored \in Sessions
  BY PlaceFacts, StoredFacts DEF TypeOK
<1>2. /\ Rank(records[b]) \in Nat /\ Rank(pending[b]) \in Nat /\ Rank(flow[b].session) \in Nat
      /\ Rank(sent) \in Nat /\ Rank(stored) \in Nat /\ Rank(Stored) \in Nat
  BY <1>1, CellFacts
<1>3. io[b].pc # "idle"
  BY DEF EndsPut, Written, Exhaust, WriteFails
<1>4. Rank(pending[b]) >= Rank(sent) /\ (io[b].by = "flow" => Rank(sent) >= Rank(flow[b].session))
  BY <1>1, <1>3, OrderFacts DEF RecordsRise
<1>5. io[b].pc = "reply" => Rank(Stored) >= Rank(stored) /\ Rank(stored) >= Rank(sent)
  BY <1>1, OrderFacts DEF RecordsRise
<1>6. records[b].revoked =>
        \/ Rank(pending[b]) >= Rank(records[b]) \/ Rank(Stored) >= Rank(records[b])
        \/ flow[b].pc = "undo" /\ Rank(flow[b].session) >= Rank(records[b])
  BY <1>1, OrderFacts DEF RevocationNotLost
<1>7. ASSUME NEW record \in Cells, NEW queued \in Cells, Released(b, record, queued),
             Rank(record) >= Rank(records[b]),
             record.revoked =>
               \/ Rank(queued) >= Rank(record) \/ Rank(Stored) >= Rank(record)
               \/ io[b].by # "flow" /\ flow[b].pc = "undo" /\ Rank(flow[b].session) >= Rank(record)
      PROVE  \E r \in Cells, q \in Cells :
               Released(b, r, q) /\ AtLeast(r, records[b]) /\ Covered(b, r, q)
  <2>1. AtLeast(record, records[b])
    BY <1>1, <1>7, OrderFacts
  <2>2. Covered(b, record, queued)
    BY <1>1, <1>7, OrderFacts DEF Covered
  <2> QED BY <1>7, <2>1, <2>2
<1>8. cached \in {records[b], stored} /\ cached \in Cells /\ Rank(cached) >= Rank(records[b])
        /\ Rank(cached) >= Rank(stored) /\ Rank(cached) \in Nat
  BY <1>1, KeepFacts, CellFacts
<1> HIDE DEF stored, sent, cached
<1>9. CASE Exhaust(b) \/ WriteFails(b)
  <2>1. Released(b, records[b], pending[b])
    BY <1>9 DEF Exhaust, WriteFails
  <2> QED BY <1>1, <1>2, <1>4, <1>6, <1>7, <2>1
<1>10. CASE Written(b)
  <2>1. io[b].pc = "reply" /\ stored \in Sessions
    BY <1>1, <1>10 DEF Written
  <2>2. CASE Replaced(b)
    <3>1. Released(b, cached, pending[b])
      BY <1>10, <2>2 DEF Written, cached, stored
    <3>2. cached.revoked =>
            \/ Rank(pending[b]) >= Rank(cached) \/ Rank(Stored) >= Rank(cached)
            \/ io[b].by # "flow" /\ flow[b].pc = "undo" /\ Rank(flow[b].session) >= Rank(cached)
      <4>1. CASE cached = stored
        BY <1>2, <1>5, <2>1, <4>1
      <4>2. CASE cached = records[b]
        BY <1>2, <1>4, <1>6, <4>2
      <4> QED BY <1>8, <4>1, <4>2
    <3> QED BY <1>1, <1>7, <1>8, <3>1, <3>2
  <2>3. CASE ~Replaced(b) /\ ~MetGrant(sent, stored)
    <3>1. Released(b, cached, None)
      BY <1>10, <2>3 DEF Written, cached, stored, sent
    <3>2. pending[b] = sent
      BY <2>3 DEF Replaced, sent
    <3>3. cached.revoked =>
            \/ Rank(None) >= Rank(cached) \/ Rank(Stored) >= Rank(cached)
            \/ io[b].by # "flow" /\ flow[b].pc = "undo" /\ Rank(flow[b].session) >= Rank(cached)
      <4>1. CASE cached = stored
        BY <1>2, <1>5, <2>1, <4>1
      <4>2. CASE cached = records[b]
        BY <1>2, <1>4, <1>5, <1>6, <2>1, <3>2, <4>2
      <4> QED BY <1>8, <4>1, <4>2
    <3> QED BY <1>7, <1>8, <3>1, <3>3, NoneFacts
  <2>4. CASE ~Replaced(b) /\ MetGrant(sent, stored)
    <3> DEFINE record == Keep(cached, Revoked(stored))
    <3>1. Released(b, record, Revoked(stored))
      BY <1>10, <2>4 DEF Written, cached, stored, sent
    <3>2. pending[b] = sent /\ Active(stored)
      BY <2>1, <2>4, SessionFacts DEF Replaced, MetGrant, Active, sent
    <3>3. Revoked(stored) \in Cells /\ Rank(Revoked(stored)) = Rank(stored) + 1
      BY <1>1, <3>2, RevokedFacts, SessionFacts
    <3>4. /\ record \in {cached, Revoked(stored)} /\ record \in Cells
          /\ Rank(record) >= Rank(cached) /\ Rank(record) >= Rank(stored) + 1 /\ Rank(record) \in Nat
      BY <1>8, <3>3, KeepFacts, CellFacts
    <3> HIDE DEF record
    <3>5. record.revoked =>
            \/ Rank(Revoked(stored)) >= Rank(record) \/ Rank(Stored) >= Rank(record)
            \/ io[b].by # "flow" /\ flow[b].pc = "undo" /\ Rank(flow[b].session) >= Rank(record)
      <4>1. CASE record = Revoked(stored)
        BY <1>2, <3>3, <4>1
      <4>2. CASE record = cached
        <5>1. cached = records[b]
          BY <1>2, <1>8, <3>4, <4>2
        <5> QED BY <1>2, <1>4, <1>5, <1>6, <2>1, <3>2, <3>4, <4>2, <5>1
      <4> QED BY <3>4, <4>1, <4>2
    <3>6. Rank(record) >= Rank(records[b])
      BY <1>2, <1>8, <3>4
    <3> QED BY <1>7, <3>1, <3>3, <3>4, <3>5, <3>6
  <2> QED BY <2>2, <2>3, <2>4
<1> QED BY <1>9, <1>10 DEF EndsPut

-----------------------------------------------------------------------------
(* What a step of one bot leaves alone *)

BotStep(b) ==
  \/ ServeLate(b) \/ PutStep(b) \/ SyncStart(b) \/ RetryStart(b)
  \/ Auth(b) \/ FlowStep(b) \/ SeeQuit(b)
  \/ WatchStep(b) \/ LoseIRC(b) \/ Disconnect(b) \/ WatchFails(b) \/ Crash(b)

\* The variables of a bot are functions.
Functions ==
  /\ records \in [Bots -> Cells] /\ pending \in [Bots -> Cells]
  /\ io \in [Bots -> Puts] /\ late \in [Bots -> Puts]
  /\ commands \in [Bots -> Seq(1..MaxLife)] /\ flow \in [Bots -> Flows]
  /\ nats \in [Bots -> {"up", "syncing", "down"}] /\ pos \in [Bots -> Nat]
  /\ seen \in [Bots -> 1..MaxLife] /\ mine \in [Bots -> SUBSET Expiries]

\* What a put that ends does: it undoes a grant, ends a command, or was a retry.
Undoes(b, record) ==
  /\ flow[b].pc = "sync" /\ io[b].by = "flow" /\ Active(record)
  /\ records' = [records EXCEPT ![b] = Revoked(record)]
  /\ flow' = [flow EXCEPT ![b] = [pc |-> "undo", session |-> Revoked(record)]]
  /\ UNCHANGED <<commands, invalid>>
Ends(b, record, queued) ==
  /\ io[b].by = "flow" /\ records' = [records EXCEPT ![b] = record] /\ EndCommand(b)
  /\ flow[b].pc = "sync" /\ Active(record) => b \notin invalid
Retries(b, record) ==
  /\ io[b].by # "flow" /\ records' = [records EXCEPT ![b] = record]
  /\ UNCHANGED <<commands, flow, invalid>>

LEMMA ReleasedCases ==
  ASSUME NEW b \in Bots, NEW record, NEW queued, Released(b, record, queued)
  PROVE  /\ io' = [io EXCEPT ![b] = NoPut] /\ pending' = [pending EXCEPT ![b] = queued]
         /\ Undoes(b, record) \/ Ends(b, record, queued) \/ Retries(b, record)
<1>1. io' = [io EXCEPT ![b] = NoPut] /\ pending' = [pending EXCEPT ![b] = queued]
  BY DEF Released
<1> DEFINE undo == /\ flow[b].pc = "sync" /\ io[b].by = "flow"
                   /\ ~GrantHolds(b, record, queued) /\ Active(record)
<1>2. CASE undo
  <2>1. Undoes(b, record)
    BY <1>2 DEF Released, Undoes
  <2> QED BY <1>1, <2>1
<1>3. CASE ~undo /\ io[b].by = "flow"
  <2>1. records' = [records EXCEPT ![b] = record] /\ EndCommand(b)
    BY <1>3 DEF Released
  <2>2. flow[b].pc = "sync" /\ Active(record) => b \notin invalid
    BY <1>3 DEF GrantHolds
  <2> QED BY <1>1, <1>3, <2>1, <2>2 DEF Ends
<1>4. CASE ~undo /\ io[b].by # "flow"
  <2>1. Retries(b, record)
    BY <1>4 DEF Released, Retries
  <2> QED BY <1>1, <2>1
<1> QED BY <1>2, <1>3, <1>4

LEMMA TailFacts ==
  ASSUME NEW S, NEW q \in Seq(S), q # <<>>
  PROVE  /\ Tail(q) \in Seq(S)
         /\ Tail(q) = <<>> <=> ~(Len(q) > 1)
         /\ \A i \in DOMAIN Tail(q) : i + 1 \in DOMAIN q /\ Tail(q)[i] = q[i + 1]
<1>1. /\ Tail(q) \in Seq(S) /\ Len(q) \in Nat \ {0} /\ DOMAIN q = 1 .. Len(q)
      /\ DOMAIN Tail(q) = 1 .. Len(q) - 1 /\ \A i \in 1 .. Len(q) - 1 : Tail(q)[i] = q[i + 1]
  OBVIOUS
<1>0. Len(Tail(q)) = Len(q) - 1 /\ Len(q) \in Nat
  OBVIOUS
<1>2. \A i \in 1 .. Len(q) - 1 : i \in Nat /\ i + 1 \in DOMAIN q
  BY <1>1
<1>3. CASE Len(q) > 1
  <2>1. Len(Tail(q)) = Len(q) - 1 /\ Len(q) - 1 # 0
    <3>1. \A n \in Nat : n > 1 => n - 1 # 0
      OBVIOUS
    <3> QED BY <1>0, <1>3, <3>1, Zenon
  <2>2. Tail(q) # <<>>
    <3>1. Len(<<>>) = 0
      OBVIOUS
    <3> DEFINE t == Tail(q)
    <3>2. Len(t) # 0
      BY <2>1
    <3> HIDE DEF t
    <3>3. t # <<>>
      BY <3>1, <3>2
    <3> QED BY <3>3 DEF t
  <2> QED BY <1>1, <1>2, <1>3, <2>2
<1>4. CASE ~(Len(q) > 1)
  <2>1. Len(Tail(q)) = 0
    BY <1>0, <1>1, <1>4
  <2>2. Tail(q) = <<>>
    <3>1. \A r \in Seq(S) : Len(r) = 0 => r = <<>>
      OBVIOUS
    <3> QED BY <1>1, <2>1, <3>1
  <2> QED BY <1>1, <1>2, <1>4, <2>2
<1> QED BY <1>3, <1>4

\* The last command of an identity ends its watch.
LEMMA EndCommandFacts ==
  ASSUME Functions, NEW b \in Bots, commands[b] # <<>>, EndCommand(b)
  PROVE  /\ flow' \in [Bots -> Flows] /\ commands' \in [Bots -> Seq(1..MaxLife)]
         /\ flow'[b] \in {Queued, NoFlow}
         /\ flow'[b].pc \in {"queued", "none"}
         /\ flow'[b].pc = "none" <=> commands'[b] = <<>>
         /\ \A c \in Bots \ {b} : flow'[c] = flow[c] /\ commands'[c] = commands[c]
         /\ \A i \in DOMAIN commands'[b] :
              i + 1 \in DOMAIN commands[b] /\ commands'[b][i] = commands[b][i + 1]
         /\ invalid' \subseteq invalid /\ invalid \subseteq invalid' \union {b}
         /\ commands'[b] = <<>> \/ invalid' = invalid
<1>1. commands \in [Bots -> Seq(1..MaxLife)] /\ flow \in [Bots -> Flows]
      /\ commands[b] \in Seq(1..MaxLife)
  BY DEF Functions
<1>2. /\ Tail(commands[b]) \in Seq(1..MaxLife)
      /\ Tail(commands[b]) = <<>> <=> ~(Len(commands[b]) > 1)
      /\ \A i \in DOMAIN Tail(commands[b]) :
           i + 1 \in DOMAIN commands[b] /\ Tail(commands[b])[i] = commands[b][i + 1]
  BY <1>1, TailFacts
<1>3. Queued \in Flows /\ NoFlow \in Flows /\ Queued.pc = "queued" /\ NoFlow.pc = "none"
  BY NoneFacts DEF Queued, NoFlow, Flows
<1>4. /\ commands' = [commands EXCEPT ![b] = Tail(commands[b])]
      /\ flow' = [flow EXCEPT ![b] = IF Len(commands[b]) > 1 THEN Queued ELSE NoFlow]
      /\ invalid' = IF Len(commands[b]) > 1 THEN invalid ELSE invalid \ {b}
  BY DEF EndCommand
<1>5. commands'[b] = Tail(commands[b]) /\ flow'[b] = IF Len(commands[b]) > 1 THEN Queued ELSE NoFlow
  BY <1>1, <1>4
<1>6. flow' \in [Bots -> Flows] /\ commands' \in [Bots -> Seq(1..MaxLife)]
  BY <1>1, <1>2, <1>3, <1>4
<1>7. \A c \in Bots \ {b} : flow'[c] = flow[c] /\ commands'[c] = commands[c]
  BY <1>1, <1>4
<1>8. flow'[b] \in {Queued, NoFlow} /\ flow'[b].pc \in {"queued", "none"}
  BY <1>3, <1>5
<1>9. flow'[b].pc = "none" <=> commands'[b] = <<>>
  BY <1>2, <1>3, <1>5
<1>10. /\ invalid' \subseteq invalid /\ invalid \subseteq invalid' \union {b}
       /\ commands'[b] = <<>> \/ invalid' = invalid
  <2>1. CASE Len(commands[b]) > 1
    BY <1>4, <2>1
  <2>2. CASE ~(Len(commands[b]) > 1)
    <3>1. invalid' = invalid \ {b} /\ commands'[b] = <<>>
      BY <1>2, <1>4, <1>5, <2>2
    <3> QED BY <3>1
  <2> QED BY <2>1, <2>2
<1>11. \A i \in DOMAIN commands'[b] :
         i + 1 \in DOMAIN commands[b] /\ commands'[b][i] = commands[b][i + 1]
  BY <1>2, <1>5
<1> QED BY <1>6, <1>7, <1>8, <1>9, <1>10, <1>11

\* Others keep what they have.
Kept(c) ==
  /\ records'[c] = records[c] /\ pending'[c] = pending[c] /\ io'[c] = io[c]
  /\ late'[c] = late[c] /\ commands'[c] = commands[c] /\ flow'[c] = flow[c]
  /\ nats'[c] = nats[c] /\ pos'[c] = pos[c] /\ seen'[c] = seen[c] /\ mine'[c] = mine[c]
  /\ c \in invalid' <=> c \in invalid

LEMMA PutTypes ==
  /\ NoPut \in Puts
  /\ \A p \in Puts :
       /\ [p EXCEPT !.pc = "create"] \in Puts
       /\ \A n \in Nat : [p EXCEPT !.pc = "update", !.rev = n] \in Puts
       /\ \A s \in Cells : Answered(p, s) \in Puts
       /\ Put("get", p.by, p.session, 0, p.try + 1, None) \in Puts
       /\ p.pc \in {"create", "update"} => Put(p.pc, "nobody", p.session, p.rev, 0, None) \in Puts
  /\ \A s \in Cells : /\ Put("get", "flow", s, 0, 1, None) \in Puts
                      /\ Put("get", "retry", s, 0, 1, None) \in Puts
<1>1. None \in Cells
  BY NoneFacts
<1>2. NoPut \in Puts
  BY <1>1 DEF NoPut, Put, Puts
<1>3. ASSUME NEW p \in Puts
      PROVE  /\ [p EXCEPT !.pc = "create"] \in Puts
             /\ \A n \in Nat : [p EXCEPT !.pc = "update", !.rev = n] \in Puts
             /\ \A s \in Cells : Answered(p, s) \in Puts
             /\ Put("get", p.by, p.session, 0, p.try + 1, None) \in Puts
             /\ p.pc \in {"create", "update"} => Put(p.pc, "nobody", p.session, p.rev, 0, None) \in Puts
  <2>1. [p EXCEPT !.pc = "create"] \in Puts /\ \A n \in Nat : [p EXCEPT !.pc = "update", !.rev = n] \in Puts
    BY DEF Puts
  <2>2. \A s \in Cells : Answered(p, s) \in Puts
    BY DEF Puts, Answered, Put
  <2>3. Put("get", p.by, p.session, 0, p.try + 1, None) \in Puts
    BY <1>1 DEF Puts, Put
  <2>4. p.pc \in {"create", "update"} => Put(p.pc, "nobody", p.session, p.rev, 0, None) \in Puts
    BY <1>1 DEF Puts, Put
  <2> QED BY <2>1, <2>2, <2>3, <2>4
<1>4. \A s \in Cells : /\ Put("get", "flow", s, 0, 1, None) \in Puts
                       /\ Put("get", "retry", s, 0, 1, None) \in Puts
  BY <1>1 DEF Puts, Put
<1> QED BY <1>2, <1>3, <1>4

\* A write that is abandoned: it is the one that was sent.
LEMMA AbandonFacts ==
  ASSUME Functions, NEW b \in Bots, Abandon(b)
  PROVE  /\ late' \in [Bots -> Puts]
         /\ \A c \in Bots \ {b} : late'[c] = late[c]
         /\ \/ late' = late
            \/ /\ io[b].pc \in {"create", "update"}
               /\ late'[b] = Put(io[b].pc, "nobody", io[b].session, io[b].rev, 0, None)
<1>1. late \in [Bots -> Puts] /\ io[b] \in Puts
  BY DEF Functions
<1>2. CASE Lingering /\ io[b].pc \in {"create", "update"}
  <2> DEFINE put == Put(io[b].pc, "nobody", io[b].session, io[b].rev, 0, None)
  <2>1. put \in Puts
    BY <1>1, <1>2, PutTypes
  <2>2. late' = [late EXCEPT ![b] = put]
    BY <1>2 DEF Abandon
  <2> HIDE DEF put
  <2>3. late' \in [Bots -> Puts] /\ late'[b] = put /\ \A c \in Bots \ {b} : late'[c] = late[c]
    BY <1>1, <2>1, <2>2
  <2> QED BY <1>2, <2>3 DEF put
<1>3. CASE ~(Lingering /\ io[b].pc \in {"create", "update"})
  <2>1. late' = late
    BY <1>3 DEF Abandon
  <2> QED BY <1>1, <2>1
<1> QED BY <1>2, <1>3

LEMMA TypeFunctions ==
  ASSUME TypeOK
  PROVE  /\ Functions /\ log \in Seq(Sessions) /\ Len(log) \in Nat /\ life \in 1..MaxLife /\ MaxLife \in Nat
         /\ invalid \subseteq Bots /\ Stored \in Cells
         /\ \A i \in DOMAIN log : log[i] \in Cells
<1>1. log \in Seq(Sessions) /\ life \in 1..MaxLife /\ invalid \subseteq Bots
  BY DEF TypeOK
<1>2. Functions
  BY DEF TypeOK, Functions
<1>3. Len(log) \in Nat
  BY <1>1
<1>4. Stored \in Cells /\ \A i \in DOMAIN log : log[i] \in Cells
  BY <1>1, StoredFacts, SessionFacts
<1> QED BY <1>1, <1>2, <1>3, <1>4, BoundsAssumption

\* A step of one bot keeps the types of what the bots have, and what the others have.
LEMMA FrameStep ==
  ASSUME TypeOK, CommandsServed, RecordsRise, RevocationNotLost, NEW b \in Bots, BotStep(b)
  PROVE  Functions' /\ \A c \in Bots \ {b} : Kept(c)
<1>0. /\ Functions /\ log \in Seq(Sessions) /\ Len(log) \in Nat /\ life \in 1..MaxLife
      /\ MaxLife \in Nat /\ Stored \in Cells /\ \A i \in DOMAIN log : log[i] \in Cells
  BY TypeFunctions
<1>1. /\ records[b] \in Cells /\ pending[b] \in Cells /\ flow[b].session \in Cells
      /\ io[b] \in Puts /\ late[b] \in Puts /\ flow[b] \in Flows /\ commands[b] \in Seq(1..MaxLife)
      /\ io[b].session \in Cells
  BY <1>0, PlaceFacts DEF Functions
<1>2. CASE ServeLate(b)
  <2>1. /\ late' = [late EXCEPT ![b] = NoPut]
        /\ UNCHANGED <<records, pending, io, commands, flow, invalid, nats, pos, seen, mine>>
    BY <1>2 DEF ServeLate, local, irc, history
  <2> QED BY <1>0, <2>1, PutTypes DEF Functions, Kept
<1>3. ASSUME NEW put \in Puts, io' = [io EXCEPT ![b] = put],
             UNCHANGED <<records, pending, late, commands, flow, invalid, nats, pos, seen, mine>>
      PROVE  Functions' /\ \A c \in Bots \ {b} : Kept(c)
  BY <1>0, <1>3 DEF Functions, Kept
<1>4. CASE Get(b)
  <2>1. UNCHANGED <<records, pending, late, commands, flow, invalid, nats, pos, seen, mine>>
    BY <1>4 DEF Get, irc, history
  <2>2. \/ io' = [io EXCEPT ![b] = [io[b] EXCEPT !.pc = "create"]]
        \/ io' = [io EXCEPT ![b] = [io[b] EXCEPT !.pc = "update", !.rev = Len(log)]]
        \/ io' = [io EXCEPT ![b] = Answered(io[b], Stored)]
    <3>1. CASE Stored = None
      BY <1>4, <3>1 DEF Get
    <3>2. CASE Stored # None /\ Outranks(io[b].session, Stored)
      BY <1>4, <3>2 DEF Get
    <3>3. CASE Stored # None /\ ~Outranks(io[b].session, Stored)
      BY <1>4, <3>3 DEF Get
    <3> QED BY <3>1, <3>2, <3>3
  <2>3. /\ [io[b] EXCEPT !.pc = "create"] \in Puts
        /\ [io[b] EXCEPT !.pc = "update", !.rev = Len(log)] \in Puts
        /\ Answered(io[b], Stored) \in Puts
    BY <1>0, <1>1, PutTypes
  <2> QED BY <1>3, <2>1, <2>2, <2>3
<1>5. CASE Write(b)
  <2>1. /\ UNCHANGED <<records, pending, late, commands, flow, invalid, nats, pos, seen, mine>>
        /\ io' = [io EXCEPT ![b] = Answered(io[b], io[b].session)]
    BY <1>5 DEF Write, irc, history
  <2> QED BY <1>1, <1>3, <2>1, PutTypes
<1>6. CASE LoseRace(b)
  <2>1. /\ UNCHANGED <<records, pending, late, commands, flow, invalid, nats, pos, seen, mine>>
        /\ io' = [io EXCEPT ![b] = Put("get", io[b].by, io[b].session, 0, io[b].try + 1, None)]
    BY <1>6 DEF LoseRace, irc, history
  <2> QED BY <1>1, <1>3, <2>1, PutTypes
<1>7. CASE EndsPut(b)
  <2>1. PICK record \in Cells, queued \in Cells : Released(b, record, queued)
    BY <1>7, ReleaseFacts
  <2>2. io' = [io EXCEPT ![b] = NoPut] /\ pending' = [pending EXCEPT ![b] = queued]
          /\ (Undoes(b, record) \/ Ends(b, record, queued) \/ Retries(b, record))
    BY <2>1, ReleasedCases
  <2>3. UNCHANGED <<nats, pos, seen, mine>>
    BY <1>7 DEF EndsPut, Written, Exhaust, WriteFails, irc, history
  <2>4. late' \in [Bots -> Puts] /\ \A c \in Bots \ {b} : late'[c] = late[c]
    <3>1. late' = late \/ Abandon(b)
      BY <1>7 DEF EndsPut, Written, Exhaust, WriteFails
    <3> QED BY <1>0, <3>1, AbandonFacts DEF Functions
  <2>5. io' \in [Bots -> Puts] /\ pending' \in [Bots -> Cells]
          /\ \A c \in Bots \ {b} : io'[c] = io[c] /\ pending'[c] = pending[c]
    BY <1>0, <2>2, PutTypes DEF Functions
  <2>6. /\ records' \in [Bots -> Cells] /\ flow' \in [Bots -> Flows]
        /\ commands' \in [Bots -> Seq(1..MaxLife)]
        /\ \A c \in Bots \ {b} : /\ records'[c] = records[c] /\ flow'[c] = flow[c]
                                 /\ commands'[c] = commands[c] /\ (c \in invalid' <=> c \in invalid)
    <3>1. CASE Undoes(b, record)
      <4>1. Revoked(record) \in Cells
        BY <3>1, RevokedFacts, SessionFacts DEF Undoes
      <4>2. [pc |-> "undo", session |-> Revoked(record)] \in Flows
        BY <4>1 DEF Flows
      <4> QED BY <1>0, <3>1, <4>1, <4>2 DEF Undoes, Functions
    <3>2. CASE Ends(b, record, queued)
      <4>1. commands[b] # <<>>
        BY <3>2 DEF Ends, CommandsServed
      <4>2. records' = [records EXCEPT ![b] = record] /\ EndCommand(b)
        BY <3>2 DEF Ends
      <4> QED BY <1>0, <4>1, <4>2, EndCommandFacts DEF Functions
    <3>3. CASE Retries(b, record)
      BY <1>0, <3>3 DEF Retries, Functions
    <3> QED BY <2>2, <3>1, <3>2, <3>3
  <2> QED BY <1>0, <2>3, <2>4, <2>5, <2>6 DEF Functions, Kept
<1>8. CASE SyncStart(b)
  <2> DEFINE queued == Enqueue(pending[b], flow[b].session)
  <2>1. /\ UNCHANGED <<records, late, commands, flow, invalid, nats, pos, seen, mine>>
        /\ flow[b].pc \in {"sync", "undo"} /\ pending' = [pending EXCEPT ![b] = queued]
        /\ io' = [io EXCEPT ![b] = Put("get", "flow", queued, 0, 1, None)]
    BY <1>8 DEF SyncStart, irc, history
  <2>2. queued \in Cells
    BY <1>1, <2>1, EnqueueFacts, SessionFacts DEF CommandsServed
  <2>3. Put("get", "flow", queued, 0, 1, None) \in Puts
    BY <2>2, PutTypes
  <2> HIDE DEF queued
  <2> QED BY <1>0, <2>1, <2>2, <2>3 DEF Functions, Kept
<1>9. CASE RetryStart(b)
  <2>1. /\ UNCHANGED <<records, pending, late, commands, flow, invalid, nats, pos, seen, mine>>
        /\ io' = [io EXCEPT ![b] = Put("get", "retry", pending[b], 0, 1, None)]
    BY <1>9 DEF RetryStart, irc, history
  <2> QED BY <1>1, <1>3, <2>1, PutTypes
<1>10. CASE Auth(b)
  <2>1. /\ UNCHANGED <<records, pending, io, late, invalid, nats, pos, seen, mine>>
        /\ commands' = [commands EXCEPT ![b] = Append(commands[b], seen[b])]
        /\ flow' = [flow EXCEPT ![b] = IF commands[b] = <<>> THEN Queued ELSE flow[b]]
    BY <1>10 DEF Auth, irc, history
  <2>2. Append(commands[b], seen[b]) \in Seq(1..MaxLife)
    <3>1. seen[b] \in 1..MaxLife
      BY <1>0 DEF Functions
    <3> QED BY <1>1, <3>1
  <2>3. Queued \in Flows
    BY NoneFacts DEF Queued, Flows
  <2> QED BY <1>0, <1>1, <2>1, <2>2, <2>3 DEF Functions, Kept
<1>11. CASE Claim(b)
  <2>1. /\ UNCHANGED <<records, pending, io, late, commands, invalid, nats, pos, seen, mine>>
        /\ flow' = [flow EXCEPT ![b] = [flow[b] EXCEPT !.pc = "claimed"]]
    BY <1>11 DEF Claim, irc, history
  <2>2. [flow[b] EXCEPT !.pc = "claimed"] \in Flows
    BY <1>1 DEF Flows
  <2> QED BY <1>0, <2>1, <2>2 DEF Functions, Kept
<1>12. CASE Deny(b)
  <2>1. /\ UNCHANGED <<records, pending, io, late, nats, pos, seen, mine>> /\ EndCommand(b)
        /\ flow[b].pc # "none"
    BY <1>12 DEF Deny, irc, history
  <2>2. commands[b] # <<>>
    BY <2>1 DEF CommandsServed
  <2>3. /\ flow' \in [Bots -> Flows] /\ commands' \in [Bots -> Seq(1..MaxLife)]
        /\ \A c \in Bots \ {b} : /\ flow'[c] = flow[c] /\ commands'[c] = commands[c]
                                 /\ c \in invalid' <=> c \in invalid
    BY <1>0, <2>1, <2>2, EndCommandFacts
  <2> QED BY <1>0, <2>1, <2>3 DEF Functions, Kept
<1>13. ASSUME NEW e \in Expiries, Grant(b, e) PROVE Functions' /\ \A c \in Bots \ {b} : Kept(c)
  <2> DEFINE session == Session(e, 0, FALSE)
  <2>1. /\ UNCHANGED <<pending, io, late, commands, invalid, nats, pos, seen>>
        /\ records' = records \/ records' = [records EXCEPT ![b] = session]
        /\ flow' = [flow EXCEPT ![b] = [pc |-> "sync", session |-> session]]
        /\ mine' = [mine EXCEPT ![b] = mine[b] \union {e}]
    <3>1. records' = [records EXCEPT ![b] = records[b]] => records' = records
      BY <1>0 DEF Functions
    <3> QED BY <1>13, <3>1 DEF Grant, irc
  <2>2. session \in Cells
    BY GrantFacts, SessionFacts
  <2>3. [pc |-> "sync", session |-> session] \in Flows
    BY <2>2 DEF Flows
  <2>4. mine' \in [Bots -> SUBSET Expiries] /\ \A c \in Bots \ {b} : mine'[c] = mine[c]
    BY <1>0, <2>1 DEF Functions
  <2> HIDE DEF session
  <2>5. records' \in [Bots -> Cells] /\ \A c \in Bots \ {b} : records'[c] = records[c]
    BY <1>0, <2>1, <2>2 DEF Functions
  <2>6. flow' \in [Bots -> Flows] /\ \A c \in Bots \ {b} : flow'[c] = flow[c]
    BY <1>0, <2>1, <2>3 DEF Functions
  <2> QED BY <1>0, <2>1, <2>4, <2>5, <2>6 DEF Functions, Kept
<1>14. CASE SeeQuit(b)
  <2>1. /\ UNCHANGED <<io, late, commands, flow, nats, pos, mine>>
        /\ seen' = [seen EXCEPT ![b] = seen[b] + 1] /\ seen[b] < life
        /\ invalid' \in {invalid, invalid \union {b}}
        /\ \/ UNCHANGED <<records, pending>>
           \/ /\ Active(records[b]) /\ records' = [records EXCEPT ![b] = Revoked(records[b])]
              /\ pending' = [pending EXCEPT ![b] = Enqueue(pending[b], Revoked(records[b]))]
    BY <1>14 DEF SeeQuit, history
  <2>2. seen[b] + 1 \in 1..MaxLife
    <3>1. seen[b] \in 1..MaxLife
      BY <1>0 DEF Functions
    <3> QED BY <1>0, <2>1, <3>1
  <2>3. Active(records[b]) =>
          Revoked(records[b]) \in Cells /\ Enqueue(pending[b], Revoked(records[b])) \in Cells
    BY <1>1, RevokedFacts, EnqueueFacts, SessionFacts
  <2>4. records' \in [Bots -> Cells] /\ pending' \in [Bots -> Cells]
          /\ \A c \in Bots \ {b} : records'[c] = records[c] /\ pending'[c] = pending[c]
    <3>1. records' \in [Bots -> Cells] /\ \A c \in Bots \ {b} : records'[c] = records[c]
      BY <1>0, <2>1, <2>3 DEF Functions
    <3>2. pending' \in [Bots -> Cells] /\ \A c \in Bots \ {b} : pending'[c] = pending[c]
      BY <1>0, <2>1, <2>3 DEF Functions
    <3> QED BY <3>1, <3>2
  <2>5. seen' \in [Bots -> 1..MaxLife] /\ \A c \in Bots \ {b} : seen'[c] = seen[c]
    BY <1>0, <2>1, <2>2 DEF Functions
  <2> QED BY <1>0, <2>1, <2>4, <2>5 DEF Functions, Kept
<1>15. ASSUME NEW s \in Cells, NEW p \in Nat, NEW n \in {"up", "syncing", "down"},
              records' = [records EXCEPT ![b] = Keep(records[b], s)] \/ UNCHANGED records,
              pos' = [pos EXCEPT ![b] = p] \/ UNCHANGED pos,
              nats' = [nats EXCEPT ![b] = n] \/ UNCHANGED nats,
              UNCHANGED <<pending, io, late, commands, flow, invalid, seen, mine>>
       PROVE  Functions' /\ \A c \in Bots \ {b} : Kept(c)
  <2>1. Keep(records[b], s) \in Cells
    BY <1>1, KeepFacts
  <2>2. records' \in [Bots -> Cells] /\ \A c \in Bots \ {b} : records'[c] = records[c]
    BY <1>0, <1>15, <2>1 DEF Functions
  <2>3. pos' \in [Bots -> Nat] /\ nats' \in [Bots -> {"up", "syncing", "down"}]
          /\ \A c \in Bots \ {b} : pos'[c] = pos[c] /\ nats'[c] = nats[c]
    BY <1>0, <1>15 DEF Functions
  <2> QED BY <1>0, <1>15, <2>2, <2>3 DEF Functions, Kept
<1>16. CASE Deliver(b)
  <2>1. PICK rev \in (pos[b] + 1) .. Len(log) :
          records' = [records EXCEPT ![b] = Keep(records[b], log[rev])] /\ pos' = [pos EXCEPT ![b] = rev]
    BY <1>16 DEF Deliver
  <2>2. pos[b] \in Nat
    BY <1>0 DEF Functions
  <2>3. rev \in Nat /\ rev \in DOMAIN log
    BY <1>0, <2>2
  <2> QED BY <1>0, <1>15, <1>16, <2>1, <2>3 DEF Deliver, irc, history
<1>17. CASE Reconnect(b) \/ Replay(b) \/ Disconnect(b) \/ WatchFails(b)
  <2>1. /\ UNCHANGED <<pending, io, late, commands, flow, invalid, seen, mine>>
        /\ records' = [records EXCEPT ![b] = Keep(records[b], Stored)] \/ UNCHANGED records
        /\ \E p \in {0, Len(log)} : pos' = [pos EXCEPT ![b] = p] \/ UNCHANGED pos
        /\ \E n \in {"up", "syncing", "down"} : nats' = [nats EXCEPT ![b] = n]
    BY <1>17 DEF Reconnect, Replay, Disconnect, WatchFails, local, irc, history
  <2> QED BY <1>0, <1>15, <2>1
<1>18. CASE LoseIRC(b)
  <2>1. /\ UNCHANGED <<records, pending, io, late, commands, flow, nats, pos, mine>>
        /\ seen' = [seen EXCEPT ![b] = life] /\ invalid' \in {invalid, invalid \union {b}}
    BY <1>18 DEF LoseIRC
  <2> QED BY <1>0, <2>1 DEF Functions, Kept
<1>19. CASE Crash(b)
  <2>1. /\ records' = [records EXCEPT ![b] = None] /\ pending' = [pending EXCEPT ![b] = None]
        /\ io' = [io EXCEPT ![b] = NoPut] /\ flow' = [flow EXCEPT ![b] = NoFlow]
        /\ commands' = [commands EXCEPT ![b] = <<>>] /\ invalid' = invalid \ {b}
    BY <1>19 DEF Crash
  <2>2. /\ nats' = [nats EXCEPT ![b] = "down"] /\ pos' = [pos EXCEPT ![b] = 0]
        /\ seen' = [seen EXCEPT ![b] = life] /\ mine' = [mine EXCEPT ![b] = {}]
    BY <1>19 DEF Crash
  <2>3. None \in Cells /\ NoPut \in Puts /\ NoFlow \in Flows /\ <<>> \in Seq(1..MaxLife)
    <3>1. NoFlow \in Flows
      BY NoneFacts DEF NoFlow, Flows
    <3>2. <<>> \in Seq(1..MaxLife)
      OBVIOUS
    <3> QED BY <3>1, <3>2, NoneFacts, PutTypes
  <2>4. late' \in [Bots -> Puts] /\ \A c \in Bots \ {b} : late'[c] = late[c]
    BY <1>0, <1>19, AbandonFacts DEF Crash
  <2>5. /\ records' \in [Bots -> Cells] /\ pending' \in [Bots -> Cells] /\ io' \in [Bots -> Puts]
        /\ flow' \in [Bots -> Flows] /\ commands' \in [Bots -> Seq(1..MaxLife)]
        /\ \A c \in Bots \ {b} :
             /\ records'[c] = records[c] /\ pending'[c] = pending[c] /\ io'[c] = io[c]
             /\ flow'[c] = flow[c] /\ commands'[c] = commands[c] /\ (c \in invalid' <=> c \in invalid)
    BY <1>0, <2>1, <2>3 DEF Functions
  <2>6. /\ nats' \in [Bots -> {"up", "syncing", "down"}] /\ pos' \in [Bots -> Nat]
        /\ seen' \in [Bots -> 1..MaxLife] /\ mine' \in [Bots -> SUBSET Expiries]
        /\ \A c \in Bots \ {b} : /\ nats'[c] = nats[c] /\ pos'[c] = pos[c] /\ seen'[c] = seen[c]
                                 /\ mine'[c] = mine[c]
    BY <1>0, <2>2 DEF Functions
  <2> QED BY <2>4, <2>5, <2>6 DEF Functions, Kept
<1> QED BY <1>2, <1>4, <1>5, <1>6, <1>7, <1>8, <1>9, <1>10, <1>11, <1>12, <1>13, <1>14, <1>16,
           <1>17, <1>18, <1>19
        DEF BotStep, PutStep, FlowStep, WatchStep, EndsPut

\* The bucket changes only by a write that it accepts.
LogGrows(b) ==
  \/ log' = log
  \/ \E put \in {io[b], late[b]} :
       put.pc \in {"create", "update"} /\ Accepts(put) /\ log' = Append(log, put.session)

LEMMA LogStep ==
  ASSUME NEW b \in Bots, CommandsServed, BotStep(b)
  PROVE  LogGrows(b)
<1>1. CASE ServeLate(b)
  <2>1. late[b].pc \in {"create", "update"}
    BY <1>1 DEF ServeLate, CommandsServed
  <2>2. log' = IF Accepts(late[b]) THEN Append(log, late[b].session) ELSE log
    BY <1>1 DEF ServeLate
  <2> QED BY <2>1, <2>2 DEF LogGrows
<1>2. CASE Write(b)
  BY <1>2 DEF Write, LogGrows
<1>3. CASE Get(b) \/ LoseRace(b) \/ Written(b) \/ Exhaust(b) \/ WriteFails(b) \/ SyncStart(b)
             \/ RetryStart(b) \/ Auth(b) \/ FlowStep(b) \/ SeeQuit(b)
  BY <1>3 DEF Get, LoseRace, Written, Exhaust, WriteFails, SyncStart, RetryStart, Auth, FlowStep,
              Claim, Deny, Grant, SeeQuit, LogGrows
<1>4. CASE WatchStep(b) \/ LoseIRC(b) \/ Disconnect(b) \/ WatchFails(b) \/ Crash(b)
  BY <1>4 DEF WatchStep, Deliver, Reconnect, Replay, LoseIRC, Disconnect, WatchFails, Crash, LogGrows
<1> QED BY <1>1, <1>2, <1>3, <1>4 DEF BotStep, PutStep

LEMMA LogType ==
  ASSUME TypeOK, CommandsServed, NEW b \in Bots, LogGrows(b)
  PROVE  log' \in Seq(Sessions)
<1>1. log \in Seq(Sessions)
  BY DEF TypeOK
<1>2. ASSUME NEW put \in {io[b], late[b]}, put.pc \in {"create", "update"},
             log' = Append(log, put.session)
      PROVE  log' \in Seq(Sessions)
  <2>1. put.session \in Sessions
    BY <1>2 DEF CommandsServed
  <2> QED BY <1>1, <1>2, <2>1
<1> QED BY <1>1, <1>2 DEF LogGrows

\* The history of a step: sessions are granted, and doomed, by the bot that steps.
History(b) ==
  \/ UNCHANGED <<grants, mine, doomed>>
  \/ \E e \in Expiries : Grant(b, e)
  \/ SeeQuit(b) \/ LoseIRC(b) \/ Crash(b)

LEMMA HistoryStep ==
  ASSUME NEW b \in Bots, BotStep(b)
  PROVE  History(b) /\ invalid' \subseteq invalid \union {b} /\ life' = life
           /\ missed' \in {missed, "yes"} /\ (faults' = faults \/ Fault(b))
<1>1. CASE Written(b) \/ Exhaust(b) \/ WriteFails(b)
  <2>1. UNCHANGED <<irc, history>>
    BY <1>1 DEF Written, Exhaust, WriteFails
  <2>2. \A record, queued : Released(b, record, queued) => invalid' \subseteq invalid \union {b}
    BY DEF Released, EndCommand
  <2>3. invalid' \subseteq invalid \union {b}
    BY <1>1, <2>2 DEF Written, Exhaust, WriteFails
  <2>4. faults' = faults \/ Fault(b)
    BY <1>1 DEF Written, Exhaust, WriteFails
  <2> QED BY <2>1, <2>3, <2>4 DEF History, irc, history
<1>2. CASE ServeLate(b) \/ Get(b) \/ Write(b) \/ LoseRace(b) \/ SyncStart(b) \/ RetryStart(b)
             \/ Auth(b) \/ Claim(b) \/ Deny(b)
  BY <1>2 DEF ServeLate, Get, Write, LoseRace, SyncStart, RetryStart, Auth, Claim, Deny, EndCommand,
              History, irc, history, local
<1>3. CASE WatchStep(b) \/ Disconnect(b) \/ WatchFails(b)
  BY <1>3 DEF WatchStep, Deliver, Reconnect, Replay, Disconnect, WatchFails, History, irc, history,
              local
<1>4. ASSUME NEW e \in Expiries, Grant(b, e)
      PROVE  History(b) /\ UNCHANGED <<invalid, life, missed, faults>>
  BY <1>4 DEF Grant, History, irc
<1>5. CASE SeeQuit(b)
  BY <1>5 DEF SeeQuit, History
<1>6. CASE LoseIRC(b)
  BY <1>6 DEF LoseIRC, History
<1>7. CASE Crash(b)
  BY <1>7 DEF Crash, History
<1> QED BY <1>1, <1>2, <1>3, <1>4, <1>5, <1>6, <1>7 DEF BotStep, PutStep, FlowStep

LEMMA TypeStep ==
  ASSUME TypeOK, CommandsServed, RecordsRise, RevocationNotLost, Next
  PROVE  TypeOK'
<1>0. /\ Functions /\ log \in Seq(Sessions) /\ life \in 1..MaxLife /\ MaxLife \in Nat
      /\ invalid \subseteq Bots /\ grants \in [Expiries -> 0..MaxLife]
      /\ doomed \in SUBSET Expiries /\ missed \in {"no", "yes"} /\ faults \in 0..MaxFaults
  BY TypeFunctions DEF TypeOK
<1>1. Functions' /\ log' \in Seq(Sessions) /\ invalid' \subseteq Bots /\ life' \in 1..MaxLife
        /\ grants' \in [Expiries -> 0..MaxLife] /\ doomed' \in SUBSET Expiries
        /\ missed' \in {"no", "yes"} /\ faults' \in 0..MaxFaults
      => TypeOK'
  BY DEF TypeOK, Functions
<1>2. CASE ChangeHands
  <2>1. /\ UNCHANGED <<log, records, pending, io, commands, flow, invalid, late, nats, pos, seen,
                       grants, mine, doomed, missed, faults>>
        /\ life < MaxLife /\ life' = life + 1
    BY <1>2 DEF ChangeHands, local, history
  <2>2. Functions'
    BY <1>0, <2>1 DEF Functions
  <2>3. life' \in 1..MaxLife
    BY <1>0, <2>1
  <2> QED BY <1>0, <1>1, <2>1, <2>2, <2>3
<1>3. ASSUME NEW b \in Bots, BotStep(b) PROVE TypeOK'
  <2>1. Functions' /\ log' \in Seq(Sessions)
    BY <1>3, FrameStep, LogStep, LogType
  <2>2. History(b) /\ invalid' \subseteq Bots /\ life' = life /\ missed' \in {"no", "yes"}
          /\ (faults' = faults \/ Fault(b))
    BY <1>0, <1>3, HistoryStep
  <2>3. faults' \in 0..MaxFaults
    BY <1>0, <2>2, BoundsAssumption DEF Fault
  <2>4. grants' \in [Expiries -> 0..MaxLife] /\ doomed' \in SUBSET Expiries
    <3>1. mine[b] \subseteq Expiries /\ commands[b] \in Seq(1..MaxLife) /\ flow[b] \in Flows
      BY <1>0 DEF Functions
    <3>2. ASSUME NEW e \in Expiries, Grant(b, e)
          PROVE  grants' \in [Expiries -> 0..MaxLife] /\ doomed' \in SUBSET Expiries
      <4>1. grants' = [grants EXCEPT ![e] = Head(commands[b])] /\ doomed' \subseteq doomed \union {e}
              /\ flow[b].pc = "claimed"
        BY <3>2 DEF Grant
      <4>2. Head(commands[b]) \in 1..MaxLife
        <5>1. commands[b] # <<>>
          BY <4>1 DEF CommandsServed
        <5>2. \A S : \A q \in Seq(S) : q # <<>> => Head(q) \in S
          OBVIOUS
        <5> QED BY <3>1, <5>1, <5>2
      <4>3. Head(commands[b]) \in 0..MaxLife
        BY <1>0, <4>2
      <4> QED BY <1>0, <4>1, <4>3
    <3>3. SeeQuit(b) => grants' = grants /\ doomed' \subseteq doomed \union mine[b]
      BY DEF SeeQuit
    <3>4. ASSUME LoseIRC(b) PROVE grants' = grants /\ doomed' \subseteq Expiries
      <4>1. flow[b].pc = "sync" => flow[b].session.exp \in Expiries
        BY CellFacts, SessionFacts DEF CommandsServed
      <4> QED BY <1>0, <3>4, <4>1 DEF LoseIRC
    <3>5. Crash(b) => UNCHANGED <<grants, doomed>>
      BY DEF Crash
    <3> QED BY <1>0, <2>2, <3>1, <3>2, <3>3, <3>4, <3>5 DEF History
  <2> QED BY <1>0, <1>1, <2>1, <2>2, <2>3, <2>4
<1> QED BY <1>2, <1>3 DEF Next, BotStep

-----------------------------------------------------------------------------
(* What a step of a bot changes of that bot *)

SameCache(b) == records'[b] = records[b] /\ pending'[b] = pending[b]
SamePut(b) == io'[b] = io[b] /\ late'[b] = late[b]
SameFlow(b) ==
  flow'[b] = flow[b] /\ commands'[b] = commands[b] /\ (b \in invalid' <=> b \in invalid)
SameHolder(b) == seen'[b] = seen[b] /\ mine'[b] = mine[b] /\ UNCHANGED <<grants, doomed>>

\* Its put moves on.
LateServed(b) == io'[b] = io[b] /\ late'[b] = NoPut
Got(b) ==
  /\ io[b].pc = "get" /\ log' = log /\ late'[b] = late[b]
  /\ \/ io'[b] = [io[b] EXCEPT !.pc = "create"]
     \/ /\ log # <<>> /\ Outranks(io[b].session, Stored)
        /\ io'[b] = [io[b] EXCEPT !.pc = "update", !.rev = Len(log)]
     \/ log # <<>> /\ AtLeast(Stored, io[b].session) /\ io'[b] = Answered(io[b], Stored)
Wrote(b) ==
  /\ io[b].pc \in {"create", "update"} /\ log' = Append(log, io[b].session) /\ late'[b] = late[b]
  /\ io'[b] = Answered(io[b], io[b].session)
LostRace(b) ==
  /\ io[b].pc \in {"create", "update"} /\ log' = log /\ late'[b] = late[b]
  /\ io'[b] = Put("get", io[b].by, io[b].session, 0, io[b].try + 1, None)
PutMoves(b) ==
  /\ SameCache(b) /\ SameFlow(b) /\ SameHolder(b)
  /\ LateServed(b) \/ Got(b) \/ Wrote(b) \/ LostRace(b)

\* A put starts.
PutStarts(b) ==
  /\ records'[b] = records[b] /\ late'[b] = late[b] /\ SameFlow(b) /\ SameHolder(b)
  /\ io[b].pc = "idle" /\ log' = log
  /\ \/ /\ flow[b].pc \in {"sync", "undo"} /\ pending'[b] = Enqueue(pending[b], flow[b].session)
        /\ io'[b] = Put("get", "flow", Enqueue(pending[b], flow[b].session), 0, 1, None)
     \/ /\ pending[b] # None /\ pending'[b] = pending[b]
        /\ io'[b] = Put("get", "retry", pending[b], 0, 1, None)

\* A command ends.
CommandEnded(b) ==
  /\ flow'[b].pc \in {"queued", "none"} /\ (flow'[b].pc = "none" <=> commands'[b] = <<>>)
  /\ \A i \in DOMAIN commands'[b] :
       i + 1 \in DOMAIN commands[b] /\ commands'[b][i] = commands[b][i + 1]
  /\ commands'[b] = <<>> \/ (b \in invalid' <=> b \in invalid)

\* A put ends: it undoes its grant, ends its command, or was a retry.
Undone(b, record) ==
  /\ flow[b].pc = "sync" /\ io[b].by = "flow" /\ Active(record) /\ records'[b] = Revoked(record)
  /\ flow'[b] = [pc |-> "undo", session |-> Revoked(record)]
  /\ commands'[b] = commands[b] /\ (b \in invalid' <=> b \in invalid)
Done(b, record) ==
  /\ io[b].by = "flow" /\ records'[b] = record /\ CommandEnded(b)
  /\ flow[b].pc = "sync" /\ Active(record) => b \notin invalid
Retried(b, record) == io[b].by # "flow" /\ records'[b] = record /\ SameFlow(b)

LateLeft(b) ==
  \/ late'[b] = late[b]
  \/ /\ io[b].pc \in {"create", "update"}
     /\ late'[b] = Put(io[b].pc, "nobody", io[b].session, io[b].rev, 0, None)

PutEnds(b) ==
  /\ io[b].pc # "idle" /\ io'[b] = NoPut /\ log' = log /\ SameHolder(b) /\ LateLeft(b)
  /\ \E record \in Cells, queued \in Cells :
       /\ AtLeast(record, records[b]) /\ Covered(b, record, queued) /\ pending'[b] = queued
       /\ Undone(b, record) \/ Done(b, record) \/ Retried(b, record)

\* A command arrives, passes or is denied.
CommandMoves(b) ==
  /\ SameCache(b) /\ SamePut(b) /\ SameHolder(b) /\ log' = log
  /\ \/ /\ commands'[b] = Append(commands[b], seen[b]) /\ (b \in invalid' <=> b \in invalid)
        /\ flow'[b] = IF commands[b] = <<>> THEN Queued ELSE flow[b]
     \/ /\ commands'[b] = commands[b] /\ (b \in invalid' <=> b \in invalid) /\ flow[b].pc = "queued"
        /\ flow'[b] = [flow[b] EXCEPT !.pc = "claimed"]
     \/ flow[b].pc \in {"queued", "claimed"} /\ CommandEnded(b)

\* It is granted the session that expires at e.
GrantMoves(b, e) ==
  /\ pending'[b] = pending[b] /\ SamePut(b) /\ log' = log /\ seen'[b] = seen[b]
  /\ flow[b].pc = "claimed" /\ b \notin invalid /\ grants[e] = 0 /\ \A f \in mine[b] : f < e
  /\ flow'[b] = [pc |-> "sync", session |-> Session(e, 0, FALSE)]
  /\ commands'[b] = commands[b] /\ b \notin invalid'
  /\ records'[b] = IF ~records[b].revoked \/ Outranks(Session(e, 0, FALSE), records[b])
                     THEN Session(e, 0, FALSE) ELSE records[b]
  /\ mine'[b] = mine[b] \union {e} /\ grants' = [grants EXCEPT ![e] = Head(commands[b])]
  /\ doomed' = IF Head(commands[b]) < seen[b] THEN doomed \union {e} ELSE doomed

\* It sees its identity go.
QuitMoves(b) ==
  /\ SamePut(b) /\ log' = log /\ flow'[b] = flow[b] /\ commands'[b] = commands[b]
  /\ mine'[b] = mine[b] /\ UNCHANGED grants /\ doomed' = doomed \union mine[b]
  /\ commands[b] = <<>> \/ b \in invalid'
  /\ \/ ~Active(records[b]) /\ SameCache(b)
     \/ /\ Active(records[b]) /\ records'[b] = Revoked(records[b])
        /\ pending'[b] = Enqueue(pending[b], Revoked(records[b]))

\* Its watch delivers a record, or breaks or comes back.
WatchMoves(b) ==
  /\ pending'[b] = pending[b] /\ SamePut(b) /\ SameFlow(b) /\ SameHolder(b) /\ log' = log
  /\ \/ records'[b] = records[b]
     \/ \E s \in {Stored} \union {log[i] : i \in DOMAIN log} : records'[b] = Keep(records[b], s)

\* It is off IRC for a while.
OffIRC(b) ==
  /\ SameCache(b) /\ SamePut(b) /\ flow'[b] = flow[b] /\ commands'[b] = commands[b] /\ log' = log
  /\ commands[b] = <<>> \/ b \in invalid'
  /\ mine'[b] = mine[b] /\ UNCHANGED grants
  /\ doomed' = IF flow[b].pc = "sync" THEN doomed \union {flow[b].session.exp} ELSE doomed

\* It crashes.
Crashes(b) ==
  /\ records'[b] = None /\ pending'[b] = None /\ io'[b] = NoPut /\ LateLeft(b) /\ log' = log
  /\ flow'[b] = NoFlow /\ commands'[b] = <<>> /\ mine'[b] = {} /\ UNCHANGED <<grants, doomed>>

Moves(b) ==
  \/ PutMoves(b) \/ PutStarts(b) \/ PutEnds(b) \/ CommandMoves(b)
  \/ \E e \in Expiries : GrantMoves(b, e)
  \/ QuitMoves(b) \/ WatchMoves(b) \/ OffIRC(b) \/ Crashes(b)

LEMMA MovesStep ==
  ASSUME TypeOK, CommandsServed, RecordsRise, RevocationNotLost, NEW b \in Bots, BotStep(b)
  PROVE  Moves(b)
<1>0. /\ Functions /\ log \in Seq(Sessions) /\ Len(log) \in Nat /\ Stored \in Cells
      /\ \A i \in DOMAIN log : log[i] \in Sessions
  BY TypeFunctions, StoredFacts
<1>1. /\ records[b] \in Cells /\ pending[b] \in Cells /\ io[b].session \in Cells
  BY <1>0, PlaceFacts
<1>2. log = <<>> <=> Stored = None
  <2>1. log # <<>> => Len(log) \in DOMAIN log
    BY <1>0
  <2>2. log # <<>> => Stored \in Sessions
    BY <1>0, <2>1 DEF Stored
  <2>3. log = <<>> => Stored = None
    BY DEF Stored
  <2> QED BY <2>2, <2>3, SessionFacts
<1>3. CASE ServeLate(b)
  <2>1. /\ late' = [late EXCEPT ![b] = NoPut]
        /\ UNCHANGED <<records, pending, io, commands, flow, invalid, seen, mine, grants, doomed>>
    BY <1>3 DEF ServeLate, local, irc, history
  <2>2. late'[b] = NoPut
    BY <1>0, <2>1 DEF Functions
  <2>3. PutMoves(b)
    BY <2>1, <2>2 DEF PutMoves, LateServed, SameCache, SameFlow, SameHolder
  <2> QED BY <2>3 DEF Moves
<1>4. CASE Get(b)
  <2>1. /\ UNCHANGED <<log, records, pending, late, commands, flow, invalid, seen, mine, grants, doomed>>
        /\ io[b].pc = "get"
    BY <1>4 DEF Get, irc, history
  <2>2. CASE log = <<>>
    <3>1. io' = [io EXCEPT ![b] = [io[b] EXCEPT !.pc = "create"]]
      BY <1>2, <1>4, <2>2 DEF Get
    <3>2. io'[b] = [io[b] EXCEPT !.pc = "create"]
      BY <1>0, <3>1 DEF Functions
    <3> QED BY <2>1, <3>2 DEF Moves, PutMoves, Got, SameCache, SameFlow, SameHolder
  <2>3. CASE log # <<>> /\ Outranks(io[b].session, Stored)
    <3>1. io' = [io EXCEPT ![b] = [io[b] EXCEPT !.pc = "update", !.rev = Len(log)]]
      BY <1>2, <1>4, <2>3 DEF Get
    <3>2. io'[b] = [io[b] EXCEPT !.pc = "update", !.rev = Len(log)]
      BY <1>0, <3>1 DEF Functions
    <3> QED BY <2>1, <2>3, <3>2 DEF Moves, PutMoves, Got, SameCache, SameFlow, SameHolder
  <2>4. CASE log # <<>> /\ ~Outranks(io[b].session, Stored)
    <3>1. io' = [io EXCEPT ![b] = Answered(io[b], Stored)]
      BY <1>2, <1>4, <2>4 DEF Get
    <3>2. io'[b] = Answered(io[b], Stored) /\ AtLeast(Stored, io[b].session)
      BY <1>0, <2>4, <3>1 DEF Functions, AtLeast
    <3> QED BY <2>1, <2>4, <3>2 DEF Moves, PutMoves, Got, SameCache, SameFlow, SameHolder
  <2> QED BY <2>2, <2>3, <2>4
<1>5. CASE Write(b)
  <2>1. /\ UNCHANGED <<records, pending, late, commands, flow, invalid, seen, mine, grants, doomed>>
        /\ io[b].pc \in {"create", "update"} /\ log' = Append(log, io[b].session)
        /\ io' = [io EXCEPT ![b] = Answered(io[b], io[b].session)]
    BY <1>5 DEF Write, irc, history
  <2>2. io'[b] = Answered(io[b], io[b].session)
    BY <1>0, <2>1 DEF Functions
  <2> QED BY <2>1, <2>2 DEF Moves, PutMoves, Wrote, SameCache, SameFlow, SameHolder
<1>6. CASE LoseRace(b)
  <2>1. /\ UNCHANGED <<log, records, pending, late, commands, flow, invalid, seen, mine, grants, doomed>>
        /\ io[b].pc \in {"create", "update"}
        /\ io' = [io EXCEPT ![b] = Put("get", io[b].by, io[b].session, 0, io[b].try + 1, None)]
    BY <1>6 DEF LoseRace, irc, history
  <2>2. io'[b] = Put("get", io[b].by, io[b].session, 0, io[b].try + 1, None)
    BY <1>0, <2>1 DEF Functions
  <2> QED BY <2>1, <2>2 DEF Moves, PutMoves, LostRace, SameCache, SameFlow, SameHolder
<1>7. CASE SyncStart(b)
  <2> DEFINE queued == Enqueue(pending[b], flow[b].session)
  <2>1. /\ UNCHANGED <<log, records, late, commands, flow, invalid, seen, mine, grants, doomed>>
        /\ flow[b].pc \in {"sync", "undo"} /\ pending' = [pending EXCEPT ![b] = queued]
        /\ io' = [io EXCEPT ![b] = Put("get", "flow", queued, 0, 1, None)] /\ io[b].pc = "idle"
    BY <1>7 DEF SyncStart, irc, history
  <2> HIDE DEF queued
  <2>2. io'[b] = Put("get", "flow", queued, 0, 1, None) /\ pending'[b] = queued
    BY <1>0, <2>1 DEF Functions
  <2> QED BY <2>1, <2>2 DEF Moves, PutStarts, SameFlow, SameHolder, queued
<1>8. CASE RetryStart(b)
  <2>1. /\ UNCHANGED <<log, records, pending, late, commands, flow, invalid, seen, mine, grants, doomed>>
        /\ io[b].pc = "idle" /\ pending[b] # None
        /\ io' = [io EXCEPT ![b] = Put("get", "retry", pending[b], 0, 1, None)]
    BY <1>8 DEF RetryStart, irc, history
  <2>2. io'[b] = Put("get", "retry", pending[b], 0, 1, None)
    BY <1>0, <2>1 DEF Functions
  <2> QED BY <2>1, <2>2 DEF Moves, PutStarts, SameFlow, SameHolder
<1>9. ASSUME flow[b].pc # "none", EndCommand(b) PROVE CommandEnded(b)
  <2>1. commands[b] # <<>>
    BY <1>9 DEF CommandsServed
  <2> QED BY <1>0, <1>9, <2>1, EndCommandFacts DEF CommandEnded
<1>10. CASE EndsPut(b)
  <2>1. PICK record \in Cells, queued \in Cells :
          Released(b, record, queued) /\ AtLeast(record, records[b]) /\ Covered(b, record, queued)
    BY <1>10, ReleaseFacts
  <2>2. io' = [io EXCEPT ![b] = NoPut] /\ pending' = [pending EXCEPT ![b] = queued]
          /\ (Undoes(b, record) \/ Ends(b, record, queued) \/ Retries(b, record))
    BY <2>1, ReleasedCases
  <2>3. UNCHANGED <<log, seen, mine, grants, doomed>> /\ io[b].pc # "idle"
          /\ (late' = late \/ Abandon(b))
    BY <1>10 DEF EndsPut, Written, Exhaust, WriteFails, irc, history
  <2>4. LateLeft(b)
    BY <1>0, <2>3, AbandonFacts DEF LateLeft
  <2>5. io'[b] = NoPut /\ pending'[b] = queued
    BY <1>0, <2>2 DEF Functions
  <2>6. Undone(b, record) \/ Done(b, record) \/ Retried(b, record)
    <3>1. CASE Undoes(b, record)
      BY <1>0, <3>1 DEF Undoes, Undone, Functions
    <3>2. CASE Ends(b, record, queued)
      <4>1. flow[b].pc # "none"
        BY <3>2 DEF Ends, CommandsServed
      <4>2. CommandEnded(b)
        BY <1>9, <3>2, <4>1 DEF Ends
      <4>3. records'[b] = record
        BY <1>0, <3>2 DEF Ends, Functions
      <4> QED BY <3>2, <4>2, <4>3 DEF Ends, Done
    <3>3. CASE Retries(b, record)
      BY <1>0, <3>3 DEF Retries, Retried, SameFlow, Functions
    <3> QED BY <2>2, <3>1, <3>2, <3>3
  <2>7. SameHolder(b)
    BY <2>3 DEF SameHolder
  <2>8. PutEnds(b)
    BY <2>1, <2>3, <2>4, <2>5, <2>6, <2>7 DEF PutEnds
  <2> QED BY <2>8 DEF Moves
<1>11. CASE Auth(b)
  <2>1. /\ UNCHANGED <<log, records, pending, io, late, invalid, seen, mine, grants, doomed>>
        /\ commands' = [commands EXCEPT ![b] = Append(commands[b], seen[b])]
        /\ flow' = [flow EXCEPT ![b] = IF commands[b] = <<>> THEN Queued ELSE flow[b]]
    BY <1>11 DEF Auth, irc, history
  <2>2. /\ commands'[b] = Append(commands[b], seen[b])
        /\ flow'[b] = IF commands[b] = <<>> THEN Queued ELSE flow[b]
    BY <1>0, <2>1 DEF Functions
  <2> QED BY <2>1, <2>2 DEF Moves, CommandMoves, SameCache, SamePut, SameHolder
<1>12. CASE Claim(b)
  <2>1. /\ UNCHANGED <<log, records, pending, io, late, commands, invalid, seen, mine, grants, doomed>>
        /\ flow' = [flow EXCEPT ![b] = [flow[b] EXCEPT !.pc = "claimed"]] /\ flow[b].pc = "queued"
    BY <1>12 DEF Claim, irc, history
  <2>2. flow'[b] = [flow[b] EXCEPT !.pc = "claimed"]
    BY <1>0, <2>1 DEF Functions
  <2> QED BY <2>1, <2>2 DEF Moves, CommandMoves, SameCache, SamePut, SameHolder
<1>13. CASE Deny(b)
  <2>1. /\ UNCHANGED <<log, records, pending, io, late, seen, mine, grants, doomed>>
        /\ flow[b].pc \in {"queued", "claimed"} /\ EndCommand(b)
    BY <1>13 DEF Deny, irc, history
  <2>2. CommandEnded(b)
    BY <1>9, <2>1
  <2> QED BY <2>1, <2>2 DEF Moves, CommandMoves, SameCache, SamePut, SameHolder
<1>14. ASSUME NEW e \in Expiries, Grant(b, e) PROVE Moves(b)
  <2> DEFINE session == Session(e, 0, FALSE)
             held == IF ~records[b].revoked \/ Outranks(session, records[b]) THEN session ELSE records[b]
  <2>1. /\ UNCHANGED <<log, pending, io, late, commands, invalid, seen>>
        /\ flow[b].pc = "claimed" /\ b \notin invalid /\ grants[e] = 0 /\ \A f \in mine[b] : f < e
        /\ grants' = [grants EXCEPT ![e] = Head(commands[b])]
        /\ doomed' = IF Head(commands[b]) < seen[b] THEN doomed \union {e} ELSE doomed
    BY <1>14 DEF Grant, Watched, irc
  <2>2. /\ records' = [records EXCEPT ![b] = held]
        /\ flow' = [flow EXCEPT ![b] = [pc |-> "sync", session |-> session]]
        /\ mine' = [mine EXCEPT ![b] = mine[b] \union {e}]
    BY <1>14 DEF Grant
  <2> HIDE DEF held, session
  <2>3. /\ records'[b] = held /\ flow'[b] = [pc |-> "sync", session |-> session]
        /\ mine'[b] = mine[b] \union {e}
    BY <1>0, <2>2 DEF Functions
  <2>4. GrantMoves(b, e)
    BY <2>1, <2>3 DEF GrantMoves, SamePut, held, session
  <2> QED BY <2>4 DEF Moves
<1>15. CASE SeeQuit(b)
  <2>1. /\ UNCHANGED <<log, io, late, commands, flow, mine, grants>> /\ doomed' = doomed \union mine[b]
        /\ commands[b] = <<>> \/ b \in invalid'
        /\ \/ ~Active(records[b]) /\ UNCHANGED <<records, pending>>
           \/ /\ Active(records[b]) /\ records' = [records EXCEPT ![b] = Revoked(records[b])]
              /\ pending' = [pending EXCEPT ![b] = Enqueue(pending[b], Revoked(records[b]))]
    BY <1>15 DEF SeeQuit
  <2>2. \/ ~Active(records[b]) /\ SameCache(b)
        \/ /\ Active(records[b]) /\ records'[b] = Revoked(records[b])
           /\ pending'[b] = Enqueue(pending[b], Revoked(records[b]))
    BY <1>0, <2>1 DEF Functions, SameCache
  <2> QED BY <2>1, <2>2 DEF Moves, QuitMoves, SamePut
<1>16. CASE Deliver(b)
  <2>1. PICK rev \in (pos[b] + 1) .. Len(log) : records' = [records EXCEPT ![b] = Keep(records[b], log[rev])]
    BY <1>16 DEF Deliver
  <2>2. pos[b] \in Nat
    BY <1>0 DEF Functions
  <2>3. rev \in DOMAIN log
    BY <1>0, <2>2
  <2>4. records'[b] = Keep(records[b], log[rev])
    BY <1>0, <2>1 DEF Functions
  <2>5. UNCHANGED <<log, pending, io, late, commands, flow, invalid, seen, mine, grants, doomed>>
    BY <1>16 DEF Deliver, irc, history
  <2> QED BY <2>3, <2>4, <2>5 DEF Moves, WatchMoves, SamePut, SameFlow, SameHolder
<1>17. CASE Reconnect(b) \/ Replay(b) \/ Disconnect(b) \/ WatchFails(b)
  <2>1. /\ UNCHANGED <<log, pending, io, late, commands, flow, invalid, seen, mine, grants, doomed>>
        /\ records' = [records EXCEPT ![b] = Keep(records[b], Stored)] \/ UNCHANGED records
    BY <1>17 DEF Reconnect, Replay, Disconnect, WatchFails, local, irc, history
  <2>2. records'[b] = records[b] \/ records'[b] = Keep(records[b], Stored)
    BY <1>0, <2>1 DEF Functions
  <2> QED BY <2>1, <2>2 DEF Moves, WatchMoves, SamePut, SameFlow, SameHolder
<1>18. CASE LoseIRC(b)
  <2>1. /\ UNCHANGED <<log, records, pending, io, late, commands, flow, mine, grants>>
        /\ commands[b] = <<>> \/ b \in invalid'
        /\ doomed' = IF flow[b].pc = "sync" THEN doomed \union {flow[b].session.exp} ELSE doomed
    BY <1>18 DEF LoseIRC
  <2> QED BY <2>1 DEF Moves, OffIRC, SameCache, SamePut
<1>19. CASE Crash(b)
  <2>1. /\ records' = [records EXCEPT ![b] = None] /\ pending' = [pending EXCEPT ![b] = None]
        /\ io' = [io EXCEPT ![b] = NoPut] /\ flow' = [flow EXCEPT ![b] = NoFlow]
        /\ commands' = [commands EXCEPT ![b] = <<>>] /\ mine' = [mine EXCEPT ![b] = {}]
        /\ UNCHANGED <<log, grants, doomed>> /\ Abandon(b)
    BY <1>19 DEF Crash
  <2>2. /\ records'[b] = None /\ pending'[b] = None /\ io'[b] = NoPut /\ flow'[b] = NoFlow
        /\ commands'[b] = <<>> /\ mine'[b] = {}
    BY <1>0, <2>1 DEF Functions
  <2>3. LateLeft(b)
    BY <1>0, <2>1, AbandonFacts DEF LateLeft
  <2> QED BY <2>1, <2>2, <2>3 DEF Moves, Crashes
<1> QED BY <1>3, <1>4, <1>5, <1>6, <1>7, <1>8, <1>10, <1>11, <1>12, <1>13, <1>14, <1>15, <1>16,
           <1>17, <1>18, <1>19
        DEF BotStep, PutStep, FlowStep, WatchStep, EndsPut

-----------------------------------------------------------------------------
(* Commands are served *)

Served(b) ==
  /\ flow[b].pc = "none" <=> commands[b] = <<>>
  /\ flow[b].pc = "sync" => flow[b].session \in Sessions /\ ~flow[b].session.revoked
  /\ flow[b].pc = "undo" => flow[b].session \in Sessions /\ flow[b].session.revoked
  /\ io[b].pc = "idle" <=> io[b] = NoPut
  /\ io[b].by = "flow" => flow[b].pc \in {"sync", "undo"}
  /\ io[b].pc # "idle" => io[b].session \in Sessions /\ io[b].by \in {"flow", "retry"}
  /\ io[b].pc = "reply" => io[b].stored \in Sessions
  /\ late[b].pc \in {"idle", "create", "update"}
  /\ late[b].pc # "idle" => late[b].session \in Sessions

LEMMA PutFields ==
  /\ NoPut.pc = "idle" /\ NoPut.by = "nobody"
  /\ \A pc, by, session, rev, try, stored :
       LET p == Put(pc, by, session, rev, try, stored) IN
       /\ p.pc = pc /\ p.by = by /\ p.session = session /\ p.rev = rev /\ p.stored = stored
  /\ \A p \in Puts :
       /\ [p EXCEPT !.pc = "create"].pc = "create" /\ [p EXCEPT !.pc = "create"].by = p.by
       /\ [p EXCEPT !.pc = "create"].session = p.session
       /\ \A n : LET q == [p EXCEPT !.pc = "update", !.rev = n] IN
                 q.pc = "update" /\ q.by = p.by /\ q.session = p.session /\ q.rev = n
BY DEF NoPut, Put, Puts

LEMMA GotFacts ==
  ASSUME NEW b \in Bots, io[b] \in Puts, Got(b)
  PROVE  /\ io'[b].session = io[b].session /\ io'[b].by = io[b].by
         /\ \/ io'[b].pc = "create"
            \/ /\ io'[b].pc = "update" /\ io'[b].rev = Len(log) /\ log # <<>>
               /\ Outranks(io[b].session, Stored)
            \/ /\ io'[b].pc = "reply" /\ io'[b].stored = Stored /\ log # <<>>
               /\ AtLeast(Stored, io[b].session)
<1>1. CASE io'[b] = [io[b] EXCEPT !.pc = "create"]
  BY <1>1, PutFields
<1>2. CASE /\ log # <<>> /\ Outranks(io[b].session, Stored)
           /\ io'[b] = [io[b] EXCEPT !.pc = "update", !.rev = Len(log)]
  <2>1. io'[b].pc = "update" /\ io'[b].rev = Len(log) /\ io'[b].session = io[b].session
          /\ io'[b].by = io[b].by
    BY <1>2 DEF Puts
  <2> QED BY <1>2, <2>1
<1>3. CASE log # <<>> /\ AtLeast(Stored, io[b].session) /\ io'[b] = Answered(io[b], Stored)
  <2>1. io'[b].pc = "reply" /\ io'[b].stored = Stored /\ io'[b].session = io[b].session
          /\ io'[b].by = io[b].by
    BY <1>3 DEF Answered, Put
  <2> QED BY <1>3, <2>1
<1> QED BY <1>1, <1>2, <1>3 DEF Got

LEMMA ServedStep ==
  ASSUME TypeOK, CommandsServed, NEW b \in Bots, Moves(b)
  PROVE  Served(b)'
<1>0. /\ Functions /\ log \in Seq(Sessions) /\ \A i \in DOMAIN log : log[i] \in Sessions
  BY TypeFunctions, StoredFacts
<1>1. /\ records[b] \in Cells /\ pending[b] \in Cells /\ io[b] \in Puts /\ flow[b] \in Flows
      /\ io[b].pc \in {"idle", "get", "create", "update", "reply"}
      /\ io[b].by \in {"nobody", "flow", "retry"}
      /\ commands[b] \in Seq(1..MaxLife) /\ seen[b] \in 1..MaxLife
  BY <1>0, PlaceFacts DEF Functions
<1>2. Served(b)
  BY DEF CommandsServed, Served
<1>3. log # <<>> => Stored \in Sessions
  <2>1. log # <<>> => Len(log) \in DOMAIN log
    BY <1>0
  <2> QED BY <1>0, <2>1 DEF Stored
<1>4. CASE PutMoves(b)
  <2>1. flow'[b] = flow[b] /\ commands'[b] = commands[b]
    BY <1>4 DEF PutMoves, SameFlow
  <2>2. CASE LateServed(b)
    BY <1>2, <2>1, <2>2, PutFields DEF LateServed, Served
  <2>3. CASE Got(b)
    <3>1. io[b].pc = "get" /\ late'[b] = late[b]
      BY <2>3 DEF Got
    <3>2. /\ io'[b].session = io[b].session /\ io'[b].by = io[b].by
          /\ io'[b].pc \in {"create", "update", "reply"}
          /\ io'[b].pc = "reply" => io'[b].stored \in Sessions
      BY <1>1, <1>3, <2>3, GotFacts
    <3> QED BY <1>2, <2>1, <3>1, <3>2, PutFields DEF Served
  <2>4. CASE Wrote(b) \/ LostRace(b)
    <3>1. io[b].pc # "idle" /\ late'[b] = late[b] /\ io'[b].session = io[b].session
            /\ io'[b].by = io[b].by /\ io'[b].pc \in {"get", "reply"}
            /\ (io'[b].pc = "reply" => io'[b].stored = io[b].session)
      BY <2>4, PutFields DEF Wrote, LostRace, Answered
    <3> QED BY <1>2, <2>1, <3>1, PutFields DEF Served
  <2> QED BY <1>4, <2>2, <2>3, <2>4 DEF PutMoves
<1>5. CASE PutStarts(b)
  <2>1. flow'[b] = flow[b] /\ commands'[b] = commands[b] /\ late'[b] = late[b]
    BY <1>5 DEF PutStarts, SameFlow
  <2>2. io'[b].pc = "get" /\ io'[b].session \in Sessions /\ io'[b].by \in {"flow", "retry"}
          /\ (io'[b].by = "flow" => flow[b].pc \in {"sync", "undo"})
    <3>1. CASE /\ flow[b].pc \in {"sync", "undo"}
               /\ io'[b] = Put("get", "flow", Enqueue(pending[b], flow[b].session), 0, 1, None)
      <4>1. Enqueue(pending[b], flow[b].session) \in Sessions
        BY <1>1, <1>2, <3>1, EnqueueFacts DEF Served
      <4> QED BY <3>1, <4>1, PutFields
    <3>2. CASE pending[b] # None /\ io'[b] = Put("get", "retry", pending[b], 0, 1, None)
      <4>1. pending[b] \in Sessions
        BY <1>1, <3>2, CellFacts
      <4> QED BY <3>2, <4>1, PutFields
    <3> QED BY <1>5, <3>1, <3>2 DEF PutStarts
  <2> QED BY <1>2, <2>1, <2>2, PutFields DEF Served
<1>6. ASSUME io'[b] = NoPut, LateLeft(b),
             flow'[b].pc = "none" <=> commands'[b] = <<>>,
             flow'[b].pc = "sync" => flow'[b].session \in Sessions /\ ~flow'[b].session.revoked,
             flow'[b].pc = "undo" => flow'[b].session \in Sessions /\ flow'[b].session.revoked
      PROVE  Served(b)'
  <2>1. late'[b].pc \in {"idle", "create", "update"} /\ (late'[b].pc # "idle" => late'[b].session \in Sessions)
    BY <1>2, <1>6, PutFields DEF LateLeft, Served
  <2> QED BY <1>6, <2>1, PutFields DEF Served
<1>7. CASE PutEnds(b)
  <2>1. PICK record \in Cells : Undone(b, record) \/ Done(b, record) \/ Retried(b, record)
    BY <1>7 DEF PutEnds
  <2>2. CASE Undone(b, record)
    <3>1. Revoked(record) \in Sessions /\ Revoked(record).revoked
      BY <2>2, RevokedFacts DEF Undone
    <3>2. flow'[b].pc = "undo" /\ flow'[b].session = Revoked(record) /\ commands'[b] = commands[b]
            /\ flow[b].pc = "sync"
      BY <2>2 DEF Undone
    <3> QED BY <1>2, <1>6, <1>7, <3>1, <3>2 DEF PutEnds, Served
  <2>3. CASE Done(b, record)
    BY <1>6, <1>7, <2>3 DEF PutEnds, Done, CommandEnded
  <2>4. CASE Retried(b, record)
    BY <1>2, <1>6, <1>7, <2>4 DEF PutEnds, Retried, SameFlow, Served
  <2> QED BY <2>1, <2>2, <2>3, <2>4
<1>8. CASE CommandMoves(b)
  <2>1. io'[b] = io[b] /\ late'[b] = late[b]
    BY <1>8 DEF CommandMoves, SamePut
  <2>2. CASE /\ commands'[b] = Append(commands[b], seen[b])
             /\ flow'[b] = IF commands[b] = <<>> THEN Queued ELSE flow[b]
    <3>1. commands'[b] # <<>>
      <4>1. \A S : \A q \in Seq(S) : \A e \in S : Append(q, e) # <<>>
        <5>1. \A S : \A q \in Seq(S) : \A e \in S : Len(Append(q, e)) = Len(q) + 1 /\ Len(q) \in Nat
          OBVIOUS
        <5>2. Len(<<>>) = 0 /\ \A n \in Nat : n + 1 # 0
          OBVIOUS
        <5> QED BY <5>1, <5>2
      <4> QED BY <1>1, <2>2, <4>1
    <3>2. CASE commands[b] = <<>>
      <4>1. flow'[b].pc = "queued" /\ flow[b].pc = "none"
        BY <1>2, <2>2, <3>2 DEF Queued, Served
      <4> QED BY <1>2, <2>1, <3>1, <4>1 DEF Served
    <3>3. CASE commands[b] # <<>>
      BY <1>2, <2>1, <2>2, <3>1, <3>3 DEF Served
    <3> QED BY <3>2, <3>3
  <2>3. CASE /\ commands'[b] = commands[b] /\ flow[b].pc = "queued"
             /\ flow'[b] = [flow[b] EXCEPT !.pc = "claimed"]
    <3>1. flow'[b].pc = "claimed"
      BY <1>1, <2>3 DEF Flows
    <3> QED BY <1>2, <2>1, <2>3, <3>1 DEF Served
  <2>4. CASE flow[b].pc \in {"queued", "claimed"} /\ CommandEnded(b)
    BY <1>2, <2>1, <2>4 DEF CommandEnded, Served
  <2> QED BY <1>8, <2>2, <2>3, <2>4 DEF CommandMoves
<1>9. ASSUME NEW e \in Expiries, GrantMoves(b, e) PROVE Served(b)'
  <2>1. io'[b] = io[b] /\ late'[b] = late[b] /\ flow'[b].pc = "sync"
          /\ flow'[b].session = Session(e, 0, FALSE) /\ commands'[b] = commands[b]
          /\ flow[b].pc = "claimed"
    BY <1>9 DEF GrantMoves, SamePut
  <2> QED BY <1>2, <2>1, GrantFacts DEF Served
<1>10. CASE QuitMoves(b) \/ WatchMoves(b) \/ OffIRC(b)
  BY <1>2, <1>10 DEF QuitMoves, WatchMoves, OffIRC, SamePut, SameFlow, Served
<1>11. CASE Crashes(b)
  <2>1. flow'[b].pc = "none" /\ commands'[b] = <<>>
    BY <1>11 DEF Crashes, NoFlow
  <2> QED BY <1>6, <1>11, <2>1 DEF Crashes
<1> QED BY <1>4, <1>5, <1>7, <1>8, <1>9, <1>10, <1>11 DEF Moves

-----------------------------------------------------------------------------
(* Records rise *)

LEMMA AppendFacts ==
  ASSUME NEW S, NEW q \in Seq(S), NEW e \in S
  PROVE  /\ Append(q, e) \in Seq(S) /\ Append(q, e) # <<>>
         /\ Len(q) \in Nat /\ Len(Append(q, e)) = Len(q) + 1
         /\ Append(q, e)[Len(Append(q, e))] = e
         /\ \A i \in DOMAIN q : i \in DOMAIN Append(q, e) /\ Append(q, e)[i] = q[i]
         /\ \A i \in DOMAIN Append(q, e) :
              (i \in DOMAIN q /\ Append(q, e)[i] = q[i]) \/ Append(q, e)[i] = e
         /\ q # <<>> => Len(q) \in DOMAIN q
<1>1. /\ Append(q, e) \in Seq(S) /\ Len(q) \in Nat /\ Len(Append(q, e)) = Len(q) + 1
      /\ DOMAIN q = 1 .. Len(q) /\ DOMAIN Append(q, e) = 1 .. Len(q) + 1
      /\ \A i \in 1 .. Len(q) : Append(q, e)[i] = q[i]
      /\ Append(q, e)[Len(q) + 1] = e
      /\ q # <<>> => Len(q) \in DOMAIN q
  OBVIOUS
<1>2. Append(q, e) # <<>>
  <2>1. Len(<<>>) = 0 /\ \A n \in Nat : n + 1 # 0
    OBVIOUS
  <2> QED BY <1>1, <2>1
<1>3. \A i \in 1 .. Len(q) : i \in 1 .. Len(q) + 1
  BY <1>1
<1>4. \A i \in 1 .. Len(q) + 1 : i \in 1 .. Len(q) \/ i = Len(q) + 1
  BY <1>1
<1> QED BY <1>1, <1>2, <1>3, <1>4

\* The write that changes the bucket puts a higher record in it.
LEMMA LogRises ==
  ASSUME TypeOK, CommandsServed, RecordsRise, NEW b \in Bots, LogGrows(b)
  PROVE  /\ Stored' \in Cells /\ Rank(Stored') >= Rank(Stored) /\ log' \in Seq(Sessions)
         /\ \A i \in DOMAIN log' : log'[i] \in Sessions /\ Rank(Stored') >= Rank(log'[i])
         /\ \A put : Replaces(put) => Replaces(put)'
         /\ log' # log => \E put \in {io[b], late[b]} :
              put.pc # "idle" /\ log' = Append(log, put.session) /\ Stored' = put.session
<1>0. /\ log \in Seq(Sessions) /\ \A i \in DOMAIN log : log[i] \in Sessions
      /\ Stored \in Cells /\ Rank(Stored) \in Nat
  BY TypeFunctions, StoredFacts, CellFacts
<1>1. \A i \in DOMAIN log : Rank(log[i]) \in Nat /\ Rank(Stored) >= Rank(log[i])
  BY <1>0, OrderFacts, SessionFacts, CellFacts DEF RecordsRise
<1>2. CASE log' = log
  BY <1>0, <1>1, <1>2 DEF Stored, Replaces
<1>3. ASSUME NEW put \in {io[b], late[b]}, put.pc \in {"create", "update"}, Accepts(put),
             log' = Append(log, put.session)
      PROVE  /\ Stored' \in Cells /\ Rank(Stored') >= Rank(Stored) /\ log' \in Seq(Sessions)
             /\ \A i \in DOMAIN log' : log'[i] \in Sessions /\ Rank(Stored') >= Rank(log'[i])
             /\ \A p : Replaces(p) => Replaces(p)'
             /\ put.pc # "idle" /\ log' = Append(log, put.session) /\ Stored' = put.session
  <2> DEFINE s == put.session
  <2>1. s \in Sessions /\ Replaces(put)
    BY <1>3 DEF CommandsServed, RecordsRise
  <2>2. s \in Cells /\ Rank(s) \in Nat
    BY <2>1, SessionFacts, CellFacts
  <2> HIDE DEF s
  <2>3. /\ log' \in Seq(Sessions) /\ log' # <<>> /\ log'[Len(log')] = s
        /\ \A i \in DOMAIN log : i \in DOMAIN log' /\ log'[i] = log[i]
        /\ \A i \in DOMAIN log' : (i \in DOMAIN log /\ log'[i] = log[i]) \/ log'[i] = s
        /\ log # <<>> => Len(log) \in DOMAIN log
    <3>1. log' = Append(log, s)
      BY <1>3 DEF s
    <3> QED BY <1>0, <2>1, <3>1, AppendFacts
  <2>4. Stored' = s
    BY <2>3 DEF Stored
  <2>5. Rank(s) >= Rank(Stored) /\ \A i \in DOMAIN log : Rank(s) >= Rank(log[i])
    <3>1. CASE put.pc = "create"
      <4>1. log = <<>>
        BY <1>3, <3>1 DEF Accepts
      <4>2. Stored = None /\ DOMAIN log = {}
        BY <4>1 DEF Stored
      <4> QED BY <2>2, <4>2, NoneFacts
    <3>2. CASE put.pc = "update"
      <4>1. Len(log) = put.rev /\ put.rev \in DOMAIN log /\ Outranks(s, log[put.rev])
        BY <1>3, <2>1, <3>2 DEF Accepts, Replaces, s
      <4>2. log[put.rev] \in Sessions
        BY <1>0, <4>1
      <4>3. Rank(s) > Rank(log[put.rev])
        BY <2>2, <4>1, <4>2, OrderFacts, SessionFacts
      <4>4. Stored = log[put.rev]
        <5>1. log # <<>>
          BY <4>1
        <5> QED BY <4>1, <5>1 DEF Stored
      <4> QED BY <1>0, <1>1, <2>2, <4>3, <4>4
    <3> QED BY <1>3, <3>1, <3>2
  <2>6. \A i \in DOMAIN log' : log'[i] \in Sessions /\ Rank(s) >= Rank(log'[i])
    BY <1>0, <2>1, <2>2, <2>3, <2>5
  <2>7. \A p : Replaces(p) => Replaces(p)'
    BY <2>3 DEF Replaces
  <2> QED BY <1>3, <2>2, <2>3, <2>4, <2>5, <2>6, <2>7 DEF s
<1> QED BY <1>2, <1>3 DEF LogGrows

Rises(b) ==
  /\ Replaces(io[b]) /\ Replaces(late[b])
  /\ io[b].pc # "idle" => AtLeast(pending[b], io[b].session)
  /\ io[b].pc = "reply" =>
       AtLeast(Stored, io[b].stored) /\ AtLeast(io[b].stored, io[b].session)
  /\ io[b].by = "flow" => AtLeast(io[b].session, flow[b].session)

LEMMA RisesStep ==
  ASSUME TypeOK, CommandsServed, RecordsRise, NEW b \in Bots, Moves(b), LogGrows(b)
  PROVE  Rises(b)'
<1>0. /\ records[b] \in Cells /\ pending[b] \in Cells /\ flow[b].session \in Cells
      /\ io[b] \in Puts /\ io[b].session \in Cells /\ io[b].stored \in Cells
      /\ io[b].pc \in {"idle", "get", "create", "update", "reply"}
      /\ io[b].pc # "idle" => io[b].session \in Sessions
      /\ io[b].pc = "idle" => io[b].by = "nobody"
  BY PlaceFacts
<1>1. /\ Rank(records[b]) \in Nat /\ Rank(pending[b]) \in Nat /\ Rank(flow[b].session) \in Nat
      /\ Rank(io[b].session) \in Nat /\ Rank(io[b].stored) \in Nat
  BY <1>0, CellFacts
<1>2. /\ Stored' \in Cells /\ Rank(Stored') >= Rank(Stored)
      /\ \A put : Replaces(put) => Replaces(put)'
  BY LogRises
<1>3. Stored \in Cells /\ Rank(Stored) \in Nat /\ Rank(Stored') \in Nat
  BY <1>2, TypeFunctions, CellFacts
<1>4. Rises(b) /\ Served(b)
  BY DEF RecordsRise, Rises, CommandsServed, Served
<1>5. /\ io[b].pc # "idle" => Rank(pending[b]) >= Rank(io[b].session)
      /\ io[b].pc = "reply" =>
           Rank(Stored) >= Rank(io[b].stored) /\ AtLeast(io[b].stored, io[b].session)
      /\ io[b].by = "flow" => AtLeast(io[b].session, flow[b].session)
  BY <1>0, <1>3, <1>4, OrderFacts DEF Rises
<1>6. late'[b] = late[b] \/ late'[b] = NoPut => Replaces(late[b])'
  <2>1. late'[b] = late[b] => Replaces(late[b])'
    BY <1>2, <1>4 DEF Rises, Replaces
  <2>2. late'[b] = NoPut => Replaces(late[b])'
    BY PutFields DEF Replaces
  <2> QED BY <2>1, <2>2
<1>7. ASSUME NEW p \in Cells, io'[b] = io[b], late'[b] = late[b] \/ late'[b] = NoPut,
             pending'[b] = p, Rank(p) >= Rank(pending[b]),
             io[b].by = "flow" => flow'[b] = flow[b]
      PROVE  Rises(b)'
  <2>1. Replaces(io[b])'
    BY <1>2, <1>4, <1>7 DEF Rises, Replaces
  <2>2. io[b].pc # "idle" => AtLeast(p, io[b].session)
    <3>1. Rank(p) \in Nat
      BY CellFacts
    <3> QED BY <1>0, <1>1, <1>5, <1>7, <3>1, OrderFacts
  <2>3. io[b].pc = "reply" => AtLeast(Stored', io[b].stored)
    BY <1>0, <1>1, <1>2, <1>3, <1>5, OrderFacts
  <2> QED BY <1>5, <1>6, <1>7, <2>1, <2>2, <2>3 DEF Rises
<1>8. ASSUME io'[b] = NoPut, LateLeft(b) PROVE Rises(b)'
  <2>1. Replaces(io[b])'
    BY <1>8, PutFields DEF Replaces
  <2>2. Replaces(late[b])'
    <3>1. CASE late'[b] = late[b]
      BY <1>6, <3>1
    <3>2. CASE late'[b] = Put(io[b].pc, "nobody", io[b].session, io[b].rev, 0, None)
      <4>1. late'[b].pc = io[b].pc /\ late'[b].session = io[b].session /\ late'[b].rev = io[b].rev
        BY <3>2, PutFields
      <4> QED BY <1>2, <1>4, <4>1 DEF Rises, Replaces
    <3> QED BY <1>8, <3>1, <3>2 DEF LateLeft
  <2> QED BY <1>8, <2>1, <2>2, PutFields DEF Rises
<1>9. ASSUME PutMoves(b), ~LateServed(b) PROVE Rises(b)'
  <2>1. /\ pending'[b] = pending[b] /\ flow'[b] = flow[b] /\ late'[b] = late[b]
        /\ io[b].pc # "idle"
    BY <1>9 DEF PutMoves, SameCache, SameFlow, Got, Wrote, LostRace
  <2>2. AtLeast(pending[b], io[b].session) /\ (io[b].by = "flow" => AtLeast(io[b].session, flow[b].session))
    BY <1>4, <2>1 DEF Rises
  <2>3. ASSUME io'[b].session = io[b].session, io'[b].by = io[b].by,
               io'[b].pc = "update" => Replaces(io[b])',
               io'[b].pc = "reply" =>
                 AtLeast(Stored', io'[b].stored) /\ AtLeast(io'[b].stored, io[b].session)
        PROVE  Rises(b)'
    <3>1. Replaces(io[b])'
      BY <2>3 DEF Replaces
    <3> QED BY <1>6, <2>1, <2>2, <2>3, <3>1 DEF Rises
  <2>4. CASE Got(b)
    <3>1. /\ io'[b].session = io[b].session /\ io'[b].by = io[b].by
          /\ \/ io'[b].pc = "create"
             \/ /\ io'[b].pc = "update" /\ io'[b].rev = Len(log) /\ log # <<>>
                /\ Outranks(io[b].session, Stored)
             \/ /\ io'[b].pc = "reply" /\ io'[b].stored = Stored /\ log # <<>>
                /\ AtLeast(Stored, io[b].session)
      BY <1>0, <2>4, GotFacts
    <3>2. Stored' = Stored /\ AtLeast(Stored, Stored) /\ log' = log
      <4>1. Stored' = Stored /\ log' = log
        BY <2>4 DEF Got, Stored
      <4> QED BY <1>3, <4>1, OrderFacts
    <3>3. io'[b].pc = "update" => Replaces(io[b])'
      <4>1. log # <<>> => Stored = log[Len(log)] /\ Len(log) \in DOMAIN log
        <5>1. log \in Seq(Sessions)
          BY DEF TypeOK
        <5>2. log # <<>> => Len(log) \in DOMAIN log
          BY <5>1
        <5> QED BY <5>2 DEF Stored
      <4> QED BY <3>1, <3>2, <4>1 DEF Replaces
    <3> QED BY <2>3, <3>1, <3>2, <3>3
  <2>5. CASE Wrote(b)
    <3>1. /\ io'[b].session = io[b].session /\ io'[b].by = io[b].by
          /\ io'[b].pc = "reply" /\ io'[b].stored = io[b].session
      BY <2>5, PutFields DEF Wrote, Answered
    <3>2. AtLeast(io[b].session, io[b].session)
      BY <1>0, <1>1, OrderFacts
    <3>3. Stored' = io[b].session
      <4>1. log \in Seq(Sessions) /\ io[b].session \in Sessions
        BY <1>0, <2>1 DEF TypeOK
      <4>2. log' = Append(log, io[b].session)
        BY <2>5 DEF Wrote
      <4>3. log' # <<>> /\ log'[Len(log')] = io[b].session
        BY <4>1, <4>2, AppendFacts
      <4> QED BY <4>3 DEF Stored
    <3> QED BY <2>3, <3>1, <3>2, <3>3
  <2>6. CASE LostRace(b)
    <3>1. io'[b].session = io[b].session /\ io'[b].by = io[b].by /\ io'[b].pc = "get"
      BY <2>6, PutFields DEF LostRace
    <3> QED BY <2>3, <3>1
  <2> QED BY <1>9, <2>4, <2>5, <2>6 DEF PutMoves
<1>10. CASE PutMoves(b)
  <2>1. pending'[b] = pending[b] /\ flow'[b] = flow[b]
    BY <1>10 DEF PutMoves, SameCache, SameFlow
  <2>2. CASE LateServed(b)
    BY <1>0, <1>1, <1>7, <2>1, <2>2 DEF LateServed
  <2> QED BY <1>9, <1>10, <2>2
<1>11. CASE PutStarts(b)
  <2>1. late'[b] = late[b] /\ flow'[b] = flow[b]
    BY <1>11 DEF PutStarts, SameFlow
  <2>2. ASSUME NEW q \in Sessions, NEW by \in {"flow", "retry"},
               pending'[b] = q, io'[b] = Put("get", by, q, 0, 1, None),
               by = "flow" => AtLeast(q, flow[b].session)
        PROVE  Rises(b)'
    <3>1. io'[b].pc = "get" /\ io'[b].by = by /\ io'[b].session = q
      BY <2>2, PutFields
    <3>2. AtLeast(q, q)
      BY SessionFacts, CellFacts, OrderFacts
    <3>3. Replaces(io[b])'
      BY <3>1 DEF Replaces
    <3> QED BY <1>6, <2>1, <2>2, <3>1, <3>2, <3>3 DEF Rises
  <2>3. CASE /\ flow[b].pc \in {"sync", "undo"} /\ pending'[b] = Enqueue(pending[b], flow[b].session)
             /\ io'[b] = Put("get", "flow", Enqueue(pending[b], flow[b].session), 0, 1, None)
    <3>1. flow[b].session \in Sessions
      BY <1>4, <2>3 DEF Served
    <3>2. /\ Enqueue(pending[b], flow[b].session) \in Sessions
          /\ Rank(Enqueue(pending[b], flow[b].session)) >= Rank(flow[b].session)
      BY <1>0, <3>1, EnqueueFacts
    <3>3. AtLeast(Enqueue(pending[b], flow[b].session), flow[b].session)
      BY <1>0, <3>2, OrderFacts, SessionFacts
    <3> QED BY <2>2, <2>3, <3>2, <3>3
  <2>4. CASE /\ pending[b] # None /\ pending'[b] = pending[b]
             /\ io'[b] = Put("get", "retry", pending[b], 0, 1, None)
    <3>1. pending[b] \in Sessions
      BY <1>0, <2>4, CellFacts
    <3> QED BY <2>2, <2>4, <3>1
  <2> QED BY <1>11, <2>3, <2>4 DEF PutStarts
<1>12. CASE PutEnds(b) \/ Crashes(b)
  BY <1>8, <1>12 DEF PutEnds, Crashes
<1>13. CASE CommandMoves(b)
  <2>1. io'[b] = io[b] /\ late'[b] = late[b] /\ pending'[b] = pending[b]
    BY <1>13 DEF CommandMoves, SamePut, SameCache
  <2>2. io[b].by = "flow" => flow'[b] = flow[b]
    <3>1. flow[b].pc \in {"sync", "undo"} => flow'[b] = flow[b]
      BY <1>4, <1>13 DEF CommandMoves, Served
    <3> QED BY <1>4, <3>1 DEF Served
  <2> QED BY <1>0, <1>1, <1>7, <2>1, <2>2
<1>14. ASSUME NEW e \in Expiries, GrantMoves(b, e) PROVE Rises(b)'
  <2>1. io'[b] = io[b] /\ late'[b] = late[b] /\ pending'[b] = pending[b] /\ io[b].by # "flow"
    BY <1>4, <1>14 DEF GrantMoves, SamePut, Served
  <2> QED BY <1>0, <1>1, <1>7, <2>1
<1>15. CASE QuitMoves(b)
  <2>1. io'[b] = io[b] /\ late'[b] = late[b] /\ flow'[b] = flow[b]
    BY <1>15 DEF QuitMoves, SamePut
  <2>2. CASE pending'[b] = pending[b]
    BY <1>0, <1>1, <1>7, <2>1, <2>2
  <2>3. CASE Active(records[b]) /\ pending'[b] = Enqueue(pending[b], Revoked(records[b]))
    <3>1. Revoked(records[b]) \in Sessions
      BY <1>0, <2>3, RevokedFacts
    <3>2. /\ Enqueue(pending[b], Revoked(records[b])) \in Cells
          /\ Rank(Enqueue(pending[b], Revoked(records[b]))) >= Rank(pending[b])
      BY <1>0, <3>1, EnqueueFacts, SessionFacts
    <3> QED BY <1>7, <2>1, <2>3, <3>2
  <2> QED BY <1>15, <2>2, <2>3 DEF QuitMoves, SameCache
<1>16. CASE WatchMoves(b) \/ OffIRC(b)
  <2>1. io'[b] = io[b] /\ late'[b] = late[b] /\ flow'[b] = flow[b] /\ pending'[b] = pending[b]
    BY <1>16 DEF WatchMoves, OffIRC, SamePut, SameFlow, SameCache
  <2> QED BY <1>0, <1>1, <1>7, <2>1
<1> QED BY <1>10, <1>11, <1>12, <1>13, <1>14, <1>15, <1>16 DEF Moves

-----------------------------------------------------------------------------
(* No revocation is lost *)

Remembered(b) ==
  records[b].revoked =>
    \/ AtLeast(pending[b], records[b]) \/ AtLeast(Stored, records[b])
    \/ flow[b].pc = "undo" /\ AtLeast(flow[b].session, records[b])

LEMMA RememberedStep ==
  ASSUME TypeOK, CommandsServed, RecordsRise, RevocationNotLost, NEW b \in Bots,
         Moves(b), LogGrows(b)
  PROVE  Remembered(b)'
<1>0. /\ records[b] \in Cells /\ pending[b] \in Cells /\ flow[b].session \in Cells
      /\ Rank(records[b]) \in Nat /\ Rank(pending[b]) \in Nat /\ Rank(flow[b].session) \in Nat
  BY PlaceFacts, CellFacts
<1>1. /\ Stored' \in Cells /\ Stored \in Cells /\ Rank(Stored') >= Rank(Stored)
      /\ Rank(Stored) \in Nat /\ Rank(Stored') \in Nat
  BY LogRises, TypeFunctions, CellFacts
<1>2. records[b].revoked =>
        \/ Rank(pending[b]) >= Rank(records[b]) \/ Rank(Stored) >= Rank(records[b])
        \/ flow[b].pc = "undo" /\ AtLeast(flow[b].session, records[b])
  BY <1>0, <1>1, OrderFacts DEF RevocationNotLost
<1>3. Served(b)
  BY DEF CommandsServed, Served
<1>4. ASSUME NEW p \in Cells, records'[b] = records[b], pending'[b] = p, Rank(p) >= Rank(pending[b]),
             flow[b].pc = "undo" => flow'[b] = flow[b]
      PROVE  Remembered(b)'
  <2>1. Rank(p) \in Nat
    BY CellFacts
  <2>2. records[b].revoked =>
          \/ AtLeast(p, records[b]) \/ AtLeast(Stored', records[b])
          \/ flow[b].pc = "undo" /\ AtLeast(flow[b].session, records[b])
    BY <1>0, <1>1, <1>2, <1>4, <2>1, OrderFacts
  <2> QED BY <1>4, <2>2 DEF Remembered
<1>5. CASE PutMoves(b) \/ CommandMoves(b) \/ OffIRC(b)
  <2>1. records'[b] = records[b] /\ pending'[b] = pending[b]
    BY <1>5 DEF PutMoves, CommandMoves, OffIRC, SameCache
  <2>2. flow[b].pc = "undo" => flow'[b] = flow[b]
    BY <1>3, <1>5 DEF PutMoves, CommandMoves, OffIRC, SameFlow, Served
  <2> QED BY <1>0, <1>4, <2>1, <2>2
<1>6. CASE PutStarts(b)
  <2>1. records'[b] = records[b] /\ flow'[b] = flow[b]
    BY <1>6 DEF PutStarts, SameFlow
  <2>2. CASE pending'[b] = pending[b]
    BY <1>0, <1>4, <2>1, <2>2
  <2>3. CASE flow[b].pc \in {"sync", "undo"} /\ pending'[b] = Enqueue(pending[b], flow[b].session)
    <3>1. flow[b].session \in Sessions
      BY <1>3, <2>3 DEF Served
    <3>2. /\ Enqueue(pending[b], flow[b].session) \in Cells
          /\ Rank(Enqueue(pending[b], flow[b].session)) >= Rank(pending[b])
      BY <1>0, <3>1, EnqueueFacts, SessionFacts
    <3> QED BY <1>4, <2>1, <2>3, <3>2
  <2> QED BY <1>6, <2>2, <2>3 DEF PutStarts
<1>7. CASE PutEnds(b)
  <2>1. PICK record \in Cells, queued \in Cells :
          /\ AtLeast(record, records[b]) /\ Covered(b, record, queued) /\ pending'[b] = queued
          /\ Undone(b, record) \/ Done(b, record) \/ Retried(b, record)
    BY <1>7 DEF PutEnds
  <2>2. Stored' = Stored
    BY <1>7 DEF PutEnds, Stored
  <2>3. CASE Undone(b, record)
    <3>1. Revoked(record) \in Cells
      BY <2>3, RevokedFacts, SessionFacts DEF Undone
    <3>2. AtLeast(Revoked(record), Revoked(record))
      BY <3>1, CellFacts, OrderFacts
    <3>3. records'[b] = Revoked(record) /\ flow'[b].pc = "undo" /\ flow'[b].session = Revoked(record)
      BY <2>3 DEF Undone
    <3> QED BY <3>2, <3>3 DEF Remembered
  <2>4. CASE Done(b, record)
    BY <2>1, <2>2, <2>4 DEF Done, Covered, Remembered
  <2>5. CASE Retried(b, record)
    BY <2>1, <2>2, <2>5 DEF Retried, SameFlow, Covered, Remembered
  <2> QED BY <2>1, <2>3, <2>4, <2>5
<1>8. ASSUME NEW e \in Expiries, GrantMoves(b, e) PROVE Remembered(b)'
  <2>1. pending'[b] = pending[b] /\ flow[b].pc = "claimed"
    BY <1>8 DEF GrantMoves
  <2>2. CASE records'[b] = Session(e, 0, FALSE)
    BY <2>2, GrantFacts DEF Remembered
  <2>3. CASE records'[b] = records[b]
    BY <1>0, <1>4, <2>1, <2>3
  <2> QED BY <1>8, <2>2, <2>3 DEF GrantMoves
<1>9. CASE QuitMoves(b)
  <2>1. flow'[b] = flow[b]
    BY <1>9 DEF QuitMoves
  <2>2. CASE SameCache(b)
    BY <1>0, <1>4, <2>1, <2>2 DEF SameCache
  <2>3. CASE /\ Active(records[b]) /\ records'[b] = Revoked(records[b])
             /\ pending'[b] = Enqueue(pending[b], Revoked(records[b]))
    <3>1. Revoked(records[b]) \in Sessions /\ Revoked(records[b]) \in Cells
      BY <1>0, <2>3, RevokedFacts, SessionFacts
    <3>2. /\ Enqueue(pending[b], Revoked(records[b])) \in Cells
          /\ Rank(Enqueue(pending[b], Revoked(records[b]))) >= Rank(Revoked(records[b]))
      BY <1>0, <3>1, EnqueueFacts, SessionFacts
    <3>3. AtLeast(pending'[b], records'[b])
      BY <2>3, <3>1, <3>2, OrderFacts
    <3> QED BY <3>3 DEF Remembered
  <2> QED BY <1>9, <2>2, <2>3 DEF QuitMoves
<1>10. CASE WatchMoves(b)
  <2>1. pending'[b] = pending[b] /\ flow'[b] = flow[b]
    BY <1>10 DEF WatchMoves, SameFlow
  <2>2. CASE records'[b] = records[b]
    BY <1>0, <1>4, <2>1, <2>2
  <2>3. ASSUME NEW s \in {Stored} \union {log[i] : i \in DOMAIN log}, records'[b] = Keep(records[b], s)
        PROVE  Remembered(b)'
    <3>1. s \in Cells /\ AtLeast(Stored, s)
      <4>1. AtLeast(Stored, Stored)
        BY <1>1, OrderFacts
      <4>2. \A i \in DOMAIN log : log[i] \in Cells /\ AtLeast(Stored, log[i])
        BY TypeFunctions DEF RecordsRise
      <4> QED BY <1>1, <4>1, <4>2
    <3>2. records'[b] \in {records[b], s}
      BY <1>0, <2>3, <3>1, KeepFacts
    <3>3. CASE records'[b] = s
      <4>1. Rank(Stored') >= Rank(s) /\ Rank(s) \in Nat
        BY <1>1, <3>1, OrderFacts, CellFacts
      <4>2. AtLeast(Stored', s)
        BY <1>1, <3>1, <4>1, OrderFacts
      <4> QED BY <3>3, <4>2 DEF Remembered
    <3>4. CASE records'[b] = records[b]
      BY <1>0, <1>4, <2>1, <3>4
    <3> QED BY <3>2, <3>3, <3>4
  <2> QED BY <1>10, <2>2, <2>3 DEF WatchMoves
<1>11. CASE Crashes(b)
  BY <1>11, NoneFacts DEF Crashes, Remembered
<1> QED BY <1>5, <1>6, <1>7, <1>8, <1>9, <1>10, <1>11 DEF Moves

-----------------------------------------------------------------------------
(* Grants are owned *)

Owns(b) ==
  /\ \A e \in mine[b] : AtLeast(records[b], Session(e, 0, FALSE))
  /\ flow[b].pc = "sync" => flow[b].session.exp \in mine[b]

\* A bot's cache rises in every step but a grant and a crash.
LEMMA CacheRises ==
  ASSUME TypeOK, CommandsServed, NEW b \in Bots,
         PutMoves(b) \/ PutStarts(b) \/ PutEnds(b) \/ CommandMoves(b) \/ QuitMoves(b)
           \/ WatchMoves(b) \/ OffIRC(b)
  PROVE  records'[b] \in Cells /\ Rank(records'[b]) >= Rank(records[b])
<1>0. records[b] \in Cells /\ Rank(records[b]) \in Nat
  BY PlaceFacts, CellFacts
<1>1. CASE records'[b] = records[b]
  BY <1>0, <1>1
<1>2. CASE PutEnds(b)
  <2>1. PICK record \in Cells :
          AtLeast(record, records[b]) /\ (Undone(b, record) \/ Done(b, record) \/ Retried(b, record))
    BY <1>2 DEF PutEnds
  <2>2. Rank(record) >= Rank(records[b]) /\ Rank(record) \in Nat
    BY <1>0, <2>1, OrderFacts, CellFacts
  <2>3. CASE Active(record) /\ records'[b] = Revoked(record)
    <3>1. Revoked(record) \in Cells /\ Rank(Revoked(record)) = Rank(record) + 1
      BY <2>3, RevokedFacts, SessionFacts
    <3> QED BY <1>0, <2>2, <2>3, <3>1
  <2>4. CASE records'[b] = record
    BY <2>2, <2>4
  <2> QED BY <2>1, <2>3, <2>4 DEF Undone, Done, Retried
<1>3. CASE Active(records[b]) /\ records'[b] = Revoked(records[b])
  <2>1. Revoked(records[b]) \in Cells /\ Rank(Revoked(records[b])) = Rank(records[b]) + 1
    BY <1>0, <1>3, RevokedFacts, SessionFacts
  <2> QED BY <1>0, <1>3, <2>1
<1>4. CASE WatchMoves(b)
  <2>1. CASE \E s \in {Stored} \union {log[i] : i \in DOMAIN log} : records'[b] = Keep(records[b], s)
    <3>1. PICK s \in {Stored} \union {log[i] : i \in DOMAIN log} : records'[b] = Keep(records[b], s)
      BY <2>1
    <3>2. s \in Cells
      BY TypeFunctions
    <3> QED BY <1>0, <3>1, <3>2, KeepFacts
  <2> QED BY <1>1, <1>4, <2>1 DEF WatchMoves
<1> QED BY <1>1, <1>2, <1>3, <1>4
        DEF PutMoves, PutStarts, CommandMoves, QuitMoves, OffIRC, SameCache

LEMMA OwnsStep ==
  ASSUME TypeOK, CommandsServed, GrantsOwned, NEW b \in Bots, Moves(b)
  PROVE  Owns(b)'
<1>0. /\ records[b] \in Cells /\ Rank(records[b]) \in Nat /\ mine[b] \subseteq Expiries
  BY PlaceFacts, CellFacts, TypeFunctions DEF Functions
<1>1. \A e \in mine[b] : Rank(records[b]) >= 2 * e /\ 2 * e \in Nat
  <2>1. ASSUME NEW e \in mine[b] PROVE Rank(records[b]) >= 2 * e /\ 2 * e \in Nat
    <3>1. /\ Session(e, 0, FALSE) \in Cells /\ Rank(Session(e, 0, FALSE)) = 2 * e /\ 2 * e \in Nat
      BY <1>0, GrantFacts, SessionFacts
    <3>2. AtLeast(records[b], Session(e, 0, FALSE))
      BY DEF GrantsOwned
    <3> QED BY <1>0, <3>1, <3>2, OrderFacts
  <2> QED BY <2>1
<1>2. flow[b].pc = "sync" => flow[b].session.exp \in mine[b]
  BY DEF GrantsOwned
<1>3. ASSUME NEW r \in Cells, NEW e \in Expiries, Rank(r) >= 2 * e
      PROVE  AtLeast(r, Session(e, 0, FALSE))
  <2>1. Session(e, 0, FALSE) \in Cells /\ Rank(Session(e, 0, FALSE)) = 2 * e
    BY GrantFacts, SessionFacts
  <2> QED BY <1>3, <2>1, OrderFacts
<1>4. ASSUME PutMoves(b) \/ PutStarts(b) \/ PutEnds(b) \/ CommandMoves(b) \/ QuitMoves(b)
               \/ WatchMoves(b) \/ OffIRC(b)
      PROVE  Owns(b)'
  <2>1. records'[b] \in Cells /\ Rank(records'[b]) >= Rank(records[b]) /\ Rank(records'[b]) \in Nat
    BY <1>4, CacheRises, CellFacts
  <2>2. mine'[b] = mine[b]
    BY <1>4 DEF PutMoves, PutStarts, PutEnds, CommandMoves, QuitMoves, WatchMoves, OffIRC, SameHolder
  <2>3. flow'[b].pc = "sync" => flow'[b] = flow[b]
    <3>1. flow[b] \in Flows
      BY TypeFunctions DEF Functions
    <3>2. CASE CommandMoves(b)
      BY <3>1, <3>2 DEF CommandMoves, CommandEnded, Queued, Flows
    <3>3. CASE PutEnds(b)
      BY <3>3 DEF PutEnds, Undone, Done, Retried, CommandEnded, SameFlow
    <3> QED BY <1>4, <3>2, <3>3 DEF PutMoves, PutStarts, QuitMoves, WatchMoves, OffIRC, SameFlow
  <2>4. \A e \in mine[b] : AtLeast(records'[b], Session(e, 0, FALSE))
    <3>1. \A e \in mine[b] : Rank(records'[b]) >= 2 * e
      BY <1>0, <1>1, <2>1
    <3> QED BY <1>0, <1>3, <2>1, <3>1
  <2> QED BY <1>2, <2>2, <2>3, <2>4 DEF Owns
<1>5. ASSUME NEW e \in Expiries, GrantMoves(b, e) PROVE Owns(b)'
  <2>1. /\ Session(e, 0, FALSE) \in Cells /\ Rank(Session(e, 0, FALSE)) = 2 * e /\ 2 * e \in Nat
        /\ Session(e, 0, FALSE).exp = e
    BY GrantFacts, SessionFacts
  <2>2. /\ mine'[b] = mine[b] \union {e} /\ \A f \in mine[b] : f < e
        /\ flow'[b].session = Session(e, 0, FALSE)
    BY <1>5 DEF GrantMoves
  <2>3. \A f \in mine'[b] : f \in Expiries /\ f \in Nat /\ 2 * f <= 2 * e
    <3>1. \A f \in Expiries : f \in Nat
      BY GrantFacts
    <3> QED BY <1>0, <2>2, <3>1
  <2>4. records'[b] \in Cells /\ Rank(records'[b]) >= 2 * e
    <3>1. Rank(Session(e, 0, FALSE)) >= 2 * e
      <4>1. \A r, n \in Nat : r = n => r >= n
        OBVIOUS
      <4> QED BY <2>1, <4>1, Zenon
    <3>2. ~Outranks(Session(e, 0, FALSE), records[b]) => Rank(records[b]) >= 2 * e
      <4>1. Outranks(Session(e, 0, FALSE), records[b]) <=>
              Rank(Session(e, 0, FALSE)) > Rank(records[b])
        BY <1>0, <2>1, OrderFacts
      <4>2. \A r, s, n \in Nat : r = n /\ ~(r > s) => s >= n
        OBVIOUS
      <4> QED BY <1>0, <2>1, <4>1, <4>2, Zenon
    <3>3. \/ records'[b] = Session(e, 0, FALSE)
          \/ records'[b] = records[b] /\ ~Outranks(Session(e, 0, FALSE), records[b])
      <4>1. records'[b] = IF ~records[b].revoked \/ Outranks(Session(e, 0, FALSE), records[b])
                            THEN Session(e, 0, FALSE) ELSE records[b]
        BY <1>5 DEF GrantMoves
      <4> QED BY <4>1, Zenon
    <3> QED BY <1>0, <2>1, <3>1, <3>2, <3>3, Zenon
  <2>5. \A f \in mine'[b] : AtLeast(records'[b], Session(f, 0, FALSE))
    <3>1. \A f \in mine'[b] : Rank(records'[b]) >= 2 * f
      BY <2>1, <2>3, <2>4, CellFacts
    <3> QED BY <1>3, <2>3, <2>4, <3>1
  <2> QED BY <2>1, <2>2, <2>5 DEF Owns
<1>6. CASE Crashes(b)
  BY <1>6 DEF Crashes, NoFlow, Owns
<1> QED BY <1>4, <1>5, <1>6 DEF Moves

\* A step grants or dooms the sessions of its own bot only.
LEMMA HolderStep ==
  ASSUME TypeOK, CommandsServed, GrantsOwned, NEW b \in Bots, Moves(b)
  PROVE  /\ \A e : grants[e] # 0 /\ e \in Expiries => grants'[e] # 0
         /\ \A e \in mine'[b] : e \in mine[b] \/ (e \in Expiries /\ grants[e] = 0 /\ grants'[e] # 0)
         /\ \A e \in doomed' : e \in doomed \/ e \in mine[b]
              \/ (e \in mine'[b] /\ e \in Expiries /\ grants[e] = 0 /\ grants'[e] # 0)
<1>0. grants \in [Expiries -> 0..MaxLife]
  BY DEF TypeOK
<1>1. ASSUME UNCHANGED grants, mine'[b] \in {mine[b], {}}, \A e \in doomed' : e \in doomed \/ e \in mine[b]
      PROVE  /\ \A e : grants[e] # 0 /\ e \in Expiries => grants'[e] # 0
             /\ \A e \in mine'[b] : e \in mine[b] \/ (e \in Expiries /\ grants[e] = 0 /\ grants'[e] # 0)
             /\ \A e \in doomed' : e \in doomed \/ e \in mine[b]
                  \/ (e \in mine'[b] /\ e \in Expiries /\ grants[e] = 0 /\ grants'[e] # 0)
  BY <1>1
<1>2. CASE PutMoves(b) \/ PutStarts(b) \/ PutEnds(b) \/ CommandMoves(b) \/ WatchMoves(b) \/ Crashes(b)
  <2>1. UNCHANGED <<grants, doomed>> /\ mine'[b] \in {mine[b], {}}
    BY <1>2 DEF PutMoves, PutStarts, PutEnds, CommandMoves, WatchMoves, Crashes, SameHolder
  <2> QED BY <1>1, <2>1
<1>3. CASE QuitMoves(b)
  BY <1>1, <1>3 DEF QuitMoves
<1>4. CASE OffIRC(b)
  <2>1. flow[b].pc = "sync" => flow[b].session.exp \in mine[b]
    BY DEF GrantsOwned
  <2> QED BY <1>1, <1>4, <2>1 DEF OffIRC
<1>5. ASSUME NEW e \in Expiries, GrantMoves(b, e)
      PROVE  /\ \A f : grants[f] # 0 /\ f \in Expiries => grants'[f] # 0
             /\ \A f \in mine'[b] : f \in mine[b] \/ (f \in Expiries /\ grants[f] = 0 /\ grants'[f] # 0)
             /\ \A f \in doomed' : f \in doomed \/ f \in mine[b]
                  \/ (f \in mine'[b] /\ f \in Expiries /\ grants[f] = 0 /\ grants'[f] # 0)
  <2>1. /\ grants' = [grants EXCEPT ![e] = Head(commands[b])] /\ grants[e] = 0
        /\ mine'[b] = mine[b] \union {e} /\ doomed' \subseteq doomed \union {e}
        /\ flow[b].pc = "claimed"
    BY <1>5 DEF GrantMoves
  <2>2. Head(commands[b]) # 0
    <3>1. commands[b] # <<>> /\ commands[b] \in Seq(1..MaxLife)
      BY <2>1, TypeFunctions DEF CommandsServed, Functions
    <3>2. \A S : \A q \in Seq(S) : q # <<>> => Head(q) \in S
      OBVIOUS
    <3>3. 0 \notin 1..MaxLife
      BY BoundsAssumption
    <3>4. Head(commands[b]) \in 1..MaxLife
      BY <3>1, <3>2
    <3> QED BY <3>3, <3>4
  <2>3. grants'[e] # 0 /\ \A f \in Expiries \ {e} : grants'[f] = grants[f]
    BY <1>0, <2>1, <2>2
  <2> QED BY <2>1, <2>3
<1> QED BY <1>2, <1>3, <1>4, <1>5 DEF Moves

\* ... which no other bot owns.
LEMMA OthersSafe ==
  ASSUME TypeOK, CommandsServed, GrantsOwned, NEW b \in Bots, Moves(b),
         NEW c \in Bots \ {b}, Kept(c)
  PROVE  /\ mine'[c] = mine[c] /\ mine'[b] \intersect mine[c] = {}
         /\ \A e \in mine[c] : e \in doomed' => e \in doomed
<1>1. mine[b] \intersect mine[c] = {} /\ \A e \in mine[c] : grants[e] # 0
  BY DEF GrantsOwned
<1>2. /\ \A e \in mine'[b] : e \in mine[b] \/ grants[e] = 0
      /\ \A e \in doomed' : e \in doomed \/ e \in mine[b] \/ grants[e] = 0
  BY HolderStep
<1> QED BY <1>1, <1>2 DEF Kept

-----------------------------------------------------------------------------
(* An identity that is not invalidated holds what it was granted *)

Sees(b) ==
  b \notin invalid =>
    /\ \A i \in DOMAIN commands[b] : commands[b][i] = seen[b]
    /\ flow[b].pc = "sync" => flow[b].session.exp \notin doomed

LEMMA SeesStep ==
  ASSUME TypeOK, CommandsServed, GrantsOwned, InvalidationSeen, NEW b \in Bots, Moves(b)
  PROVE  Sees(b)'
<1>0. /\ commands[b] \in Seq(1..MaxLife) /\ seen[b] \in 1..MaxLife /\ flow[b] \in Flows
  BY TypeFunctions DEF Functions
<1>1. Sees(b) /\ Served(b)
  BY DEF InvalidationSeen, Sees, CommandsServed, Served
<1>2. CASE PutMoves(b) \/ PutStarts(b) \/ WatchMoves(b)
  BY <1>1, <1>2 DEF PutMoves, PutStarts, WatchMoves, SameFlow, SameHolder, Sees
<1>3. ASSUME CommandEnded(b), seen'[b] = seen[b] PROVE Sees(b)'
  <2>1. CASE commands'[b] = <<>>
    <3>1. flow'[b].pc = "none" /\ DOMAIN commands'[b] = {}
      BY <1>3, <2>1 DEF CommandEnded
    <3> QED BY <3>1 DEF Sees
  <2>2. CASE b \in invalid' <=> b \in invalid
    BY <1>1, <1>3, <2>2 DEF CommandEnded, Sees
  <2> QED BY <1>3, <2>1, <2>2 DEF CommandEnded
<1>4. CASE PutEnds(b)
  <2>1. seen'[b] = seen[b] /\ doomed' = doomed
    BY <1>4 DEF PutEnds, SameHolder
  <2>2. PICK record \in Cells : Undone(b, record) \/ Done(b, record) \/ Retried(b, record)
    BY <1>4 DEF PutEnds
  <2>3. CASE Undone(b, record)
    <3>1. flow'[b].pc = "undo" /\ commands'[b] = commands[b] /\ (b \in invalid' <=> b \in invalid)
      BY <2>3 DEF Undone
    <3> QED BY <1>1, <2>1, <3>1 DEF Sees
  <2>4. CASE Done(b, record)
    BY <1>3, <2>1, <2>4 DEF Done
  <2>5. CASE Retried(b, record)
    BY <1>1, <2>1, <2>5 DEF Retried, SameFlow, Sees
  <2> QED BY <2>2, <2>3, <2>4, <2>5
<1>5. CASE CommandMoves(b)
  <2>1. seen'[b] = seen[b] /\ doomed' = doomed
    BY <1>5 DEF CommandMoves, SameHolder
  <2>2. CASE /\ commands'[b] = Append(commands[b], seen[b]) /\ (b \in invalid' <=> b \in invalid)
             /\ flow'[b] = IF commands[b] = <<>> THEN Queued ELSE flow[b]
    <3>1. \A i \in DOMAIN commands'[b] :
            (i \in DOMAIN commands[b] /\ commands'[b][i] = commands[b][i]) \/ commands'[b][i] = seen[b]
      BY <1>0, <2>2, AppendFacts
    <3>2. flow'[b].pc = "sync" => flow'[b] = flow[b]
      BY <2>2 DEF Queued
    <3> QED BY <1>1, <2>1, <2>2, <3>1, <3>2 DEF Sees
  <2>3. CASE /\ commands'[b] = commands[b] /\ (b \in invalid' <=> b \in invalid)
             /\ flow'[b] = [flow[b] EXCEPT !.pc = "claimed"]
    <3>1. flow'[b].pc = "claimed"
      BY <1>0, <2>3 DEF Flows
    <3> QED BY <1>1, <2>1, <2>3, <3>1 DEF Sees
  <2>4. CASE CommandEnded(b)
    BY <1>3, <2>1, <2>4
  <2> QED BY <1>5, <2>2, <2>3, <2>4 DEF CommandMoves
<1>6. ASSUME NEW e \in Expiries, GrantMoves(b, e) PROVE Sees(b)'
  <2>1. /\ b \notin invalid /\ flow[b].pc = "claimed" /\ grants[e] = 0 /\ seen'[b] = seen[b]
        /\ flow'[b].session = Session(e, 0, FALSE) /\ commands'[b] = commands[b]
        /\ doomed' = IF Head(commands[b]) < seen[b] THEN doomed \union {e} ELSE doomed
    BY <1>6 DEF GrantMoves
  <2>2. Head(commands[b]) = seen[b]
    <3>1. commands[b] # <<>>
      BY <1>1, <2>1 DEF Served
    <3>2. \A S : \A q \in Seq(S) : q # <<>> => 1 \in DOMAIN q /\ Head(q) = q[1]
      OBVIOUS
    <3>3. 1 \in DOMAIN commands[b] /\ Head(commands[b]) = commands[b][1]
      BY <1>0, <3>1, <3>2
    <3> QED BY <1>1, <2>1, <3>3 DEF Sees
  <2>3. doomed' = doomed
    <3>1. ~(seen[b] < seen[b])
      <4>1. \A n \in 1..MaxLife : ~(n < n)
        BY BoundsAssumption
      <4> QED BY <1>0, <4>1
    <3> QED BY <2>1, <2>2, <3>1
  <2>4. e \notin doomed
    BY <2>1 DEF GrantsOwned
  <2>5. Session(e, 0, FALSE).exp = e
    BY GrantFacts
  <2> QED BY <1>1, <2>1, <2>3, <2>4, <2>5 DEF Sees
<1>7. CASE QuitMoves(b) \/ OffIRC(b)
  <2>1. flow'[b] = flow[b] /\ commands'[b] = commands[b] /\ (commands[b] = <<>> \/ b \in invalid')
    BY <1>7 DEF QuitMoves, OffIRC
  <2>2. commands[b] = <<>> => flow[b].pc = "none" /\ DOMAIN commands[b] = {}
    BY <1>1 DEF Served
  <2> QED BY <2>1, <2>2 DEF Sees
<1>8. CASE Crashes(b)
  <2>1. flow'[b].pc = "none" /\ DOMAIN commands'[b] = {}
    BY <1>8 DEF Crashes, NoFlow
  <2> QED BY <2>1 DEF Sees
<1> QED BY <1>2, <1>4, <1>5, <1>6, <1>7, <1>8 DEF Moves

-----------------------------------------------------------------------------
(* A doomed grant never holds *)

Watches(b) ==
  Active(records[b]) /\ Doomed(b, records[b].exp) => Undoing(b, records[b].exp)

LEMMA WatchesStep ==
  ASSUME TypeOK, CommandsServed, GrantsOwned, InvalidationSeen, DoomedGrantNeverHolds,
         NEW b \in Bots, Moves(b)
  PROVE  Watches(b)'
<1>0. records[b] \in Cells /\ Rank(records[b]) \in Nat /\ mine[b] \subseteq Expiries
  BY PlaceFacts, CellFacts, TypeFunctions DEF Functions
<1>1. Watches(b) /\ Served(b) /\ Sees(b) /\ Owns(b)
  BY DEF DoomedGrantNeverHolds, Watches, CommandsServed, Served, InvalidationSeen, Sees,
         GrantsOwned, Owns
<1>2. ASSUME NEW r \in Cells, Rank(r) >= Rank(records[b]), Active(r), r.exp \in mine[b]
      PROVE  r = records[b]
  <2>1. AtLeast(records[b], Session(r.exp, 0, FALSE)) /\ r = Session(r.exp, 0, FALSE)
    BY <1>1, <1>2, RevokedFacts DEF Owns
  <2>2. Rank(records[b]) >= Rank(r)
    BY <1>0, <2>1, OrderFacts
  <2> QED BY <1>0, <1>2, <2>2, CellFacts, OrderFacts
<1>3. ASSUME NEW r \in Cells, records'[b] = r, Rank(r) >= Rank(records[b]),
             UNCHANGED doomed, mine'[b] = mine[b],
             flow[b].pc = "sync" => flow'[b] = flow[b]
      PROVE  Watches(b)'
  <2>1. ASSUME Active(r), r.exp \in mine[b] \intersect doomed
        PROVE  flow'[b].pc = "sync" /\ flow'[b].session.exp = r.exp
    <3>1. r = records[b]
      BY <1>2, <1>3, <2>1
    <3>2. flow[b].pc = "sync" /\ flow[b].session.exp = r.exp
      BY <1>1, <2>1, <3>1 DEF Watches, Doomed, Undoing
    <3> QED BY <1>3, <3>2
  <2> QED BY <1>3, <2>1 DEF Watches, Doomed, Undoing
<1>4. CASE PutMoves(b) \/ PutStarts(b) \/ CommandMoves(b) \/ WatchMoves(b)
  <2>1. records'[b] \in Cells /\ Rank(records'[b]) >= Rank(records[b])
    BY <1>4, CacheRises
  <2>2. UNCHANGED doomed /\ mine'[b] = mine[b]
    BY <1>4 DEF PutMoves, PutStarts, CommandMoves, WatchMoves, SameHolder
  <2>3. flow[b].pc = "sync" => flow'[b] = flow[b]
    BY <1>1, <1>4 DEF PutMoves, PutStarts, CommandMoves, WatchMoves, SameFlow, Served
  <2> QED BY <1>3, <2>1, <2>2, <2>3
<1>5. CASE PutEnds(b)
  <2>1. UNCHANGED doomed /\ mine'[b] = mine[b]
    BY <1>5 DEF PutEnds, SameHolder
  <2>2. PICK record \in Cells :
          /\ AtLeast(record, records[b])
          /\ Undone(b, record) \/ Done(b, record) \/ Retried(b, record)
    BY <1>5 DEF PutEnds
  <2>3. Rank(record) >= Rank(records[b])
    BY <1>0, <2>2, OrderFacts
  <2>4. CASE Undone(b, record)
    <3>1. records'[b].revoked
      BY <2>4, RevokedFacts DEF Undone
    <3> QED BY <3>1 DEF Watches, Active
  <2>5. CASE Done(b, record)
    <3>1. records'[b] = record /\ (flow[b].pc = "sync" /\ Active(record) => b \notin invalid)
      BY <2>5 DEF Done
    <3>2. ASSUME Active(record), record.exp \in mine[b], record.exp \in doomed PROVE FALSE
      <4>1. record = records[b]
        BY <1>2, <2>3, <3>2
      <4>2. flow[b].pc = "sync" /\ flow[b].session.exp = record.exp
        BY <1>1, <3>2, <4>1 DEF Watches, Doomed, Undoing
      <4>3. b \notin invalid
        BY <3>1, <3>2, <4>2
      <4> QED BY <1>1, <3>2, <4>2, <4>3 DEF Sees
    <3> QED BY <2>1, <3>1, <3>2 DEF Watches, Doomed
  <2>6. CASE Retried(b, record)
    BY <1>3, <2>1, <2>3, <2>6 DEF Retried, SameFlow
  <2> QED BY <2>2, <2>4, <2>5, <2>6
<1>6. ASSUME NEW e \in Expiries, GrantMoves(b, e) PROVE Watches(b)'
  <2>1. /\ flow'[b].pc = "sync" /\ flow'[b].session = Session(e, 0, FALSE)
        /\ Session(e, 0, FALSE).exp = e
    <3>1. flow'[b] = [pc |-> "sync", session |-> Session(e, 0, FALSE)]
      BY <1>6 DEF GrantMoves
    <3>2. Session(e, 0, FALSE).exp = e
      BY GrantFacts
    <3>3. \A s, f : f = [pc |-> "sync", session |-> s] => f.pc = "sync" /\ f.session = s
      OBVIOUS
    <3> QED BY <3>1, <3>2, <3>3, Zenon
  <2>2. records'[b] = Session(e, 0, FALSE) \/ (records'[b] = records[b] /\ records[b].revoked)
    <3>1. records'[b] = IF ~records[b].revoked \/ Outranks(Session(e, 0, FALSE), records[b])
                          THEN Session(e, 0, FALSE) ELSE records[b]
      BY <1>6 DEF GrantMoves
    <3> QED BY <3>1, Zenon
  <2>3. CASE records'[b] = Session(e, 0, FALSE)
    BY <2>1, <2>3 DEF Watches, Undoing
  <2>4. CASE records'[b] = records[b] /\ records[b].revoked
    BY <2>4 DEF Watches, Active
  <2> QED BY <2>2, <2>3, <2>4
<1>7. CASE QuitMoves(b)
  <2>1. ~Active(records'[b])
    <3>1. CASE ~Active(records[b]) /\ SameCache(b)
      BY <3>1 DEF SameCache
    <3>2. CASE Active(records[b]) /\ records'[b] = Revoked(records[b])
      <4>1. Revoked(records[b]).revoked
        BY <1>0, <3>2, RevokedFacts
      <4> QED BY <3>2, <4>1 DEF Active
    <3> QED BY <1>7, <3>1, <3>2 DEF QuitMoves
  <2> QED BY <2>1 DEF Watches
<1>8. CASE OffIRC(b)
  <2>1. /\ records'[b] = records[b] /\ flow'[b] = flow[b] /\ mine'[b] = mine[b]
        /\ doomed' = IF flow[b].pc = "sync" THEN doomed \union {flow[b].session.exp} ELSE doomed
    BY <1>8 DEF OffIRC, SameCache
  <2> QED BY <1>1, <2>1 DEF Watches, Doomed, Undoing
<1>9. CASE Crashes(b)
  BY <1>9, NoneFacts DEF Crashes, Watches
<1> QED BY <1>4, <1>5, <1>6, <1>7, <1>8, <1>9 DEF Moves

-----------------------------------------------------------------------------
(* The invariant, and what it shows *)

\* What holds of one bot, and its part of the invariant.
BotInv(b) == Served(b) /\ Rises(b) /\ Owns(b) /\ Sees(b) /\ Remembered(b) /\ Watches(b)

LEMMA InvParts ==
  SyncInv <=>
    /\ TypeOK
    /\ \A i \in DOMAIN log : AtLeast(Stored, log[i])
    /\ \A b, c \in Bots : b # c => mine[b] \intersect mine[c] = {}
    /\ \A e \in doomed \union UNION {mine[b] : b \in Bots} : grants[e] # 0
    /\ \A b \in Bots : BotInv(b)
<1>1. CommandsServed <=> \A b \in Bots : Served(b)
  BY DEF CommandsServed, Served
<1>2. RecordsRise <=> (\A i \in DOMAIN log : AtLeast(Stored, log[i])) /\ \A b \in Bots : Rises(b)
  BY DEF RecordsRise, Rises
<1>3. GrantsOwned <=> /\ \A b, c \in Bots : b # c => mine[b] \intersect mine[c] = {}
                      /\ \A e \in doomed \union UNION {mine[b] : b \in Bots} : grants[e] # 0
                      /\ \A b \in Bots : Owns(b)
  BY DEF GrantsOwned, Owns
<1>4. InvalidationSeen <=> \A b \in Bots : Sees(b)
  BY DEF InvalidationSeen, Sees
<1>5. RevocationNotLost <=> \A b \in Bots : Remembered(b)
  BY DEF RevocationNotLost, Remembered
<1>6. DoomedGrantNeverHolds <=> \A b \in Bots : Watches(b)
  BY DEF DoomedGrantNeverHolds, Watches
<1> QED BY <1>1, <1>2, <1>3, <1>4, <1>5, <1>6 DEF SyncInv, BotInv

LEMMA InitSyncInv == Init => SyncInv
<1> SUFFICES ASSUME Init PROVE SyncInv
  OBVIOUS
<1>1. <<>> \in Seq(Sessions) /\ <<>> \in Seq(1..MaxLife)
  OBVIOUS
<1>2. TypeOK
  <2>1. /\ records \in [Bots -> Cells] /\ pending \in [Bots -> Cells]
        /\ io \in [Bots -> Puts] /\ late \in [Bots -> Puts]
    <3>1. None \in Cells /\ NoPut \in Puts
      BY NoneFacts DEF NoPut, Put, Puts
    <3>2. /\ records = [b \in Bots |-> None] /\ pending = [b \in Bots |-> None]
          /\ io = [b \in Bots |-> NoPut] /\ late = [b \in Bots |-> NoPut]
      BY DEF Init
    <3>3. \A S : \A x \in S : [b \in Bots |-> x] \in [Bots -> S]
      OBVIOUS
    <3> QED BY <3>1, <3>2, <3>3
  <2>2. flow \in [Bots -> Flows]
    <3>1. NoFlow \in Flows
      BY NoneFacts DEF NoFlow, Flows
    <3> QED BY <3>1 DEF Init
  <2>3. commands \in [Bots -> Seq(1..MaxLife)] /\ log \in Seq(Sessions)
    <3>1. \A S : \A x \in S : [b \in Bots |-> x] \in [Bots -> S]
      OBVIOUS
    <3>2. commands = [b \in Bots |-> <<>>] /\ log = <<>>
      BY DEF Init
    <3> QED BY <1>1, <3>1, <3>2
  <2>4. /\ nats \in [Bots -> {"up", "syncing", "down"}] /\ pos \in [Bots -> Nat]
        /\ mine \in [Bots -> SUBSET Expiries] /\ invalid \in SUBSET Bots
        /\ doomed \in SUBSET Expiries /\ missed \in {"no", "yes"}
    BY DEF Init
  <2>5. /\ life \in 1..MaxLife /\ seen \in [Bots -> 1..MaxLife] /\ faults \in 0..MaxFaults
        /\ grants \in [Expiries -> 0..MaxLife]
    <3>1. PICK budget \in Budgets :
             /\ life = MaxLife + 1 - budget.holders /\ faults = MaxFaults - budget.faults
             /\ grants = [e \in Expiries |-> IF e <= budget.sessions THEN 0 ELSE 1]
      BY DEF Init
    <3>2. budget.holders \in 1..MaxLife /\ budget.faults \in 0..MaxFaults
      BY <3>1, BudgetsAssumption
    <3>3. life \in 1..MaxLife /\ faults \in 0..MaxFaults
      BY <3>1, <3>2, BoundsAssumption
    <3>4. seen = [b \in Bots |-> life]
      BY DEF Init
    <3>5. 0 \in 0..MaxLife /\ 1 \in 0..MaxLife
      BY BoundsAssumption
    <3> QED BY <3>1, <3>3, <3>4, <3>5
  <2> QED BY <2>1, <2>2, <2>3, <2>4, <2>5 DEF TypeOK
<1>3. ASSUME NEW b \in Bots
      PROVE  /\ records[b] = None /\ pending[b] = None /\ io[b] = NoPut /\ late[b] = NoPut
             /\ commands[b] = <<>> /\ flow[b] = NoFlow /\ mine[b] = {}
  <2>1. /\ records[b] = None /\ pending[b] = None /\ io[b] = NoPut /\ late[b] = NoPut
        /\ flow[b] = NoFlow /\ mine[b] = {}
    BY DEF Init
  <2>2. commands[b] = <<>>
    BY DEF Init
  <2> QED BY <2>1, <2>2
<1>4. NoFlow.pc = "none" /\ NoPut.pc = "idle" /\ NoPut.by = "nobody"
  BY PutFields DEF NoFlow
<1>5. log = <<>> /\ doomed = {}
  BY DEF Init
<1>6. \A i \in DOMAIN log : FALSE
  BY <1>5
<1>7. ASSUME NEW b \in Bots PROVE BotInv(b)
  <2>1. /\ flow[b].pc = "none" /\ commands[b] = <<>> /\ mine[b] = {}
        /\ io[b] = NoPut /\ io[b].pc = "idle" /\ io[b].by = "nobody" /\ late[b].pc = "idle"
    BY <1>3, <1>4
  <2>2. DOMAIN commands[b] = {}
    BY <2>1
  <2>3. Served(b)
    BY <2>1 DEF Served
  <2>4. Rises(b)
    BY <2>1 DEF Rises, Replaces
  <2>5. Owns(b) /\ Sees(b)
    BY <2>1, <2>2 DEF Owns, Sees
  <2>6. Remembered(b) /\ Watches(b)
    BY <1>3, NoneFacts DEF Remembered, Watches
  <2> QED BY <2>3, <2>4, <2>5, <2>6 DEF BotInv
<1>8. \A b \in Bots : mine[b] = {}
  BY DEF Init
<1>9. /\ \A b, c \in Bots : b # c => mine[b] \intersect mine[c] = {}
      /\ \A e \in doomed \union UNION {mine[b] : b \in Bots} : grants[e] # 0
  BY <1>5, <1>8
<1>10. \A i \in DOMAIN log : AtLeast(Stored, log[i])
  BY <1>6
<1> QED BY <1>2, <1>7, <1>9, <1>10, InvParts

\* What is kept of a bot that does not step, while the bucket rises and others are doomed.
LEMMA KeptStep ==
  ASSUME NEW c \in Bots, TypeOK, CommandsServed, RecordsRise, BotInv(c), Kept(c),
         Stored' \in Cells, Rank(Stored') >= Rank(Stored),
         \A put : Replaces(put) => Replaces(put)',
         \A e \in mine[c] : e \in doomed' => e \in doomed
  PROVE  BotInv(c)'
<1>1. Served(c)' /\ Owns(c)'
  BY DEF BotInv, Kept, Served, Owns
<1>2. flow[c].pc = "sync" => flow[c].session.exp \in mine[c]
  BY DEF BotInv, Owns
<1>3. Sees(c)'
  BY <1>2 DEF BotInv, Kept, Sees
<1>4. Watches(c)'
  BY DEF BotInv, Kept, Watches, Doomed, Undoing
<1>5. /\ records[c] \in Cells /\ io[c].stored \in Cells
      /\ Stored \in Cells /\ Rank(Stored) \in Nat /\ Rank(Stored') \in Nat
      /\ Rank(records[c]) \in Nat /\ Rank(io[c].stored) \in Nat
  BY PlaceFacts, TypeFunctions, CellFacts
<1>6. AtLeast(Stored, records[c]) => AtLeast(Stored', records[c])
  BY <1>5, OrderFacts
<1>7. AtLeast(Stored, io[c].stored) => AtLeast(Stored', io[c].stored)
  BY <1>5, OrderFacts
<1>8. Remembered(c)'
  BY <1>6 DEF BotInv, Kept, Remembered
<1>9. Rises(c)'
  <2>1. Replaces(io[c])' /\ Replaces(late[c])'
    BY DEF BotInv, Rises, Kept, Replaces
  <2> QED BY <1>7, <2>1 DEF BotInv, Rises, Kept
<1> QED BY <1>1, <1>3, <1>4, <1>8, <1>9 DEF BotInv

LEMMA SyncStep == SyncInv /\ [Next]_vars => SyncInv'
<1> SUFFICES ASSUME SyncInv, [Next]_vars PROVE SyncInv'
  OBVIOUS
<1>0. /\ TypeOK /\ CommandsServed /\ RecordsRise /\ GrantsOwned /\ InvalidationSeen
      /\ RevocationNotLost /\ DoomedGrantNeverHolds
  BY DEF SyncInv
<1>1. ASSUME TypeOK', \A i \in DOMAIN log' : AtLeast(Stored', log'[i]),
             \A b, c \in Bots : b # c => mine'[b] \intersect mine'[c] = {},
             \A e \in doomed' \union UNION {mine'[b] : b \in Bots} : grants'[e] # 0,
             \A b \in Bots : BotInv(b)'
      PROVE  SyncInv'
  <2>1. CommandsServed'
    BY <1>1 DEF CommandsServed, BotInv, Served
  <2>2. RecordsRise'
    BY <1>1 DEF RecordsRise, BotInv, Rises
  <2>3. GrantsOwned'
    BY <1>1 DEF GrantsOwned, BotInv, Owns
  <2>4. InvalidationSeen'
    BY <1>1 DEF InvalidationSeen, BotInv, Sees
  <2>5. RevocationNotLost'
    BY <1>1 DEF RevocationNotLost, BotInv, Remembered
  <2>6. DoomedGrantNeverHolds'
    BY <1>1 DEF DoomedGrantNeverHolds, BotInv, Watches
  <2> QED BY <1>1, <2>1, <2>2, <2>3, <2>4, <2>5, <2>6 DEF SyncInv
<1>2. /\ \A i \in DOMAIN log : AtLeast(Stored, log[i])
      /\ \A b, c \in Bots : b # c => mine[b] \intersect mine[c] = {}
      /\ \A e \in doomed \union UNION {mine[b] : b \in Bots} : grants[e] # 0
      /\ \A b \in Bots : BotInv(b)
  BY InvParts
<1>3. ASSUME UNCHANGED <<log, records, pending, io, late, commands, flow, invalid, nats, pos,
                         seen, grants, mine, doomed>>,
             TypeOK'
      PROVE  SyncInv'
  <2>1. \A c \in Bots : Kept(c)
    BY <1>3 DEF Kept
  <2>2. Stored' = Stored /\ Stored \in Cells /\ Rank(Stored) \in Nat
    BY <1>0, <1>3, TypeFunctions, CellFacts DEF Stored
  <2>3. \A put : Replaces(put) => Replaces(put)'
    BY <1>3 DEF Replaces
  <2>4. \A c \in Bots : BotInv(c)'
    <3>1. Rank(Stored') >= Rank(Stored)
      BY <2>2
    <3> QED BY <1>0, <1>2, <1>3, <2>1, <2>2, <2>3, <3>1, KeptStep
  <2>5. \A i \in DOMAIN log' : AtLeast(Stored', log'[i])
    BY <1>2, <1>3, <2>2
  <2>6. /\ \A c, d \in Bots : c # d => mine'[c] \intersect mine'[d] = {}
        /\ \A e \in doomed' \union UNION {mine'[c] : c \in Bots} : grants'[e] # 0
    BY <1>2, <1>3
  <2> QED BY <1>1, <1>3, <2>4, <2>5, <2>6
<1>4. CASE UNCHANGED vars \/ ChangeHands
  <2>1. UNCHANGED <<log, records, pending, io, late, commands, flow, invalid, nats, pos,
                    seen, grants, mine, doomed>>
    BY <1>4 DEF vars, ChangeHands, local, history
  <2>2. TypeOK'
    <3>1. UNCHANGED vars => TypeOK'
      BY <1>0 DEF vars, TypeOK
    <3> QED BY <1>0, <1>4, <3>1, TypeStep DEF Next
  <2> QED BY <1>3, <2>1, <2>2
<1>5. ASSUME NEW b \in Bots, BotStep(b) PROVE SyncInv'
  <2>1. Moves(b) /\ LogGrows(b) /\ \A c \in Bots \ {b} : Kept(c)
    BY <1>0, <1>5, MovesStep, LogStep, FrameStep
  <2>2. TypeOK'
    BY <1>0, <1>5, TypeStep DEF Next, BotStep
  <2>3. /\ Stored' \in Cells /\ Rank(Stored') >= Rank(Stored)
        /\ \A i \in DOMAIN log' : log'[i] \in Sessions /\ Rank(Stored') >= Rank(log'[i])
        /\ \A put : Replaces(put) => Replaces(put)'
    BY <1>0, <2>1, LogRises
  <2>4. \A i \in DOMAIN log' : AtLeast(Stored', log'[i])
    <3>1. ASSUME NEW i \in DOMAIN log' PROVE AtLeast(Stored', log'[i])
      <4>1. log'[i] \in Cells
        BY <2>3, SessionFacts
      <4> QED BY <2>3, <4>1, OrderFacts
    <3> QED BY <3>1
  <2>5. \A c \in Bots \ {b} : /\ mine'[c] = mine[c] /\ mine'[b] \intersect mine[c] = {}
                              /\ \A e \in mine[c] : e \in doomed' => e \in doomed
    BY <1>0, <2>1, OthersSafe
  <2>6. \A c, d \in Bots : c # d => mine'[c] \intersect mine'[d] = {}
    BY <1>2, <2>5
  <2>7. \A e \in doomed' \union UNION {mine'[c] : c \in Bots} : grants'[e] # 0
    <3>1. /\ \A e : grants[e] # 0 /\ e \in Expiries => grants'[e] # 0
          /\ \A e \in mine'[b] : e \in mine[b] \/ (e \in Expiries /\ grants[e] = 0 /\ grants'[e] # 0)
          /\ \A e \in doomed' : e \in doomed \/ e \in mine[b]
               \/ (e \in mine'[b] /\ e \in Expiries /\ grants[e] = 0 /\ grants'[e] # 0)
      BY <1>0, <2>1, HolderStep
    <3>2. \A e \in doomed \union UNION {mine[c] : c \in Bots} : e \in Expiries /\ grants[e] # 0
      BY <1>0, <1>2, TypeFunctions DEF TypeOK
    <3> QED BY <2>5, <3>1, <3>2
  <2>8. BotInv(b)'
    BY <1>0, <2>1, ServedStep, RisesStep, RememberedStep, OwnsStep, SeesStep, WatchesStep DEF BotInv
  <2>9. \A c \in Bots \ {b} : BotInv(c)'
    BY <1>0, <1>2, <2>1, <2>3, <2>5, KeptStep
  <2>10. \A c \in Bots : BotInv(c)'
    BY <2>8, <2>9
  <2> QED BY <1>1, <2>2, <2>4, <2>6, <2>7, <2>10
<1> QED BY <1>4, <1>5 DEF Next, BotStep

\* The invariant of authorization sync holds whatever AUTH, QUIT, the watch, retries, lost
\* writes and crashes do.
THEOREM SyncInductive == Spec => []SyncInv
<1> QED BY InitSyncInv, SyncStep, PTL DEF Spec

\* Sessions, queued mutations and bucket records are grants or their revocations, and all
\* other state is of its type.
THEOREM TypeCorrect == Spec => []TypeOK
<1>1. SyncInv => TypeOK
  BY DEF SyncInv
<1> QED BY <1>1, SyncInductive, PTL

\* SessionSync.write and queue, put_newer: a revocation in a bot's cache is durable, queued,
\* or about to be queued by the AUTH that undoes its own grant.
THEOREM RevocationNotLostHolds == Spec => []RevocationNotLost
<1>1. SyncInv => RevocationNotLost
  BY DEF SyncInv
<1> QED BY <1>1, SyncInductive, PTL

\* authenticate(), watched_valid: a grant whose identity went while AUTH was in flight never
\* authorizes anyone once the command is over.
THEOREM DoomedGrantHolds == Spec => []DoomedGrantNeverHolds
<1>1. SyncInv => DoomedGrantNeverHolds
  BY DEF SyncInv
<1> QED BY <1>1, SyncInductive, PTL

=============================================================================
