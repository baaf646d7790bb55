----------------------------- MODULE RecordRegister -----------------------------
(***************************************************************************)
(* What the durable records promise to the bots that act on them: under a     *)
(* name revisions only rise; a reader learns what was stored, never something *)
(* older than it knows there, and acts on the newest it knows under any name,  *)
(* until it forgets everything at once.  What was never stored is not learnt.  *)
(***************************************************************************)
EXTENDS Naturals

CONSTANTS
  Readers, Names,
  Blank,     \* what a reader knows under each name before it learns anything
  Start      \* what it acts on then

VARIABLES
  stored,    \* every record ever stored under a name
  known,     \* the newest record a reader has learnt under a name
  acts       \* the record a reader acts on

registerVars == <<stored, known, acts>>

RegisterInit ==
  /\ stored = [n \in Names |-> {}]
  /\ known = [b \in Readers |-> Blank] /\ acts = [b \in Readers |-> Start]

\* A record replaces those of lower revision.
Store(n) ==
  /\ \E record \in stored'[n] :
       /\ \A old \in stored[n] : old.rev < record.rev
       /\ stored' = [stored EXCEPT ![n] = @ \union {record}]
  /\ UNCHANGED <<known, acts>>

Learn(b, n) ==
  /\ \E record \in stored[n] :
       /\ known[b][n].rev < record.rev
       /\ known' = [known EXCEPT ![b][n] = record]
       /\ acts' = IF acts[b].rev < record.rev THEN [acts EXCEPT ![b] = record] ELSE acts
  /\ UNCHANGED stored

Forget(b) ==
  /\ known' = [known EXCEPT ![b] = Blank] /\ acts' = [acts EXCEPT ![b] = Start]
  /\ UNCHANGED stored

RegisterNext ==
  \/ \E n \in Names : Store(n)
  \/ \E b \in Readers : Forget(b) \/ \E n \in Names : Learn(b, n)

RegisterSpec == RegisterInit /\ [][RegisterNext]_registerVars

=============================================================================
