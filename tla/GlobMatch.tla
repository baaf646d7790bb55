-------------------------------- MODULE GlobMatch --------------------------------
(***************************************************************************)
(* _glob_matches of irc/protocol.py, which decides whether a ban mask matches *)
(* a nickname, user or host: one step per round of its loop.                  *)
(***************************************************************************)
EXTENDS Naturals, Sequences

CONSTANTS Characters, MaxPattern, MaxValue

\* Masks are matched against the parts of a bot's hostmask: its nickname, also its user name
\* (config.py:25), and the host a server shows for it have no wildcards.
ASSUME CharactersAssumption == "*" \notin Characters /\ MaxPattern \in Nat /\ MaxValue \in Nat

VARIABLE glob   \* pattern, value, the indices of the loop, and its result

Patterns == UNION {[1..n -> Characters \union {"*", "?"}] : n \in 0..MaxPattern}
Values == UNION {[1..n -> Characters] : n \in 0..MaxValue}

Start(pattern, value) ==
  [pattern |-> pattern, value |-> value, p |-> 1, v |-> 1, star |-> 0, starValue |-> 1,
   result |-> "none", rounds |-> 0]

GlobInit == \E pattern \in Patterns, value \in Values : glob = Start(pattern, value)
GlobRests == glob = [Start(<<>>, <<>>) EXCEPT !.result = "match"]

More == glob.result = "none" /\ glob.v <= Len(glob.value)
Matched ==
  glob.p <= Len(glob.pattern) /\ glob.pattern[glob.p] \in {glob.value[glob.v], "?"}
AtStar == glob.p <= Len(glob.pattern) /\ glob.pattern[glob.p] = "*"

Advance ==
  /\ More /\ Matched
  /\ glob' = [glob EXCEPT !.p = @ + 1, !.v = @ + 1, !.rounds = @ + 1]

TakeStar ==
  /\ More /\ ~Matched /\ AtStar
  /\ glob' = [glob EXCEPT !.star = glob.p, !.starValue = glob.v, !.p = @ + 1, !.rounds = @ + 1]

\* Mutant: the star is not given one more character.
BackToStart(g) == g.starValue

\* Where the value goes on after the last star.
Back(g) == g.starValue + 1

\* The last star takes one character more.
BackTrack ==
  /\ More /\ ~Matched /\ ~AtStar /\ glob.star > 0
  /\ glob' = [glob EXCEPT !.p = glob.star + 1, !.starValue = Back(glob), !.v = Back(glob),
                          !.rounds = @ + 1]

Mismatch ==
  /\ More /\ ~Matched /\ ~AtStar /\ glob.star = 0
  /\ glob' = [glob EXCEPT !.result = "mismatch"]

\* At the end of the value only stars may be left.
Finish ==
  /\ glob.result = "none" /\ glob.v > Len(glob.value)
  /\ glob' = [glob EXCEPT !.result =
       IF \A i \in glob.p .. Len(glob.pattern) : glob.pattern[i] = "*"
         THEN "match" ELSE "mismatch"]

GlobNext == Advance \/ TakeStar \/ BackTrack \/ Mismatch \/ Finish

GlobSpec == GlobInit /\ [][GlobNext]_glob

\* What a mask means: its characters stand for themselves, "?" for any one, "*" for any run.
\* For each rest of the mask, the places of the value from which it matches the rest.
Matching(pattern, value) ==
  LET places[i \in 1 .. Len(pattern) + 1] ==
        IF i > Len(pattern) THEN {Len(value) + 1}
        ELSE IF pattern[i] = "*"
          THEN {j \in 1 .. Len(value) + 1 : \E k \in places[i + 1] : j <= k}
          ELSE {j \in 1 .. Len(value) : pattern[i] \in {value[j], "?"} /\ j + 1 \in places[i + 1]}
  IN places

Means(pattern, value) == 1 \in Matching(pattern, value)[1]

\* Returning to the last star only is enough to decide every mask, and keeps the rounds
\* "without backtracking blowup" (protocol.py:258): within length times length.
GlobDecides ==
  /\ glob.result # "none" => (glob.result = "match") = Means(glob.pattern, glob.value)
  /\ glob.rounds <= (Len(glob.pattern) + 1) * (Len(glob.value) + 1)

\* Why: until the last star, or the start, is returned to, what it leads to and what the
\* rest of the mask leads to from here is the same; a star that is found stands for the run
\* of the earlier one and its own.
GlobInv ==
  LET places == Matching(glob.pattern, glob.value)
      first == glob.star + 1
      passed == glob.p - first
  IN /\ glob \in [pattern : Patterns, value : Values, p : Nat, v : Nat, star : Nat,
                  starValue : Nat, result : {"none", "match", "mismatch"}, rounds : Nat]
     /\ glob.p \in 1 .. Len(glob.pattern) + 1 /\ glob.v \in 1 .. Len(glob.value) + 1
     /\ glob.star < glob.p /\ glob.starValue \in 1 .. glob.v
     /\ glob.v = glob.starValue + passed
     /\ glob.rounds <= (glob.starValue - 1) * (Len(glob.pattern) + 1) + glob.p - 1
     /\ \A k \in places[first] : k >= glob.starValue => k + passed \in places[glob.p]
     /\ glob.v \in places[glob.p] => glob.starValue \in places[first]
     /\ IF glob.star = 0
          THEN glob.starValue = 1
          ELSE Means(glob.pattern, glob.value) <=> \E k \in places[first] : k >= glob.starValue
     /\ glob.result # "none" => (glob.result = "match") = Means(glob.pattern, glob.value)

=============================================================================
