----------------------------- MODULE MCIrcChannel -----------------------------
EXTENDS IrcChannel

CONSTANTS b1, b2, b3

Scenario(mesh, settled, kinds, counts) ==
  [mesh |-> mesh, settled |-> settled, kinds |-> kinds,
   left |-> [f \in Faults |-> IF f \in DOMAIN counts THEN counts[f] ELSE 0]]

Two == {b1, b2}
Three == {b1, b2, b3}

\* One bot and two bots from the start; two settled ones under new records, two disturbances,
\* or one and other faults; three settled ones under one.
Scenarios ==
  {Scenario({b1}, FALSE, {"-t"}, [records |-> 1, disturb |-> 1]),
   Scenario({b1}, FALSE, {}, [records |-> 2, full |-> 1, drops |-> 1]),
   Scenario(Two, FALSE, {}, [records |-> 1, full |-> 1]),
   Scenario(Two, FALSE, {}, [records |-> 1, drops |-> 1]),
   Scenario(Two, TRUE, {}, [records |-> 2, late |-> 1]),
   Scenario(Two, TRUE, {"+b", "KICK"}, [disturb |-> 2]),
   Scenario(Two, TRUE, {"+b", "+i", "+l"}, [disturb |-> 1, drops |-> 1, full |-> 1]),
   Scenario(Two, TRUE, {"-o", "-t"}, [disturb |-> 2]),
   Scenario(Two, TRUE, {"KICK"}, [disturb |-> 1, full |-> 1, lost |-> 1]),
   Scenario(Three, TRUE, {"KICK"}, [disturb |-> 1]),
   Scenario(Three, TRUE, {"-o"}, [disturb |-> 1, full |-> 1]),
   Scenario(Three, TRUE, {}, [admin |-> 1]),
   Scenario(Three, TRUE, {}, [drops |-> 1])}

\* A bot that leaves, whose PART is refused by a full queue, and that is to join again.
Rejoin == {Scenario({b1}, FALSE, {}, [records |-> 3, full |-> 1])}

=============================================================================
