---------------------------- MODULE MCSessionSync ----------------------------
EXTENDS SessionSync, TLC

\* Two sessions that compete under one fault, or across a change of holder; one session
\* under both.
MCBudgets ==
  {[sessions |-> 2, holders |-> 1, faults |-> 1],
   [sessions |-> 2, holders |-> 2, faults |-> 0],
   [sessions |-> 1, holders |-> 2, faults |-> 1]}

=============================================================================
