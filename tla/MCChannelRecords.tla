--------------------------- MODULE MCChannelRecords ---------------------------
EXTENDS ChannelRecords, TLC

Symmetry == Permutations(Bots) \union Permutations(Keys)

=============================================================================
