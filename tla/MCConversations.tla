-------------------------- MODULE MCConversations --------------------------
EXTENDS Conversations, TLC

Symmetries == Permutations(Resources)
=============================================================================
