------------------------- MODULE MCOAuthCredentials -------------------------
EXTENDS OAuthCredentials, TLC

Symmetry == Permutations(Requests)
=============================================================================
