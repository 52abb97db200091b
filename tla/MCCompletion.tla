---------------------------- MODULE MCCompletion ----------------------------
EXTENDS Completion, TLC

CONSTANTS c1, c2   \* contents

MCAsk(content, keyed, strict, private, stream) ==
    [content |-> content, keyed |-> keyed, strict |-> strict,
     private |-> private, stream |-> stream]

\* With the virtual key, one content plain and streamed, and another that pushes
\* it out of the cache; without the key, the first one, strict.
MixedAsks == {MCAsk(c1, TRUE, FALSE, FALSE, FALSE), MCAsk(c1, TRUE, FALSE, FALSE, TRUE),
              MCAsk(c2, TRUE, FALSE, FALSE, FALSE), MCAsk(c1, FALSE, TRUE, FALSE, FALSE)}

PrivateAsks == {MCAsk(c1, FALSE, FALSE, private, FALSE) : private \in BOOLEAN}

Symmetry == Permutations(Slots)
=============================================================================
