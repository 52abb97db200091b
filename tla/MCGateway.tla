----------------------------- MODULE MCGateway -----------------------------
EXTENDS Gateway, TLC

CONSTANTS p1, p2   \* providers

\* A model of each provider, and the meta-model both serve in this order.
MCModels == {"free", "m1", "m2"}
MCMetas  == {"free"}
MCOrder  == [m \in MCModels |->
               CASE m = "free" -> (p1 :> 1) @@ (p2 :> 2)
                 [] m = "m1"   -> (p1 :> 1)
                 [] m = "m2"   -> (p2 :> 1)]

MCAsk(m, strict, private, stream) ==
    [model |-> m, strict |-> strict, private |-> private, stream |-> stream]

Plain    == MCAsk("free", FALSE, FALSE, FALSE)
Streamed == MCAsk("free", FALSE, FALSE, TRUE)
Private  == MCAsk("free", FALSE, TRUE, FALSE)
Strict   == MCAsk("m1", TRUE, FALSE, FALSE)

AllAsks == {Plain, Private, Strict,
            MCAsk("free", TRUE, FALSE, FALSE), MCAsk("m2", FALSE, TRUE, FALSE)}
PlainAsks  == {Plain}
ContractAsks == {Plain, Streamed, Strict,
                 MCAsk("free", TRUE, FALSE, FALSE), MCAsk("m2", FALSE, TRUE, FALSE)}

Symmetry == Permutations(Requests)
=============================================================================
