--------------------------- MODULE MCChatFallback ---------------------------
(* Two clients and two accounts of one provider: one client falls back from  *)
(* one model to another of the same provider, the other from a provider that *)
(* has no account to the first model.                                        *)
EXTENDS ChatFallback, TLC

CONSTANTS a, b, m1, m2, p, q, r1, r2

MCProviderOf == (a :> p) @@ (b :> p)

MCTargetsOf ==
    (r1 :> <<[provider |-> p, model |-> m1], [provider |-> p, model |-> m2]>>) @@
    (r2 :> <<[provider |-> q, model |-> m1], [provider |-> p, model |-> m1]>>)

AccountSymmetry == Permutations({a, b})
=============================================================================
