------------------------- MODULE MCThreadSafeQueue -------------------------
(* Two producers and two consumers on rings of three slots: small enough   *)
(* to wrap around and to fill, with every pair of calls racing.            *)
EXTENDS ThreadSafeQueue, TLC

CONSTANTS p1, p2, c1, c2, f1, f2

MCProducers == {p1, p2}
MCConsumers == {c1, c2}
MCFrames == {[bytes |-> f1, len |-> 1], [bytes |-> f2, len |-> 256]}

(* Producers are interchangeable, and so are consumers. *)
MCSymmetry == Permutations(MCProducers) \union Permutations(MCConsumers)

=============================================================================
