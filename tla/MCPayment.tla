----------------------------- MODULE MCPayment -----------------------------
(* Small instances of Payment. *)
EXTENDS Payment, TLC

\* Every authorization expires at time 1: with a skew or a grace the clock
\* passes through valid, expired but tolerated, and beyond.
BeforeOne == [a \in Auths |-> 1]

Everywhere  == [store : {"redis", "memory"}, chain : BOOLEAN]
SharedChain == {[store |-> "redis", chain |-> TRUE]}
=============================================================================
