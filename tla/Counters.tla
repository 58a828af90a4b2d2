------------------------------ MODULE Counters ------------------------------
(***************************************************************************)
(* The unsigned counters of the message status of subscriptions and        *)
(* publications, which wrap around.                                        *)
(***************************************************************************)
EXTENDS Integers

CONSTANT CounterModulus   \* 2^32 for the code's uint32 counters

ASSUME ModulusAssumption == CounterModulus \in Nat \ {0, 1}

Counter == 0 .. CounterModulus - 1

Wrap(n) == n % CounterModulus

=============================================================================
