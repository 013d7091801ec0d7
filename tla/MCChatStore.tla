---------------------------- MODULE MCChatStore -----------------------------
(* Three account calls, four message calls, or one of each.                *)
(* One of the two passwords has a blank: SsGet finds its first word.       *)
EXTENDS ChatStore

CONSTANTS spaced, plain, word

MCBudgets == {<<3, 0>>, <<0, 4>>, <<1, 1>>}

MCToken == [u \in Users |-> (spaced :> word) @@ (plain :> plain)]

Symmetry == Permutations(Workers) \union Permutations(Contents \ Long)
=============================================================================
