----------------------------- MODULE MCItemCache ----------------------------
(***************************************************************************)
(* Small instances of ItemCache.                                           *)
(***************************************************************************)
EXTENDS ItemCache, TLC

a == <<"a">>
b == <<"b">>
d == <<"d">>
dx == <<"d", "x">>
e == <<"e">>
ex == <<"e", "x">>

trash == <<".Trashes">>
trashed == <<".Trashes", "x">>

TwoNames == {a, b, trash, trashed}
OneName == {a}
Tree == {d, dx, e, ex}

NoRename == {}
RenameName == {<<a, b>>, <<b, trash>>}
RenameTree == {<<d, e>>}

(* What an idle thread worked on last is never read again (Call sets all   *)
(* of it), so that states which differ in nothing else count as one.       *)
View ==
    <<store, fskit, pc,
      [t \in Thread |-> IF pc[t] = "idle" THEN <<>> ELSE <<path[t], to[t], kind[t], item[t]>>]>>

Symmetry == Permutations(Instance) \cup Permutations(Thread)
=============================================================================
