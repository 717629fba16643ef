----------------------------- MODULE MCMdvFlush -----------------------------
(* Small instances of MdvFlush: two sectors, each in a bitmap byte of its   *)
(* own, two bytes a sector, chunks of one byte.  The budgets name how many  *)
(* outside events of each kind a run allows.                                *)
EXTENDS MdvFlush, TLC

CONSTANTS c1, c2, fA, fB   \* model values: cards and image files

MCFiles  == {fA, fB}
MCCards  == {c1, c2}
MCCardOf == fA :> c1 @@ fB :> c1
MCByteOf == [s \in Sectors |-> s]

Allow(w, l, r, s) ==
  "write" :> w @@ "load" :> l @@ "reset" :> r @@ "swap" :> s

BudgetAll     == Allow(2, 2, 1, 1)
BudgetReset   == Allow(1, 1, 1, 0)
BudgetRewrite == Allow(2, 1, 0, 0)
=============================================================================
