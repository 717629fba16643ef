----------------------------- MODULE MCVDrives -----------------------------
(* A small instance of VDrives: two sectors of two bytes, iterations of three *)
(* bytes (which do not divide an image, as 100 does not), two image files.   *)
EXTENDS VDrives, TLC

CONSTANTS fA, fB   \* model values: image files

MCFiles    == {fA, fB}
MCOriginal == fA :> 0 @@ fB :> 9

Allow(w, s, b, f) ==
  "write" :> w @@ "select" :> s @@ "button" :> b @@ "fail" :> f

BudgetCore == Allow(2, 2, 1, 1)
=============================================================================
