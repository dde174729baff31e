----------------------------- MODULE MCSpdkLog -----------------------------
(* Instances of SpdkLog: pages of six cells, so that one small request     *)
(* leaves less than a Fixed32 in its page and the larger ones go on to the *)
(* next page.                                                              *)
EXTENDS SpdkLog, TLC

CONSTANTS r1, r2, r3

SizesOf2 == r1 :> 3 @@ r2 :> 1
SizesOf3 == r1 :> 1 @@ r2 :> 3 @@ r3 :> 2

=============================================================================
