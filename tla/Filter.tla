-------------------------------- MODULE Filter --------------------------------
(***************************************************************************)
(* A loop that goes through a list from the front and erases what is not   *)
(* in S.  It is SelectSeq with a set for the test, written as a recursive  *)
(* function so that FilterProofs can reason about it.                      *)
(***************************************************************************)
LOCAL INSTANCE Integers
LOCAL INSTANCE Sequences

Filter(s, S) ==
  LET kept[n \in 0 .. Len(s)] ==
        IF n = 0 THEN <<>>
        ELSE IF s[n] \in S THEN Append(kept[n - 1], s[n]) ELSE kept[n - 1]
  IN kept[Len(s)]
===============================================================================
