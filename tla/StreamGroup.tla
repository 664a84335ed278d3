---------------------------- MODULE StreamGroup -----------------------------
(***************************************************************************)
(* XAUTOCLAIM on the pending entries list pel of a consumer group, as the   *)
(* broker uses it: scan from the cursor start, claim the first count        *)
(* entries whose idle time exceeds the minimum (the set idle), and return   *)
(* the position where the next scan begins.  Entry IDs are positions in the *)
(* stream; 0 is Redis' "0-0", the beginning.                                *)
(***************************************************************************)
EXTENDS Integers, FiniteSets

Scanned(idle, start) == {id \in idle : id >= start}

ClaimPage(idle, start, count) ==
  {id \in Scanned(idle, start) :
     Cardinality({other \in Scanned(idle, start) : other < id}) < count}

\* The entries after the last one claimed.
Unscanned(pel, page) == {id \in pel : \A claimed \in page : id > claimed}

Least(ids) == CHOOSE id \in ids : \A other \in ids : id <= other

\* A scan that ran out of entries starts over.
NextCursor(pel, page, count) ==
  IF Cardinality(page) < count \/ Unscanned(pel, page) = {}
  THEN 0
  ELSE Least(Unscanned(pel, page))
=============================================================================
