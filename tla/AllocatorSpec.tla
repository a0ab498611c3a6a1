--------------------------- MODULE AllocatorSpec ---------------------------
(***************************************************************************)
(* What the kernel's callers need from kmalloc and kfree: every region     *)
(* handed out lies inside the heap, is at least as large as was asked for  *)
(* and shares no block with a region still in use.  It may always refuse.  *)
(***************************************************************************)
EXTENDS Integers

CONSTANTS Total, BlockSize, Requests

VARIABLE live        \* set of [base, len, size]: regions in use

Span(r) == r.base .. r.base + r.len - 1

Init == live = {}

Grant(r) ==
  /\ r.base >= 0 /\ r.len >= 1 /\ r.base + r.len <= Total
  /\ r.size <= r.len * BlockSize
  /\ \A other \in live : Span(r) \cap Span(other) = {}
  /\ live' = live \cup {r}

Return(r) == live' = live \ {r}

Next == \/ \E b \in 0 .. Total - 1, n \in 1 .. Total, s \in Requests :
             Grant([base |-> b, len |-> n, size |-> s])
        \/ \E r \in live : Return(r)

Spec == Init /\ [][Next]_live
=============================================================================
