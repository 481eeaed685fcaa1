----------------------------- MODULE WorkQueue ------------------------------
(***************************************************************************)
(* The work queue of controller-runtime v0.20.4, as the two reconcilers    *)
(* use it, for one key: an addition while the key is being reconciled is   *)
(* remembered, additions of a waiting key are merged, and a result that    *)
(* asks for it (RequeueAfter > 0, or an error or recovered panic, which    *)
(* back off) adds the key again later.                                     *)
(***************************************************************************)

WorkQueueType == [dirty : BOOLEAN, busy : BOOLEAN, later : BOOLEAN]

Empty == [dirty |-> FALSE, busy |-> FALSE, later |-> FALSE]

AddedIf(q, wanted) == [q EXCEPT !.dirty = @ \/ wanted]

CanGet(q) == q.dirty /\ ~q.busy
Got(q)    == [q EXCEPT !.dirty = FALSE, !.busy = TRUE]

\* The reconciliation ends; again says whether its result requeues the key.
Done(q, again) == [q EXCEPT !.busy = FALSE, !.later = @ \/ again]

Fired(q) == [q EXCEPT !.later = FALSE, !.dirty = TRUE]

\* The key is being reconciled or will be without any further event.
Awake(q) == q.dirty \/ q.busy \/ q.later
=============================================================================
