----------------------------- MODULE MCReadCache -----------------------------
(* Workloads for model-checking ReadCache. *)
EXTENDS ReadCache, TLC

CONSTANTS w1, w2, b1, edit, list1, list2

Job(kind, w, b) == [kind |-> kind, worker |-> w, browser |-> b]
All(e, l1, l2) == (edit :> e) @@ (list1 :> l1) @@ (list2 :> l2)

\* A browser lists the catalogue twice, at one worker or at two, or a summary is read
\* beside it, while a row is edited at either worker or behind its back.
MCWorkloads ==
  {All(e, Job("LIST", w1, b1), Job("LIST", v, b)) :
     e \in {Job("EDIT", w1, NoBrowser), Job("EDIT", w2, NoBrowser), Job("BULK", w1, NoBrowser)},
     v \in {w1, w2}, b \in {b1, NoBrowser}}
=============================================================================
