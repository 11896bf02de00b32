---- MODULE MCDispatch ----
(***************************************************************************)
(* Small instances of Dispatch: two deliveries of one order.  The          *)
(* transitions are interchangeable, and start in a fixed order; two of     *)
(* them overlap.  One is enough beside messages that may be refused.       *)
(***************************************************************************)
EXTENDS Dispatch, TLC

CONSTANTS d1, d2, o1, e1, e2, e3

MCOrderOf == d1 :> o1 @@ d2 :> o1

InOrder ==
    /\ (pc[e3] # "idle" => pc[e2] # "idle") /\ (pc[e2] # "idle" => pc[e1] # "idle")
    /\ \E e \in Edits : pc[e] \notin {"load", "save"}
    /\ (\E d \in Deliveries : content[d] # "fit") => pc[e2] = "idle"

\* Nobody has to start a transition, so the fairness of Spec is not touched.
MCSpec == Init /\ [][Next /\ InOrder']_vars /\ Fairness
====
