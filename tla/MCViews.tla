------------------------------ MODULE MCViews ------------------------------
(* Views of two or three nodes, numbered as their addresses. *)
EXTENDS Views, TLC

MCNoView == <<>>
MCFirstView == <<1>>

\* Node 2 joins the first node; node 3 joins a group of two that restarts.
MCStarts == {[views |-> <<<<1>>>>, down |-> {3}, n |-> 0],
             [views |-> <<<<1>>, <<1, 2>>>>, down |-> {}, n |-> 1]}
=============================================================================
