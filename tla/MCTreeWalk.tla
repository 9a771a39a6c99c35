---------------------------- MODULE MCTreeWalk ----------------------------
(***************************************************************************)
(* A directory without and three with a subdirectory, one of them empty.   *)
(***************************************************************************)
EXTENDS TreeWalk, TLC

CONSTANTS root, sub, file_a, file_b, file_c, file_d

FlatTree == (root :> <<file_a, file_b>>) @@ (sub :> <<>>)
NestedTree == (root :> <<sub, file_a, file_b>>) @@ (sub :> <<file_c, file_d>>)
LastTree == (root :> <<file_a, sub>>) @@ (sub :> <<file_c>>)
EmptyTree == (root :> <<sub, file_a>>) @@ (sub :> <<>>)

AllTrees == {EmptyTree, FlatTree, NestedTree, LastTree}
NestedTrees == {NestedTree, LastTree}
=============================================================================
