----------------------------- MODULE MCPrograms -----------------------------
(***************************************************************************)
(* The programs of Programs, each on its own small instance.               *)
(***************************************************************************)
EXTENDS Programs, TLC

(* What a training can leave in a file: complete, or with one thing        *)
(* missing or too many.                                                    *)
Features5 == {"cycles_per_ms", "IPC", "Cache_Miss_Ratio", "MemStall_per_Mem", "MemStall_per_Inst"}
Trained == [readable |-> TRUE, json |-> TRUE, features |-> Features5,
            intercept |-> TRUE, weights |-> Features5]
mc_ModelFiles ==
  {Trained,
   [Trained EXCEPT !.json = FALSE],
   [Trained EXCEPT !.features = @ \ {"IPC"}],
   [Trained EXCEPT !.features = @ \cup {"Uop_per_Cycle"},
                   !.weights = @ \cup {"Uop_per_Cycle"}],
   [Trained EXCEPT !.intercept = FALSE],
   [Trained EXCEPT !.weights = @ \ {"Cache_Miss_Ratio"}]}

(* A training on each side of the bounds: a forced class with and without  *)
(* a CPU, a class that does not exist, warm-up windows or none.            *)
Training == [training |-> TRUE, force |-> "P", empty |-> {}, dataset |-> TRUE, warmup |-> 1]
mc_Envs == {Training, [Training EXCEPT !.empty = {"P"}],
            [Training EXCEPT !.force = "x", !.warmup = 0],
            [Training EXCEPT !.training = FALSE]}

mc_Counts == <<1, 3>>

(* All strings of up to two tokens over cores inside and outside 0..2.     *)
Numbers == -1..3
Tokens == {[kind |-> "core", lo |-> c, hi |-> c] : c \in Numbers}
            \cup {[kind |-> "range", lo |-> a, hi |-> b] : a, b \in Numbers}
            \cup {[kind |-> "unreadable", lo |-> 0, hi |-> -1]}
mc_Strings == UNION {[1..n -> Tokens] : n \in 0..2}

(* Trees with three leaves, written leaves first as the exporter does; one *)
(* whose root, where the others have a leaf, tests an unknown feature, and *)
(* one that does so on one side only.                                      *)
LeafNode(v) == [leaf |-> TRUE, value |-> v]
Split(x, l, r) == [leaf |-> FALSE, feature |-> 1, threshold |-> x, left |-> l, right |-> r]
Unknown(l, r) == [Split(0, l, r) EXCEPT !.feature = -1]
Tree(a, b, c) ==
  [nodes |-> (0 :> LeafNode(a) @@ 1 :> LeafNode(b) @@ 2 :> LeafNode(c)
              @@ 3 :> Split(0, 0, 1) @@ 4 :> Split(1, 3, 2)), root |-> 4]
TreeA == Tree(<<4, 0, 0>>, <<1, 3, 0>>, <<0, 2, 2>>)
TreeB == Tree(<<0, 4, 0>>, <<0, 1, 3>>, <<4, 0, 0>>)
UnknownRoot ==
  [nodes |-> (0 :> Unknown(1, 2) @@ 1 :> LeafNode(<<0, 0, 4>>) @@ 2 :> LeafNode(<<0, 4, 0>>)),
   root |-> 0]
UnknownSide ==
  [nodes |-> (0 :> LeafNode(<<1, 1, 2>>) @@ 1 :> LeafNode(<<2, 2, 0>>) @@ 2 :> Unknown(0, 1)
              @@ 3 :> Split(0, 0, 2)), root |-> 3]
Tree2 == {Tree(<<4, 0>>, <<1, 3>>, <<2, 2>>), Tree(<<0, 4>>, <<3, 1>>, <<1, 3>>)}
mc_Forests == {<<>>, <<TreeA>>, <<TreeA, TreeB>>, <<UnknownRoot>>, <<TreeB, UnknownRoot>>,
               <<UnknownSide, TreeA, TreeB>>}
mc_Binary == UNION {[1..n -> Tree2] : n \in 0..3}
mc_Features == {<<0>>, <<1>>, <<2>>}
=============================================================================
