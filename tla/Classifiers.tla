---------------------------- MODULE Classifiers -----------------------------
(***************************************************************************)
(* The four classifiers linked into the daemon: a random forest read from  *)
(* JSON (libclassifier.c), two forests in two steps (libclassifier_2step), *)
(* and the same two over ONNX Runtime, which is external.  The daemon's    *)
(* calls are commented out: the caller here is the one the header is       *)
(* written for, which initialises, classifies and cleans up, and may do so *)
(* after a failed initialisation or again after a cleanup.                 *)
(*                                                                         *)
(* A call is a sequence of steps.  A step takes an object (a file, a tree, *)
(* a session, a tensor), possibly fails to, or gives one back; the objects *)
(* it uses must be live.                                                   *)
(***************************************************************************)
EXTENDS Integers, Sequences, FiniteSets

CONSTANTS Forests,      \* what a JSON file can hold: sequences of trees
          Binary,       \* the same, with two classes in every leaf
          NUM_TREES, MAX_NODES,         \* the size of the array of trees
          Features,     \* the feature vectors a window can yield
          UNIT          \* a probability of 1, in the units of the leaves

Variants == {"cjson", "cjson_2step", "onnx", "onnx_2step"}
Onnx(v) == v \in {"onnx", "onnx_2step"}

None == <<>>

VARIABLES variant,      \* which of the four this is
          call, at,     \* the call under way, and its next step
          held,         \* the objects that are live
          forest,       \* the trees of trees[], or g_model_step1 and 2
          class_probs,  \* what trees[] has in its nodes, through all loads
          probs,        \* the three probabilities in MonitorData, the unit,
                        \* what is sure of it, and the class that is printed
          result        \* of the last init

vars == <<variant, call, at, held, forest, class_probs, probs, result>>

-----------------------------------------------------------------------------
(* The forests.  A tree: nodes 0, 1, ..., each a leaf with its value or a  *)
(* test with feature, threshold, left and right; and a root.  A feature    *)
(* that is none of the daemon's is -1, and no feature of a window.         *)

(* The node at which the walk from the root ends: a leaf, or a test of an  *)
(* unknown feature.                                                        *)
EndOfWalk(tree, x) ==
  LET from[n \in DOMAIN tree.nodes] ==
        LET node == tree.nodes[n]
        IN  IF node.leaf \/ node.feature \notin DOMAIN x THEN n
            ELSE from[IF x[node.feature] <= node.threshold THEN node.left ELSE node.right]
  IN  from[tree.root]

AtLeaf(tree, x) == tree.nodes[EndOfWalk(tree, x)].leaf
Leaf(tree, x) == tree.nodes[EndOfWalk(tree, x)].value

Shares(sums) == {v \in [1..3 -> 0..UNIT] : v[1] + v[2] + v[3] \in sums}

(* A file's tree: every walk ends within it, and the leaves hold shares.   *)
IsTree(tree) ==
  /\ DOMAIN tree.nodes \subseteq 0..MAX_NODES - 1
  /\ \A x \in Features : EndOfWalk(tree, x) \in DOMAIN tree.nodes
  /\ \A n \in DOMAIN tree.nodes :
       LET node == tree.nodes[n]
       IN  /\ node.leaf \in BOOLEAN
           /\ node.leaf => node.value \in Shares({UNIT})

(* A load writes the shares of the leaves; a test keeps what its node of   *)
(* the array had: zeros, or a leaf of an earlier file.                     *)
load_rf_model(f) ==
  /\ LET tree_count == IF Len(f) > NUM_TREES THEN NUM_TREES ELSE Len(f)
     IN  forest' = [t \in 1..tree_count |-> f[t]]
  /\ class_probs' =
       [t \in 1..NUM_TREES |-> [n \in 0..MAX_NODES - 1 |->
          IF t \in DOMAIN f /\ n \in DOMAIN f[t].nodes /\ f[t].nodes[n].leaf
            THEN f[t].nodes[n].value ELSE class_probs[t][n]]]

Sum(s) == LET upto[n \in 0..Len(s)] == IF n = 0 THEN 0 ELSE upto[n - 1] + s[n]
          IN  upto[Len(s)]

(* The first of the largest: a later class has to exceed it.               *)
FirstLargest(s) ==
  CHOOSE c \in DOMAIN s : /\ \A d \in DOMAIN s : s[d] <= s[c]
                          /\ \A d \in 1..c-1 : s[d] < s[c]

Answer(p, unit, class) == [p |-> p, unit |-> unit, sure |-> unit, class |-> class]
Uniform == Answer(<<1, 1, 1>>, 3, 1)
Unset == Answer(<<0, 0, 0>>, 1, 0)

(* The mean of the shares at the ends of the walks; nothing makes up for   *)
(* those that end at a test.  No shares at all, and the 0 / 0 of an empty  *)
(* forest, which is not above zero, are replaced by the uniform            *)
(* distribution.                                                           *)
predict_rf(trees, shares, x) ==
  LET p == [c \in 1..3 |-> Sum([t \in DOMAIN trees |-> shares[t][EndOfWalk(trees[t], x)][c]])]
      atLeaves == Sum([t \in DOMAIN trees |-> IF AtLeaf(trees[t], x) THEN UNIT ELSE 0])
  IN  IF Sum(p) > 0
        THEN [Answer(p, UNIT * Len(trees), FirstLargest(p)) EXCEPT !.sure = atLeaves]
        ELSE Uniform

(* evaluate_tree: the class of the leaf's largest value, as one vote.      *)
evaluate_tree(tree, x) == FirstLargest(Leaf(tree, x)) - 1

Votes(trees, x, class) ==
  Cardinality({t \in DOMAIN trees : evaluate_tree(trees[t], x) = class})

NaN == -1           \* 0 / 0 in place of a share, which is never negative
Share(k, n) == IF n = 0 THEN NaN ELSE k

(* Mutant: the share of the two others is not halved.                      *)
TwoStepsNotHalved(yes, n, io, memory, n2, tieIsCompute) ==
  IF 2 * yes > n THEN Answer(<<yes, n - yes, n - yes>>, n, 1)
  ELSE Answer(<<0, Share(io, n2), Share(memory, n2)>>, n2, IF io > memory THEN 2 ELSE 3)
(* Compute if more than half say so, which NaN is not; the rest is shared  *)
(* by the two others, which are told apart in the second step only when    *)
(* the first says no.                                                      *)
TwoSteps(yes, n, io, memory, n2, tieIsCompute) ==
  IF 2 * yes > n THEN Answer(<<2 * yes, n - yes, n - yes>>, 2 * n, 1)
  ELSE Answer(<<0, Share(io, n2), Share(memory, n2)>>, n2,
              IF io > memory THEN 2
              ELSE IF io = memory /\ tieIsCompute THEN 1 ELSE 3)

NeedsStep2(p) == 2 * p <= UNIT

-----------------------------------------------------------------------------
(* The calls.                                                              *)

(* A step that fails gives back what is in undo, and the call returns.     *)
Get(o, uses, undo) == [does |-> "get", obj |-> o, uses |-> uses, undo |-> undo]
Sure(o, uses) == [does |-> "sure", obj |-> o, uses |-> uses]   \* cannot fail
Drop(o, uses) == [does |-> "drop", obj |-> o, uses |-> uses \cup {o}]
Use(uses) == [does |-> "use", obj |-> "none", uses |-> uses]
OrExit(o, uses) == Get(o, uses, {})              \* check_ort_status

(* Mutant: a failure gives nothing back of the model read before.          *)
ParseForgetting(model, earlier) == Get(model, {"text"}, {"text"})

(* The text of a JSON file is parsed.  earlier: the model read before it.  *)
Parse(model, earlier) == Get(model, {"text"}, {"text"} \cup earlier)

Session(s) == OrExit(s, {"ort", "env", "options"})
NameOf(n, s) == OrExit(n, {"ort", s, "allocator"})

InitOf(v) ==
  CASE v = "cjson" ->
         <<Get("file", {}, {}), Get("text", {"file"}, {"file"}), Drop("file", {"text"}),
           Parse("json", {}), Drop("text", {}),
           Get("trees", {"json"}, {"json"}), Drop("json", {"trees"})>>
    [] v = "cjson_2step" ->
         <<Get("file", {}, {}), Sure("text", {"file"}), Drop("file", {"text"}),
           Parse("step1", {}), Drop("text", {}),
           Get("file", {}, {"step1"}), Sure("text", {"file"}), Drop("file", {"text"}),
           Parse("step2", {"step1"}), Drop("text", {}),
           Sure("feature_names", {"step1", "step2"})>>
    [] v = "onnx" ->
         <<Get("ort", {}, {}), OrExit("env", {"ort"}), OrExit("options", {"ort"}),
           Session("session1"), OrExit("memory_info", {"ort"}),
           OrExit("allocator", {"ort", "session1", "memory_info"}),
           Drop("memory_info", {"ort"}),
           NameOf("input1", "session1"), NameOf("prob1", "session1")>>
    [] v = "onnx_2step" ->
         <<Get("ort", {}, {}), OrExit("env", {"ort"}), OrExit("options", {"ort"}),
           Session("session1"), Session("session2"), OrExit("memory_info", {"ort"}),
           OrExit("allocator", {"ort", "session1", "memory_info"}),
           Drop("memory_info", {"ort"}),
           NameOf("input1", "session1"), NameOf("prob1", "session1"),
           NameOf("input2", "session2"), NameOf("prob2", "session2")>>

Infer(output, session, input, prob) ==
  OrExit(output, {"ort", session, "input_tensor", input, prob})

ClassifyOf(v, step2) ==
  CASE v = "cjson" -> <<Use({"trees"})>>
    [] v = "cjson_2step" -> <<Use({"step1", "step2", "feature_names"})>>
    [] Onnx(v) /\ ~step2 ->
         <<OrExit("memory_info", {"ort"}), OrExit("input_tensor", {"ort", "memory_info"}),
           Drop("memory_info", {"ort"}),
           Infer("output1", "session1", "input1", "prob1"), Use({"output1"}),
           Drop("output1", {"ort"}), Drop("input_tensor", {"ort"})>>
    [] Onnx(v) /\ step2 ->
         <<OrExit("memory_info", {"ort"}), OrExit("input_tensor", {"ort", "memory_info"}),
           Drop("memory_info", {"ort"}),
           Infer("output1", "session1", "input1", "prob1"), Use({"output1"}),
           Infer("output2", "session2", "input2", "prob2"), Use({"output2"}),
           Drop("output2", {"ort"}), Drop("output1", {"ort"}),
           Drop("input_tensor", {"ort"})>>

CleanupOf(v) ==
  CASE v = "cjson" -> <<Drop("trees", {})>>
    [] v = "cjson_2step" ->
         <<Drop("step1", {}), Drop("step2", {}), Drop("feature_names", {})>>
    [] v = "onnx" ->
         <<Drop("input1", {"ort", "allocator"}), Drop("prob1", {"ort", "allocator"}),
           Drop("allocator", {"ort", "session1"}), Drop("session1", {"ort", "env"}),
           Drop("options", {"ort"}), Drop("env", {"ort"}), Drop("ort", {})>>
    [] v = "onnx_2step" ->
         <<Drop("input1", {"ort", "allocator"}), Drop("prob1", {"ort", "allocator"}),
           Drop("input2", {"ort", "allocator"}), Drop("prob2", {"ort", "allocator"}),
           Drop("allocator", {"ort", "session1"}), Drop("session1", {"ort", "env"}),
           Drop("session2", {"ort", "env"}),
           Drop("options", {"ort"}), Drop("env", {"ort"}), Drop("ort", {})>>

Steps == CASE call = "init" -> InitOf(variant)
           [] call = "classify" -> ClassifyOf(variant, FALSE)
           [] call = "classify_step2" -> ClassifyOf(variant, TRUE)
           [] call = "cleanup" -> CleanupOf(variant)
           [] OTHER -> <<>>

(* What classify tests before it goes on.                                  *)
Initialized == CASE variant = "cjson" -> {"trees"}
                 [] variant = "cjson_2step" -> {"step1", "step2"}
                 [] variant = "onnx" -> {"ort", "session1"}
                 [] variant = "onnx_2step" -> {"ort", "session1", "session2"}

-----------------------------------------------------------------------------
Init == /\ variant \in Variants
        /\ call = "idle" /\ at = 1
        /\ held = {} /\ forest = None
        /\ class_probs = [t \in 1..NUM_TREES |-> [n \in 0..MAX_NODES - 1 |-> <<0, 0, 0>>]]
        /\ probs = Unset
        /\ result = "none"

Begin(c) == /\ call = "idle" /\ call' = c /\ at' = 1
            /\ UNCHANGED <<variant, held, forest, class_probs, result>>

(* A caller initialises once, or again after a cleanup.                    *)
CallInit == Begin("init") /\ held = {} /\ UNCHANGED probs

CallCleanup == Begin("cleanup") /\ UNCHANGED probs

Refuse == /\ call = "idle" /\ ~(Initialized \subseteq held)
          /\ probs' = IF variant = "cjson" THEN Uniform ELSE Unset
          /\ UNCHANGED <<variant, call, at, held, forest, class_probs, result>>

ClassifyForest(x) ==
  /\ Begin("classify") /\ Initialized \subseteq held
  /\ \/ /\ variant = "cjson"
        /\ probs' = predict_rf(forest, class_probs, x)
     \/ /\ variant = "cjson_2step"
        /\ probs' = LET a == forest[1] b == forest[2]
                    IN  TwoSteps(Votes(a, x, 1), Len(a), Votes(b, x, 0),
                                 Votes(b, x, 1), Len(b), FALSE)

(* The session's output is any distribution.                               *)
ClassifySession(p, q) ==
  /\ Onnx(variant) /\ Initialized \subseteq held
  /\ variant = "onnx" => p + q <= UNIT
  /\ Begin(IF variant = "onnx_2step" /\ NeedsStep2(p) THEN "classify_step2"
                                                      ELSE "classify")
  /\ probs' = IF variant = "onnx"
                THEN LET d == <<p, q, UNIT - p - q>>
                     IN  Answer(d, UNIT, FirstLargest(d))
                ELSE TwoSteps(p, UNIT, q, UNIT - q, UNIT, TRUE)

Step == Steps[at]

Go(holding) == /\ held' = holding
               /\ at' = at + 1
               /\ UNCHANGED <<variant, call, probs, result>>

Take == /\ at \in DOMAIN Steps /\ Step.does \in {"get", "sure"}
        /\ Go(held \cup {Step.obj})
        /\ CASE Step.obj = "trees" -> \E f \in Forests : load_rf_model(f)
             [] Step.obj = "feature_names" -> /\ forest' \in Binary \X Binary
                                              /\ UNCHANGED class_probs
             [] OTHER -> UNCHANGED <<forest, class_probs>>

UseOrDrop == /\ at \in DOMAIN Steps
             /\ call = "cleanup" => Step.obj \in held
             /\ \/ Step.does = "use" /\ Go(held)
                \/ Step.does = "drop" /\ Go(held \ {Step.obj})
             /\ UNCHANGED <<forest, class_probs>>

(* ONNX Runtime's errors end the process, but for a missing API; the JSON  *)
(* readers undo what they hold and return.                                 *)
Fail == /\ at \in DOMAIN Steps /\ Step.does = "get"
        /\ call' = IF Onnx(variant) /\ Step.obj # "ort" THEN "exited" ELSE "idle"
        /\ result' = "failed"
        /\ held' = IF call' = "exited" THEN {} ELSE held \ Step.undo
        /\ at' = 1
        /\ UNCHANGED <<variant, forest, class_probs, probs>>

(* cleanup tests every pointer: it skips what is not there.                *)
Skip == /\ call = "cleanup" /\ at \in DOMAIN Steps /\ Step.obj \notin held
        /\ at' = at + 1
        /\ UNCHANGED <<variant, call, held, forest, class_probs, probs, result>>

Return == /\ call \notin {"idle", "exited"} /\ at = Len(Steps) + 1
          /\ call' = "idle" /\ at' = 1
          /\ result' = IF call # "init" THEN result
                       ELSE IF variant = "cjson" /\ forest = <<>> THEN "failed"
                       ELSE "ok"
          /\ forest' = IF call = "cleanup" THEN None ELSE forest
          /\ UNCHANGED <<variant, held, class_probs, probs>>

Next == \/ CallInit \/ CallCleanup \/ Refuse
        \/ \E x \in Features : ClassifyForest(x)
        \/ \E p, q \in 0..UNIT : ClassifySession(p, q)
        \/ Take \/ Fail \/ Skip \/ UseOrDrop \/ Return

Spec == Init /\ [][Next]_vars
-----------------------------------------------------------------------------
Owned == CASE variant = "cjson" -> {"trees"}
           [] variant = "cjson_2step" -> {"step1", "step2", "feature_names"}
           [] variant = "onnx" ->
                {"ort", "env", "options", "session1", "allocator", "input1", "prob1"}
           [] variant = "onnx_2step" ->
                {"ort", "env", "options", "session1", "session2", "allocator",
                 "input1", "prob1", "input2", "prob2"}

(* Between two calls a classifier holds all it needs or nothing at all,    *)
(* whichever step of whichever call has failed: no file, text, tensor or   *)
(* half of a pair of models is left behind (libclassifier_2step.c:56-123,  *)
(* libclassifier_onnx_2step.c:28-89, 109-194).                             *)
NothingLeftBehind == call = "idle" => held \in {{}, Owned}

(* No step uses what is not there yet or has been given back: the order of *)
(* the calls of ONNX Runtime, and what the one-line test of classify says  *)
(* of all the pointers it does not look at (libclassifier_onnx.c:63-151).  *)
NoUseOfTheDead ==
  at \in DOMAIN Steps /\ (call = "cleanup" => Step.obj \in held)
    => Step.uses \subseteq held

(* While a window is classified, probs is the answer.                      *)
Answering == call \in {"classify", "classify_step2"}
IsNaN == NaN \in {probs.p[c] : c \in 1..3}

(* The division that is left out of predict_rf is made up for by the       *)
(* files: the shares add up to one, on either side of the even vote of two *)
(* steps, as long as no tree tests an unknown feature.  A tree that does   *)
(* may take its share away, but whatever an earlier file left in the array *)
(* it never adds more (libclassifier.c:139-165, libclassifier_2step.c:     *)
(* 157-181).                                                               *)
ProbsSumToOne ==
  Answering /\ ~IsNaN => probs.sure <= Sum(probs.p) /\ Sum(probs.p) <= probs.unit

(* No number is stored only where a second forest has no trees and is      *)
(* asked; a first forest without trees says no (libclassifier_2step.c:153, *)
(* 180-181).                                                               *)
NaNOfNoVotes ==
  Answering /\ IsNaN =>
    /\ variant = "cjson_2step" /\ forest[2] = <<>>
    /\ probs = Answer(<<0, NaN, NaN>>, 0, 3)

(* The class printed is one of the likeliest, except that the ONNX version *)
(* of the two steps prints Compute, whose probability is zero, when the    *)
(* second step is undecided (libclassifier_onnx_2step.c:177-183).          *)
PredictedIsLikeliest ==
  Answering /\ ~IsNaN =>
    \/ \A c \in 1..3 : probs.p[c] <= probs.p[probs.class]
    \/ variant = "onnx_2step" /\ probs.p[2] = probs.p[3] /\ probs.p[1] = 0

(* What the four classifiers promise of their objects, through failed      *)
(* initialisations, refused calls and repeated cleanups                    *)
(* (libclassifier.c:176-235, libclassifier_onnx.c:27-154).                 *)
ObjectsAreAccountedFor == NothingLeftBehind /\ NoUseOfTheDead

(* What they promise of their answers (libclassifier.c:132-174,            *)
(* libclassifier_2step.c:125-193).                                         *)
AnswersAreDistributions == ProbsSumToOne /\ NaNOfNoVotes /\ PredictedIsLikeliest
=============================================================================
