----------------------------- MODULE Programs -----------------------------
(***************************************************************************)
(* The programs and algorithms around the queue and the thread table:      *)
(* `program` is chosen in the initial state and only that one takes steps. *)
(* They share no state: what one does to another, the modules say          *)
(* themselves.  Placing the threads of a process is the module this one    *)
(* extends.                                                                *)
(***************************************************************************)
EXTENDS Affinity, Integers, Sequences

CONSTANTS Daemons, Receivers, ModelFiles, NoPath,             \* SocketServers
          Clients, Chunks, Backlog, MaxRestarts,              \* Receiver
          Procs, Envs, MaxWindows, MaxGap,                    \* Dataset
          Counts, MaxTime,                                    \* QualityTest
          StringCores, Strings,                               \* CoreSetStrings
          MAX_CORES, ThreadCounts,                            \* DynamicCores
          Samples, WIDTH, MaxSamples, MaxReceived,            \* WeightedRatios
          Forests, Binary, NUM_TREES, MAX_NODES, Features, UNIT    \* Classifiers

ASSUME ServersAssumption ==
  Daemons \cap Receivers = {} /\ NoPath \notin Daemons \cup Receivers
ASSUME RecorderAssumption == Chunks \in Nat /\ Backlog \in Nat
ASSUME DatasetAssumption ==         \* WARMUP_WINDOWS is what atoi makes of it
  /\ MaxWindows \in Nat /\ MaxGap \in Nat
  /\ Envs # {} /\ \A e \in Envs : e.warmup \in Int

ASSUME TestsAssumption ==           \* the rows of test_configs
  /\ Counts \in Seq(Nat \ {0}) /\ Counts # <<>>
  /\ MaxTime \in Nat \ {0}

ASSUME RatiosAssumption ==          \* no shift of a pass reaches the sign bit
  /\ Samples \subseteq Nat /\ Samples # {} /\ IsFiniteSet(Samples)
  /\ MaxSamples \in Nat /\ MaxReceived \in Nat
  /\ WIDTH \in Nat /\ MaxSamples + 3 <= WIDTH

VARIABLES program,
          spc, loaded, path, overlap,
          client, sent, done, backlog, rpc, conn, pid, startup_flag, data, got, csv, starts,
          env, mpc, monitor, fp, buffer, idx, mt, dt, file, at, raced,
          test, tpc, forked, waited, child, stamp, log, now, results,
          read_coreset, threads, masks, prev_masks,
          known, current_data, history, last_used, has_last_used, cleared, received,
          variant, call, step, held, forest, class_probs, probs, result

sockets == <<spc, loaded, path, overlap>>
receiver == <<client, sent, done, backlog, rpc, conn, pid, startup_flag, data, got, csv, starts>>
dataset == <<env, mpc, monitor, fp, buffer, idx, mt, dt, file, at, raced>>
quality == <<test, tpc, forked, waited, child, stamp, log, now, results>>
cores == <<threads, masks, prev_masks>>
ratios == <<known, current_data, history, last_used, has_last_used, cleared, received>>
classifiers == <<variant, call, step, held, forest, class_probs, probs, result>>

Sockets == INSTANCE SocketServers WITH pc <- spc
Recorder == INSTANCE Receiver WITH pc <- rpc
Windows == INSTANCE Dataset WITH pc <- mpc, t <- mt
Tests == INSTANCE QualityTest WITH pc <- tpc
Reading == INSTANCE CoreSetStrings WITH MAX_CORES <- StringCores, coreset <- read_coreset
Cores == INSTANCE DynamicCores
Ratios == INSTANCE WeightedRatios
Forest == INSTANCE Classifiers WITH at <- step

ASSUME StringsAssumption ==         \* what the tokens of strtok are read as
  /\ StringCores \in Nat
  /\ Strings \subseteq Seq(Reading!Token)

ASSUME CoresAssumption ==           \* a core for each of the three classes
  /\ MAX_CORES \in Nat /\ MAX_CORES >= 3
  /\ ThreadCounts \subseteq Nat

(* A file holds a sequence of trees, which may test features the daemon    *)
(* does not know.  The trees of the two steps are all of features that are *)
(* listed in their own file, and their leaves hold shares of two classes.  *)
ASSUME ForestsAssumption ==
  /\ UNIT \in Nat \ {0} /\ NUM_TREES \in Nat /\ MAX_NODES \in Nat
  /\ \A f \in Forests \cup Binary : Len(f) \in Nat /\ DOMAIN f = 1..Len(f)
  /\ \A f \in Forests : \A t \in DOMAIN f : Forest!IsTree(f[t])
  /\ \A f \in Binary, x \in Features : \A t \in DOMAIN f :
       Forest!AtLeaf(f[t], x) /\ Forest!Leaf(f[t], x) \in [1..2 -> 0..UNIT]

Names == {"affinity", "sockets", "receiver", "dataset", "quality", "strings", "cores", "ratios",
             "classifiers"}

ProgramInit ==
  /\ program \in Names
  /\ Init /\ (program # "affinity" => Ours = Tids) /\ Ours \in {Tids, {Pid}}
  /\ Sockets!Init /\ Recorder!Init /\ Windows!Init /\ Tests!Init /\ Cores!Init /\ Ratios!Init
  /\ Reading!Init /\ (program # "strings" => read_coreset = <<>>)
  /\ Forest!Init /\ (program # "classifiers" => variant = "onnx")

ProgramNext ==
  /\ UNCHANGED program
  /\ \/ /\ program = "affinity" /\ Next
        /\ UNCHANGED <<sockets, receiver, dataset, quality, read_coreset, cores, ratios, classifiers>>
     \/ /\ program = "sockets" /\ Sockets!Next
        /\ UNCHANGED <<vars, receiver, dataset, quality, read_coreset, cores, ratios, classifiers>>
     \/ /\ program = "receiver" /\ Recorder!Next
        /\ UNCHANGED <<vars, sockets, dataset, quality, read_coreset, cores, ratios, classifiers>>
     \/ /\ program = "dataset" /\ Windows!Next
        /\ UNCHANGED <<vars, sockets, receiver, quality, read_coreset, cores, ratios, classifiers>>
     \/ /\ program = "quality" /\ Tests!Next
        /\ UNCHANGED <<vars, sockets, receiver, dataset, read_coreset, cores, ratios, classifiers>>
     \/ /\ program = "strings" /\ Reading!Next
        /\ UNCHANGED <<vars, sockets, receiver, dataset, quality, cores, ratios, classifiers>>
     \/ /\ program = "cores" /\ Cores!Next
        /\ UNCHANGED <<vars, sockets, receiver, dataset, quality, read_coreset, ratios, classifiers>>
     \/ /\ program = "ratios" /\ Ratios!Next
        /\ UNCHANGED <<vars, sockets, receiver, dataset, quality, read_coreset, cores, classifiers>>
     \/ /\ program = "classifiers" /\ Forest!Next
        /\ UNCHANGED <<vars, sockets, receiver, dataset, quality, read_coreset, cores, ratios>>

all == <<program, vars, sockets, receiver, dataset, quality, read_coreset, cores, ratios, classifiers>>

(* The fairness of the two that have liveness properties.                  *)
ProgramSpec ==
  /\ ProgramInit /\ [][ProgramNext]_all
  /\ WF_vars(program = "affinity" /\ Daemon)
  /\ WF_receiver(program = "receiver" /\ Recorder!Record)
  /\ \A c \in Clients :
       WF_receiver(program = "receiver" /\ (Recorder!Write(c) \/ Recorder!Close(c)))
-----------------------------------------------------------------------------
(* The properties, each stated and explained in its module.                *)

AllTyped == /\ TypeOK
            /\ program = "sockets" => Sockets!TypeOK
            /\ program = "receiver" => Recorder!TypeOK
            /\ program = "dataset" => Windows!TypeOK
            /\ program = "quality" => Tests!TypeOK
            /\ program = "ratios" => Ratios!TypeOK

StartsAreSound == program = "sockets" => Sockets!StartsAreSound
RowsAreWholeMessages == program = "receiver" => Recorder!RowsAreWholeMessages
MessagesAreRecorded == Recorder!MessagesAreRecorded
DatasetIsSound == program = "dataset" => Windows!DatasetIsSound
ReportIsTrue == program = "quality" => Tests!ReportIsTrue
StringsKeepTheirMeaning == program = "strings" => Reading!StringsKeepTheirMeaning
CoresAreDealt == Cores!CoresAreDealt
RatiosFollowTheSamples == Ratios!RatiosFollowTheSamples
ObjectsAreAccountedFor == program = "classifiers" => Forest!ObjectsAreAccountedFor
AnswersAreDistributions == program = "classifiers" => Forest!AnswersAreDistributions
=============================================================================
