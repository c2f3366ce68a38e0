--------------------------- MODULE SocketServers ----------------------------
(***************************************************************************)
(* Starting and ending the programs that listen on SOCKET_PATH: the daemon *)
(* (scheduler.c main) and the recorder that the scripts run in its place   *)
(* (monitor_receiver.c).  Both remove whatever is at the path before they  *)
(* bind, both can be killed, a failed start removes the path as well, and  *)
(* nothing keeps a second one from starting.  The kernel is external: bind *)
(* fails on a path that exists, and a path outlives the process that bound *)
(* it.                                                                     *)
(***************************************************************************)
EXTENDS Naturals, Sequences

CONSTANTS Daemons, Receivers,   \* one process each; a restart is another one
          ModelFiles,           \* what model_P.json / model_E.json can hold
          NoPath

Servers == Daemons \cup Receivers

VARIABLES pc,         \* where a process is, or how it ended
          loaded,     \* models a daemon has loaded: a sequence of files
          path,       \* whose socket SOCKET_PATH names
          overlap     \* history: two were up at the same time

vars == <<pc, loaded, path, overlap>>

Ended == {"exited", "killed"}
Up(s) == pc[s] \notin Ended \cup {"off"}

(* The five features the predictions use.                                  *)
Need == {"cycles_per_ms", "IPC", "Cache_Miss_Ratio", "MemStall_per_Mem",
         "MemStall_per_Inst"}

Complete == [readable |-> TRUE, json |-> TRUE, features |-> Need,
             intercept |-> TRUE, weights |-> Need]

json_features_ok(file) == Need \subseteq file.features

(* load_linear_model5 returns 0: the file is there, is JSON, names the     *)
(* features, and holds a number for the intercept and for every weight.    *)
load_linear_model5(file) ==
  file.readable /\ file.json /\ json_features_ok(file)
    /\ file.intercept /\ Need \subseteq file.weights

Init == /\ pc = [s \in Servers |-> "off"]
        /\ loaded = [s \in Servers |-> <<>>]
        /\ path = NoPath
        /\ overlap = FALSE

Goto(s, label) == pc' = [pc EXCEPT ![s] = label]

Start(s) == /\ pc[s] = "off"
            /\ Goto(s, IF s \in Daemons THEN "models" ELSE "unlink")
            /\ overlap' = (overlap \/ \E r \in Servers : Up(r))
            /\ UNCHANGED <<loaded, path>>

-----------------------------------------------------------------------------
(* The daemon.                                                             *)

LoadModel(s, file) ==
  /\ pc[s] = "models"
  /\ loaded' = [loaded EXCEPT ![s] = Append(@, file)]
  /\ Goto(s, IF ~load_linear_model5(file) THEN "exited"
             ELSE IF Len(loaded[s]) = 1 THEN "csv" ELSE "models")
  /\ UNCHANGED <<path, overlap>>

init_csv(s) == /\ pc[s] = "csv"
               /\ pc' \in {[pc EXCEPT ![s] = "socket"], [pc EXCEPT ![s] = "exited"]}
               /\ UNCHANGED <<loaded, path, overlap>>

(* cleanup_scheduler removes the path, whoever bound it.                   *)
cleanup_scheduler(s) == Goto(s, "exited") /\ path' = NoPath

Socket(s) == /\ pc[s] = "socket"
             /\ \/ Goto(s, "unlink") /\ UNCHANGED path
                \/ cleanup_scheduler(s)
             /\ UNCHANGED <<loaded, overlap>>

(* Mutant: whatever is at the path stays there.                            *)
UnlinkForgotten(s) == pc[s] = "unlink" /\ Goto(s, "bind") /\ UNCHANGED <<loaded, path, overlap>>

Unlink(s) == /\ pc[s] = "unlink"
             /\ path' = NoPath
             /\ Goto(s, "bind")
             /\ UNCHANGED <<loaded, overlap>>

Bind(s) == /\ pc[s] = "bind"
           /\ \/ path = NoPath /\ path' = s /\ Goto(s, "listen")
              \/ s \in Daemons /\ cleanup_scheduler(s)     \* EADDRINUSE, EACCES
              \/ s \in Receivers /\ Goto(s, "exited") /\ UNCHANGED path
           /\ UNCHANGED <<loaded, overlap>>

Listen(s) == /\ pc[s] = "listen"
             /\ \/ Goto(s, "serving") /\ UNCHANGED path
                \/ s \in Daemons /\ cleanup_scheduler(s)
                \/ s \in Receivers /\ Goto(s, "exited") /\ UNCHANGED path
             /\ UNCHANGED <<loaded, overlap>>

(* shutdown_scheduler connects to the path; a recorder takes its message   *)
(* for a window that is cut short.                                         *)
Shutdown(s) == /\ s \in Daemons /\ pc[s] = "serving" /\ path = s
               /\ cleanup_scheduler(s)
               /\ UNCHANGED <<loaded, overlap>>

(* A recorder that cannot write, or whose accept fails.                    *)
ReceiverFails(s) == /\ s \in Receivers /\ pc[s] = "serving"
                    /\ Goto(s, "exited")
                    /\ path' \in {path, NoPath}
                    /\ UNCHANGED <<loaded, overlap>>

Kill(s) == /\ Up(s)
           /\ Goto(s, "killed")
           /\ UNCHANGED <<loaded, path, overlap>>

Next == \E s \in Servers :
          \/ Start(s)
          \/ \E file \in ModelFiles : LoadModel(s, file)
          \/ init_csv(s) \/ Socket(s) \/ Unlink(s) \/ Bind(s) \/ Listen(s)
          \/ Shutdown(s) \/ ReceiverFails(s) \/ Kill(s)

Spec == Init /\ [][Next]_vars
-----------------------------------------------------------------------------
TypeOK == /\ pc \in [Servers -> Ended \cup {"off", "models", "csv", "socket", "unlink",
                                            "bind", "listen", "serving"}]
          /\ loaded \in [Servers -> Seq(ModelFiles)]
          /\ path \in Servers \cup {NoPath}
          /\ overlap \in BOOLEAN

(* A daemon that serves predicts with two complete models: whatever the    *)
(* training has left in the files, none with a weight that is missing or   *)
(* trained on other features gets that far (scheduler.c:107-147, 1519-1520).*)
ServesWithCompleteModels ==
  \A s \in Daemons : pc[s] = "serving" =>
     /\ Len(loaded[s]) = 2
     /\ \A i \in 1..2 : \A f \in Need : f \in loaded[s][i].features \cap loaded[s][i].weights

(* As long as no two are up at a time, a start finds the path free when it *)
(* binds, and the one that serves is the one the monitors and              *)
(* shutdown_scheduler reach, whatever crash or failed start came before it *)
(* (scheduler.c:1552-1558, monitor_receiver.c:29-37).                      *)
ServerIsReachable ==
  ~overlap => \A s \in Servers : /\ pc[s] = "bind" => path = NoPath
                                 /\ pc[s] = "serving" => path = s

(* With several, too: the path never leads to a daemon that has ended in   *)
(* order, only to one that is up or was killed (scheduler.c:1480-1492).    *)
StalePathOnlyByKill ==
  \A s \in Daemons : path = s => Up(s) \/ pc[s] = "killed"

(* What a start promises, whatever was running or lying around before:     *)
(* complete models and, one server at a time, a path that leads to it      *)
(* (scheduler.c:1501-1566).                                                *)
StartsAreSound ==
  ServesWithCompleteModels /\ ServerIsReachable /\ StalePathOnlyByKill
=============================================================================
