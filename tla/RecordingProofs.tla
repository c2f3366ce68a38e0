-------------------------- MODULE RecordingProofs ---------------------------
(***************************************************************************)
(* TLAPS proofs about the programs that record what others measure.        *)
(* SocketServers, for any daemons, receivers and model files: what serves  *)
(* has started completely, and the path leads to it.  Receiver, for any    *)
(* clients, message length, backlog and number of restarts: every row of   *)
(* the file is one whole message.  Dataset, for any number of processes,   *)
(* environments and windows: the data set a training leaves is complete,   *)
(* in order and headed by the names of its columns.                        *)
(***************************************************************************)
EXTENDS Programs, SequenceTheorems, TLAPS

SocketLabels == Sockets!Ended \cup {"off", "models", "csv", "socket", "unlink", "bind",
                      "listen", "serving"}

(* The files a daemon has gone past are those it could load.               *)
AllLoaded(s) == \A i \in 1..Len(loaded[s]) : Sockets!load_linear_model5(loaded[s][i])

ModelsSound ==
  \A s \in Daemons :
    /\ spc[s] = "off" => loaded[s] = <<>>
    /\ spc[s] = "models" => Len(loaded[s]) \in {0, 1} /\ AllLoaded(s)
    /\ spc[s] \in {"csv", "socket", "unlink", "bind", "listen", "serving"} =>
         Len(loaded[s]) = 2 /\ AllLoaded(s)

(* One at a time, and the path is its own from the bind on.                *)
PathSound ==
  ~overlap =>
    /\ \A s, r \in Sockets!Servers : Sockets!Up(s) /\ Sockets!Up(r) => s = r
    /\ \A s \in Sockets!Servers :
         /\ spc[s] = "bind" => path = NoPath
         /\ spc[s] \in {"listen", "serving"} => path = s

(* The path leads to a daemon only from its bind to its orderly end.       *)
StaleSound ==
  \A s \in Daemons : path = s => spc[s] \in {"listen", "serving", "killed"}

SocketsInv == Sockets!TypeOK /\ ModelsSound /\ PathSound /\ StaleSound

(* The steps of a server after its start, but for loading a model.         *)
Moves(s) ==
  \/ Sockets!init_csv(s) \/ Sockets!Socket(s) \/ Sockets!Unlink(s) \/ Sockets!Bind(s)
  \/ Sockets!Listen(s) \/ Sockets!Shutdown(s) \/ Sockets!ReceiverFails(s) \/ Sockets!Kill(s)

-----------------------------------------------------------------------------
LEMMA SocketsInit == Sockets!Init => Sockets!TypeOK /\ ModelsSound /\ PathSound
<1> SUFFICES ASSUME Sockets!Init PROVE Sockets!TypeOK /\ ModelsSound /\ PathSound
  OBVIOUS
<1>1. <<>> \in Seq(ModelFiles)
  BY EmptySeq
<1>2. Sockets!TypeOK
  BY <1>1 DEF Sockets!Init, Sockets!TypeOK
<1>3. ModelsSound
  BY DEF Sockets!Init, ModelsSound, Sockets!Servers
<1>4. PathSound
  BY DEF Sockets!Init, PathSound, Sockets!Up, Sockets!Ended
<1> QED
  BY <1>2, <1>3, <1>4

LEMMA SocketsTypeStep == Sockets!TypeOK /\ [Sockets!Next]_sockets => Sockets!TypeOK'
<1> SUFFICES ASSUME Sockets!TypeOK, [Sockets!Next]_sockets PROVE Sockets!TypeOK'
  OBVIOUS
<1>1. ASSUME NEW s \in Sockets!Servers, NEW label \in SocketLabels, Sockets!Goto(s, label)
      PROVE  spc' \in [Sockets!Servers -> SocketLabels]
  BY <1>1 DEF Sockets!Goto, Sockets!TypeOK, SocketLabels
<1>2. ASSUME NEW s \in Sockets!Servers, NEW f \in ModelFiles, Sockets!LoadModel(s, f)
      PROVE  Sockets!TypeOK'
  <2>1. Append(loaded[s], f) \in Seq(ModelFiles)
    BY AppendProperties DEF Sockets!TypeOK
  <2>2. loaded' \in [Sockets!Servers -> Seq(ModelFiles)]
    BY <1>2, <2>1 DEF Sockets!LoadModel, Sockets!TypeOK
  <2>3. spc' \in [Sockets!Servers -> SocketLabels]
    BY <1>1, <1>2 DEF Sockets!LoadModel, SocketLabels, Sockets!Ended
  <2> QED
    BY <1>2, <2>2, <2>3 DEF Sockets!LoadModel, Sockets!TypeOK, SocketLabels
<1>3. ASSUME NEW s \in Sockets!Servers,
             Sockets!Start(s) \/ Moves(s)
      PROVE  Sockets!TypeOK'
  <2>1. spc' \in [Sockets!Servers -> SocketLabels]
    BY <1>3
       DEF Sockets!Start, Moves, Sockets!init_csv, Sockets!Socket, Sockets!Unlink,
           Sockets!Bind, Sockets!Listen, Sockets!Shutdown, Sockets!ReceiverFails,
           Sockets!Kill, Sockets!cleanup_scheduler, Sockets!Goto, Sockets!TypeOK,
           SocketLabels, Sockets!Ended
  <2>2. /\ path' \in Sockets!Servers \cup {NoPath}
        /\ overlap' \in BOOLEAN
        /\ loaded' = loaded
    BY <1>3
       DEF Sockets!Start, Moves, Sockets!init_csv, Sockets!Socket, Sockets!Unlink,
           Sockets!Bind, Sockets!Listen, Sockets!Shutdown, Sockets!ReceiverFails,
           Sockets!Kill, Sockets!cleanup_scheduler, Sockets!TypeOK
  <2> QED
    BY <2>1, <2>2 DEF Sockets!TypeOK, SocketLabels
<1>4. CASE UNCHANGED sockets
  BY <1>4 DEF sockets, Sockets!TypeOK
<1> QED
  BY <1>2, <1>3, <1>4 DEF Sockets!Next, Moves

LEMMA ModelsStep == SocketsInv /\ [Sockets!Next]_sockets => ModelsSound'
<1> SUFFICES ASSUME SocketsInv, [Sockets!Next]_sockets, NEW d \in Daemons
             PROVE  /\ spc'[d] = "off" => loaded'[d] = <<>>
                    /\ spc'[d] = "models" => Len(loaded'[d]) \in {0, 1} /\ AllLoaded(d)'
                    /\ spc'[d] \in {"csv", "socket", "unlink", "bind", "listen", "serving"} =>
                         Len(loaded'[d]) = 2 /\ AllLoaded(d)'
  BY DEF ModelsSound
<1>0. /\ d \in Sockets!Servers
      /\ spc \in [Sockets!Servers -> SocketLabels] /\ loaded \in [Sockets!Servers -> Seq(ModelFiles)]
      /\ spc[d] = "off" => loaded[d] = <<>>
      /\ spc[d] = "models" => Len(loaded[d]) \in {0, 1} /\ AllLoaded(d)
      /\ spc[d] \in {"csv", "socket", "unlink", "bind", "listen", "serving"} =>
           Len(loaded[d]) = 2 /\ AllLoaded(d)
  BY DEF SocketsInv, Sockets!TypeOK, ModelsSound, Sockets!Servers, SocketLabels
<1>1. ASSUME NEW s \in Sockets!Servers, NEW f \in ModelFiles, Sockets!LoadModel(s, f), s # d
      PROVE  spc'[d] = spc[d] /\ loaded'[d] = loaded[d]
  BY <1>0, <1>1 DEF Sockets!LoadModel, Sockets!Goto
<1>2. ASSUME NEW f \in ModelFiles, Sockets!LoadModel(d, f)
      PROVE  /\ spc'[d] \in {"exited", "csv", "models"}
             /\ spc'[d] = "models" => Len(loaded'[d]) = 1 /\ AllLoaded(d)'
             /\ spc'[d] = "csv" => Len(loaded'[d]) = 2 /\ AllLoaded(d)'
  <2>1. /\ loaded'[d] = Append(loaded[d], f)
        /\ spc[d] = "models"
        /\ spc'[d] = IF ~Sockets!load_linear_model5(f) THEN "exited"
                    ELSE IF Len(loaded[d]) = 1 THEN "csv" ELSE "models"
    BY <1>0, <1>2 DEF Sockets!LoadModel, Sockets!Goto
  <2>2. Len(loaded[d]) \in {0, 1} /\ AllLoaded(d)
    BY <1>0, <2>1
  <2>3. loaded[d] \in Seq(ModelFiles)
    BY <1>0
  <2>4. /\ Len(loaded'[d]) = Len(loaded[d]) + 1
        /\ \A i \in 1..Len(loaded[d]) : loaded'[d][i] = loaded[d][i]
        /\ loaded'[d][Len(loaded[d]) + 1] = f
    BY <2>1, <2>3, AppendProperties
  <2>5. ASSUME Sockets!load_linear_model5(f)
        PROVE  AllLoaded(d)'
    <3> SUFFICES ASSUME NEW i \in 1..Len(loaded'[d])
                 PROVE  Sockets!load_linear_model5(loaded'[d][i])
      BY DEF AllLoaded, Sockets!load_linear_model5, Sockets!json_features_ok
    <3>1. CASE i \in 1..Len(loaded[d])
      BY <2>2, <2>4, <3>1 DEF AllLoaded
    <3>2. CASE i = Len(loaded[d]) + 1
      BY <2>4, <2>5, <3>2
    <3> QED
      BY <2>2, <2>4, <3>1, <3>2
  <2>6. CASE ~Sockets!load_linear_model5(f)
    BY <2>1, <2>6
  <2>7. CASE Sockets!load_linear_model5(f) /\ Len(loaded[d]) = 0
    <3>1. spc'[d] = "models" /\ Len(loaded'[d]) = 1
      BY <2>1, <2>4, <2>7
    <3> QED
      BY <2>5, <2>7, <3>1
  <2>8. CASE Sockets!load_linear_model5(f) /\ Len(loaded[d]) = 1
    <3>1. spc'[d] = "csv" /\ Len(loaded'[d]) = 2
      BY <2>1, <2>4, <2>8
    <3> QED
      BY <2>5, <2>8, <3>1
  <2> QED
    BY <2>2, <2>6, <2>7, <2>8
<1>3. ASSUME NEW s \in Sockets!Servers,
             Sockets!Start(s) \/ Moves(s)
      PROVE  /\ loaded' = loaded
             /\ \/ spc'[d] = spc[d]
                \/ spc[d] = "off" /\ spc'[d] = "models"
                \/ spc[d] = "csv" /\ spc'[d] = "socket"
                \/ spc[d] = "socket" /\ spc'[d] = "unlink"
                \/ spc[d] = "unlink" /\ spc'[d] = "bind"
                \/ spc[d] = "bind" /\ spc'[d] = "listen"
                \/ spc[d] = "listen" /\ spc'[d] = "serving"
                \/ spc'[d] \in Sockets!Ended
  BY <1>0, <1>3
     DEF Sockets!Start, Moves, Sockets!init_csv, Sockets!Socket, Sockets!Unlink,
         Sockets!Bind, Sockets!Listen, Sockets!Shutdown, Sockets!ReceiverFails,
         Sockets!Kill, Sockets!cleanup_scheduler, Sockets!Goto, Sockets!Ended
<1>4. CASE UNCHANGED sockets
  BY <1>0, <1>4 DEF sockets, AllLoaded
<1>5. ASSUME NEW s \in Sockets!Servers,
             Sockets!Start(s) \/ Moves(s)
      PROVE  /\ spc'[d] = "off" => loaded'[d] = <<>>
             /\ spc'[d] = "models" => Len(loaded'[d]) \in {0, 1} /\ AllLoaded(d)'
             /\ spc'[d] \in {"csv", "socket", "unlink", "bind", "listen", "serving"} =>
                  Len(loaded'[d]) = 2 /\ AllLoaded(d)'
  <2>1. loaded' = loaded
    BY <1>3, <1>5
  <2>2. AllLoaded(d)' <=> AllLoaded(d)
    BY <2>1 DEF AllLoaded, Sockets!load_linear_model5, Sockets!json_features_ok
  <2>3. loaded[d] = <<>> => Len(loaded[d]) = 0 /\ AllLoaded(d)
    BY DEF AllLoaded
  <2> QED
    BY <1>0, <1>3, <1>5, <2>1, <2>2, <2>3 DEF Sockets!Ended
<1>6. ASSUME NEW s \in Sockets!Servers, NEW f \in ModelFiles, Sockets!LoadModel(s, f)
      PROVE  /\ spc'[d] = "off" => loaded'[d] = <<>>
             /\ spc'[d] = "models" => Len(loaded'[d]) \in {0, 1} /\ AllLoaded(d)'
             /\ spc'[d] \in {"csv", "socket", "unlink", "bind", "listen", "serving"} =>
                  Len(loaded'[d]) = 2 /\ AllLoaded(d)'
  <2>1. CASE s = d
    BY <1>2, <1>6, <2>1
  <2>2. CASE s # d
    BY <1>0, <1>1, <1>6, <2>2 DEF AllLoaded
  <2> QED
    BY <2>1, <2>2
<1> QED
  BY <1>4, <1>5, <1>6 DEF Sockets!Next, Moves

(* One server moves; the path changes only under its feet.                 *)
LEMMA PathStep == SocketsInv /\ [Sockets!Next]_sockets => PathSound'
<1> SUFFICES ASSUME SocketsInv, [Sockets!Next]_sockets, ~overlap'
             PROVE  /\ \A s, r \in Sockets!Servers : Sockets!Up(s)' /\ Sockets!Up(r)' => s = r
                    /\ \A s \in Sockets!Servers :
                         /\ spc'[s] = "bind" => path' = NoPath
                         /\ spc'[s] \in {"listen", "serving"} => path' = s
  BY DEF PathSound
<1>1. CASE UNCHANGED sockets
  BY <1>1 DEF sockets, SocketsInv, PathSound, Sockets!Up
<1>2. ASSUME NEW m \in Sockets!Servers, Sockets!Start(m)
      PROVE  /\ \A s, r \in Sockets!Servers : Sockets!Up(s)' /\ Sockets!Up(r)' => s = r
             /\ \A s \in Sockets!Servers :
                  /\ spc'[s] = "bind" => path' = NoPath
                  /\ spc'[s] \in {"listen", "serving"} => path' = s
  <2>1. \A r \in Sockets!Servers : ~Sockets!Up(r)
    BY <1>2 DEF Sockets!Start
  <2>2. \A r \in Sockets!Servers \ {m} : spc'[r] = spc[r]
    BY <1>2 DEF Sockets!Start, Sockets!Goto, SocketsInv, Sockets!TypeOK
  <2>3. spc'[m] \in {"models", "unlink"}
    BY <1>2 DEF Sockets!Start, Sockets!Goto, SocketsInv, Sockets!TypeOK
  <2> QED
    BY <2>1, <2>2, <2>3 DEF Sockets!Up, Sockets!Ended
<1>3. ASSUME NEW m \in Sockets!Servers,
             \/ \E f \in ModelFiles : Sockets!LoadModel(m, f)
             \/ Moves(m)
      PROVE  /\ \A s, r \in Sockets!Servers : Sockets!Up(s)' /\ Sockets!Up(r)' => s = r
             /\ \A s \in Sockets!Servers :
                  /\ spc'[s] = "bind" => path' = NoPath
                  /\ spc'[s] \in {"listen", "serving"} => path' = s
  <2>1. overlap' = overlap
    BY <1>3
       DEF Sockets!LoadModel, Moves, Sockets!init_csv, Sockets!Socket,
           Sockets!Unlink, Sockets!Bind, Sockets!Listen, Sockets!Shutdown,
           Sockets!ReceiverFails, Sockets!Kill
  <2>2. Sockets!Up(m)
    BY <1>3
       DEF Sockets!LoadModel, Moves, Sockets!init_csv, Sockets!Socket,
           Sockets!Unlink, Sockets!Bind, Sockets!Listen, Sockets!Shutdown,
           Sockets!ReceiverFails, Sockets!Kill, Sockets!Up, Sockets!Ended
  <2>3. \A r \in Sockets!Servers \ {m} : spc'[r] = spc[r]
    BY <1>3
       DEF Sockets!LoadModel, Moves, Sockets!init_csv, Sockets!Socket,
           Sockets!Unlink, Sockets!Bind, Sockets!Listen, Sockets!Shutdown,
           Sockets!ReceiverFails, Sockets!Kill, Sockets!cleanup_scheduler,
           Sockets!Goto, SocketsInv, Sockets!TypeOK
  <2>4. \A r \in Sockets!Servers \ {m} : ~Sockets!Up(r) /\ ~Sockets!Up(r)'
    BY <2>1, <2>2, <2>3 DEF SocketsInv, PathSound, Sockets!Up
  <2>5. /\ spc'[m] = "bind" => path' = NoPath
        /\ spc'[m] \in {"listen", "serving"} => path' = m
    BY <1>3, <2>1
       DEF Sockets!LoadModel, Moves, Sockets!init_csv, Sockets!Socket,
           Sockets!Unlink, Sockets!Bind, Sockets!Listen, Sockets!Shutdown,
           Sockets!ReceiverFails, Sockets!Kill, Sockets!cleanup_scheduler,
           Sockets!Goto, SocketsInv, Sockets!TypeOK, PathSound
  <2> QED
    BY <2>4, <2>5 DEF Sockets!Up, Sockets!Ended
<1> QED
  BY <1>1, <1>2, <1>3 DEF Sockets!Next, Moves

LEMMA StaleStep == SocketsInv /\ [Sockets!Next]_sockets => StaleSound'
<1> SUFFICES ASSUME SocketsInv, [Sockets!Next]_sockets, NEW d \in Daemons, path' = d
             PROVE  spc'[d] \in {"listen", "serving", "killed"}
  BY DEF StaleSound
<1>1. d \in Sockets!Servers /\ d # NoPath /\ d \notin Receivers
  BY ServersAssumption DEF Sockets!Servers
<1>2. CASE UNCHANGED sockets
  BY <1>2 DEF sockets, SocketsInv, StaleSound
<1>3. ASSUME NEW m \in Sockets!Servers,
             \/ Sockets!Start(m)
             \/ \E f \in ModelFiles : Sockets!LoadModel(m, f)
             \/ Moves(m)
      PROVE  spc'[d] \in {"listen", "serving", "killed"}
  <2>1. CASE m = d
    BY <1>1, <1>3, <2>1
       DEF Sockets!Start, Sockets!LoadModel, Moves, Sockets!init_csv,
           Sockets!Socket, Sockets!Unlink, Sockets!Bind, Sockets!Listen,
           Sockets!Shutdown, Sockets!ReceiverFails, Sockets!Kill,
           Sockets!cleanup_scheduler, Sockets!Goto, Sockets!Up, Sockets!Ended,
           SocketsInv, Sockets!TypeOK, StaleSound
  <2>2. CASE m # d
    <3>1. spc'[d] = spc[d]
      BY <1>1, <1>3, <2>2
         DEF Sockets!Start, Sockets!LoadModel, Moves, Sockets!init_csv,
             Sockets!Socket, Sockets!Unlink, Sockets!Bind, Sockets!Listen,
             Sockets!Shutdown, Sockets!ReceiverFails, Sockets!Kill,
             Sockets!cleanup_scheduler, Sockets!Goto, SocketsInv, Sockets!TypeOK
    <3>2. path = d
      BY <1>1, <1>3, <2>2
         DEF Sockets!Start, Sockets!LoadModel, Moves, Sockets!init_csv,
             Sockets!Socket, Sockets!Unlink, Sockets!Bind, Sockets!Listen,
             Sockets!Shutdown, Sockets!ReceiverFails, Sockets!Kill,
             Sockets!cleanup_scheduler
    <3> QED
      BY <3>1, <3>2 DEF SocketsInv, StaleSound
  <2> QED
    BY <2>1, <2>2
<1> QED
  BY <1>2, <1>3 DEF Sockets!Next, Moves

LEMMA SocketsInitial == Sockets!Init => SocketsInv
<1>1. Sockets!Init => StaleSound
  BY ServersAssumption DEF Sockets!Init, StaleSound, Sockets!Servers
<1> QED
  BY <1>1, SocketsInit DEF SocketsInv

LEMMA SocketsStep == SocketsInv /\ [Sockets!Next]_sockets => SocketsInv'
BY SocketsTypeStep, ModelsStep, PathStep, StaleStep DEF SocketsInv

LEMMA SocketsSound == SocketsInv => Sockets!StartsAreSound
<1> SUFFICES ASSUME SocketsInv PROVE Sockets!StartsAreSound
  OBVIOUS
<1>1. Sockets!ServesWithCompleteModels
  BY DEF SocketsInv, ModelsSound, AllLoaded, Sockets!ServesWithCompleteModels,
         Sockets!load_linear_model5, Sockets!json_features_ok
<1>2. Sockets!ServerIsReachable
  BY DEF SocketsInv, PathSound, Sockets!ServerIsReachable
<1>3. Sockets!StalePathOnlyByKill
  BY DEF SocketsInv, StaleSound, Sockets!StalePathOnlyByKill, Sockets!Up,
         Sockets!Ended
<1> QED
  BY <1>1, <1>2, <1>3 DEF Sockets!StartsAreSound

-----------------------------------------------------------------------------
(* A daemon that serves has two complete models; as long as no two servers *)
(* overlap the path leads to the one that serves, and it never leads to a  *)
(* daemon that ended in order (scheduler.c:1501-1566,                      *)
(* monitor_receiver.c:29-60).                                              *)
THEOREM ServersStartSoundly == ProgramSpec => []StartsAreSound
<1>1. ProgramInit => SocketsInv
  BY SocketsInitial DEF ProgramInit
<1>2. [ProgramNext]_all => [Sockets!Next]_sockets
  BY DEF ProgramNext, all, sockets
<1>3. SocketsInv => StartsAreSound
  BY SocketsSound DEF StartsAreSound
<1> QED
  BY <1>1, <1>2, <1>3, SocketsStep, PTL DEF ProgramSpec

-----------------------------------------------------------------------------
(* The recorder.                                                           *)

RowSet == {Recorder!Header} \cup {Recorder!RowOf(c) : c \in Clients}

(* The connection that is served is open, and what has been read of it is  *)
(* its own: the PID, the flag, and as many pieces as are counted in `got`. *)
ReadsOneMessage ==
  /\ rpc \in {"pid", "flag", "data", "row"} => conn \in Clients /\ client[conn] = "open"
  /\ rpc \in {"flag", "data", "row"} => pid = conn
  /\ rpc \in {"data", "row"} =>
       /\ startup_flag = conn /\ sent[conn] >= 2 + got
       /\ \A i \in 1..got : data[i] = conn
  /\ rpc = "row" => got = Chunks
  /\ data \in [1..Chunks -> Clients \cup {Recorder!Nobody}]

(* Nobody waits who has been served before, and nobody waits twice.        *)
BacklogWaits == \A i \in 1..Len(backlog) :
  /\ client[backlog[i]] = "queued"
  /\ \A j \in 1..Len(backlog) : backlog[i] = backlog[j] => i = j

(* The rows of the file are those of connections that have been closed.    *)
FileIsSound ==
  /\ csv \in Seq(RowSet)
  /\ rpc \notin {"open", "dead"} => csv # <<>>
  /\ \A i \in 1..Len(csv) :
       /\ (csv[i] = Recorder!Header) <=> (i = 1)
       /\ i > 1 => \E c \in Clients : /\ csv[i] = Recorder!RowOf(c)
                                      /\ sent[c] = Recorder!Whole /\ client[c] = "closed"
       /\ \A j \in 1..Len(csv) : csv[i] = csv[j] => i = j

RecorderInv == Recorder!TypeOK /\ ReadsOneMessage /\ BacklogWaits /\ FileIsSound

LEMMA RowsDiffer ==
  ASSUME NEW c, NEW d
  PROVE  /\ Recorder!RowOf(c) = Recorder!RowOf(d) => c = d
         /\ Recorder!RowOf(c) # Recorder!Header
<1>1. Recorder!RowOf(c).pid = c /\ Recorder!RowOf(d).pid = d
  BY DEF Recorder!RowOf
<1>2. Recorder!RowOf(c).kind = "row" /\ Recorder!Header.kind = "header"
  BY DEF Recorder!RowOf, Recorder!Header
<1> QED
  BY <1>1, <1>2

LEMMA RecorderInitial == Recorder!Init => RecorderInv
<1> SUFFICES ASSUME Recorder!Init PROVE RecorderInv
  OBVIOUS
<1>1. /\ csv = <<>> /\ csv \in Seq(RowSet) /\ Len(csv) = 0
      /\ backlog = <<>> /\ backlog \in Seq(Clients) /\ Len(backlog) = 0
  BY EmptySeq DEF Recorder!Init
<1>2. Recorder!TypeOK
  BY <1>1, RecorderAssumption DEF Recorder!Init, Recorder!TypeOK, Recorder!Whole
<1>3. ReadsOneMessage
  BY DEF Recorder!Init, ReadsOneMessage
<1>4. BacklogWaits /\ FileIsSound
  BY <1>1 DEF Recorder!Init, BacklogWaits, FileIsSound
<1> QED
  BY <1>2, <1>3, <1>4 DEF RecorderInv

(* A file that did not change stays sound: what was sent in full, or was   *)
(* closed, stays so.                                                       *)
LEMMA SameFile ==
  ASSUME FileIsSound, csv' = csv,
         rpc' \notin {"open", "dead"} => csv # <<>>,
         \A c \in Clients : /\ sent[c] = Recorder!Whole => sent'[c] = Recorder!Whole
                            /\ client[c] = "closed" => client'[c] = "closed"
  PROVE  FileIsSound'
<1>1. \A i \in 1..Len(csv) : i > 1 =>
        \E c \in Clients : /\ csv[i] = Recorder!RowOf(c)
                           /\ sent'[c] = Recorder!Whole /\ client'[c] = "closed"
  BY DEF FileIsSound
<1>2. /\ csv' \in Seq(RowSet)'
      /\ rpc' \notin {"open", "dead"} => csv' # <<>>
  BY DEF FileIsSound, RowSet, Recorder!Header, Recorder!RowOf
<1>3. \A i \in 1..Len(csv) : /\ (csv[i] = Recorder!Header) <=> (i = 1)
                            /\ \A j \in 1..Len(csv) : csv[i] = csv[j] => i = j
  BY DEF FileIsSound
<1>4. \A c \in Clients : Recorder!RowOf(c)' = Recorder!RowOf(c)
  BY DEF Recorder!RowOf
<1> QED
  BY <1>1, <1>2, <1>3, <1>4 DEF FileIsSound, Recorder!Whole, Recorder!Header

Step(c) == Recorder!Connect(c) \/ Recorder!Write(c) \/ Recorder!Close(c) \/ Recorder!Die(c)

LEMMA ClientStep ==
  ASSUME RecorderInv, NEW c \in Clients, Step(c)
  PROVE  RecorderInv'
<1> USE DEF Recorder!net, Recorder!locals
<1>0. /\ Recorder!TypeOK /\ ReadsOneMessage /\ BacklogWaits /\ FileIsSound
      /\ client \in [Clients -> {"idle", "queued", "open", "closed"}]
      /\ sent \in [Clients -> 0..2 + Chunks] /\ done \in [Clients -> BOOLEAN]
      /\ backlog \in Seq(Clients)
  BY DEF RecorderInv, Recorder!TypeOK, Recorder!Whole
<1>1. /\ UNCHANGED <<rpc, conn, pid, startup_flag, data, got, csv>>
      /\ client' \in [Clients -> {"idle", "queued", "open", "closed"}]
      /\ sent' \in [Clients -> 0..2 + Chunks] /\ done' \in [Clients -> BOOLEAN]
      /\ \A d \in Clients : sent'[d] >= sent[d]
      /\ \A d \in Clients : client[d] # "idle" => client'[d] = client[d]
  <2>1. CASE Recorder!Connect(c)
    BY <1>0, <2>1 DEF Recorder!Connect
  <2>2. CASE Recorder!Write(c)
    <3>1. UNCHANGED <<rpc, conn, pid, startup_flag, data, got, csv>> /\ client' = client
      BY <2>2 DEF Recorder!Write
    <3>2. CASE client[c] = "closed"
      <4>1. sent' = sent /\ done' = [done EXCEPT ![c] = TRUE]
        BY <2>2, <3>2 DEF Recorder!Write
      <4>2. done' \in [Clients -> BOOLEAN]
        BY <1>0, <4>1
      <4>3. \A d \in Clients : sent'[d] >= sent[d]
        BY <1>0, <4>1, RecorderAssumption
      <4> QED
        BY <1>0, <3>1, <4>1, <4>2, <4>3
    <3>3. CASE client[c] # "closed"
      <4>1. /\ sent' = [sent EXCEPT ![c] = sent[c] + 1] /\ done' = done
            /\ sent[c] < 2 + Chunks
        BY <2>2, <3>3 DEF Recorder!Write, Recorder!Whole
      <4>2. sent' \in [Clients -> 0..2 + Chunks] /\ \A d \in Clients : sent'[d] >= sent[d]
        BY <1>0, <4>1, RecorderAssumption
      <4> QED
        BY <1>0, <3>1, <4>1, <4>2
    <3> QED
      BY <3>2, <3>3
  <2>3. CASE Recorder!Close(c) \/ Recorder!Die(c)
    <3>1. /\ UNCHANGED <<rpc, conn, pid, startup_flag, data, got, csv>>
          /\ client' = client /\ sent' = sent
          /\ done' = [done EXCEPT ![c] = TRUE]
      BY <2>3 DEF Recorder!Close, Recorder!Die
    <3>2. done' \in [Clients -> BOOLEAN]
      BY <1>0, <3>1
    <3>3. \A d \in Clients : sent'[d] >= sent[d]
      BY <1>0, <3>1, RecorderAssumption
    <3> QED
      BY <1>0, <3>1, <3>2, <3>3
  <2> QED
    BY <2>1, <2>2, <2>3 DEF Step
<1>2. /\ backlog' \in Seq(Clients) /\ Len(backlog') <= Backlog
      /\ \A i \in 1..Len(backlog') :
           /\ client'[backlog'[i]] = "queued"
           /\ \A j \in 1..Len(backlog') : backlog'[i] = backlog'[j] => i = j
  <2>1. CASE Recorder!Connect(c)
    <3>1. /\ backlog' \in Seq(Clients) /\ Len(backlog') = Len(backlog) + 1
          /\ \A i \in 1..Len(backlog) : backlog'[i] = backlog[i]
          /\ backlog'[Len(backlog) + 1] = c
      BY <1>0, <2>1, AppendProperties DEF Recorder!Connect
    <3>2. client'[c] = "queued" /\ Len(backlog) < Backlog /\ Len(backlog) \in Nat
      BY <1>0, <2>1 DEF Recorder!Connect
    <3>3. \A i \in 1..Len(backlog) :
            /\ backlog[i] \in Clients /\ client'[backlog[i]] = "queued" /\ backlog[i] # c
            /\ \A j \in 1..Len(backlog) : backlog[i] = backlog[j] => i = j
      BY <1>0, <1>1, <2>1 DEF BacklogWaits, Recorder!Connect
    <3> QED
      BY <3>1, <3>2, <3>3, RecorderAssumption
  <2>2. CASE Recorder!Write(c) \/ Recorder!Close(c) \/ Recorder!Die(c)
    <3>1. backlog' = backlog /\ client' = client
      BY <2>2 DEF Recorder!Write, Recorder!Close, Recorder!Die
    <3> QED
      BY <1>0, <3>1 DEF BacklogWaits, Recorder!TypeOK
  <2> QED
    BY <2>1, <2>2 DEF Step
<1>3. Recorder!TypeOK'
  BY <1>0, <1>1, <1>2
     DEF Recorder!TypeOK, Recorder!Whole, Recorder!RowOf, Recorder!Header, Recorder!Nobody
<1>4. ReadsOneMessage'
  BY <1>0, <1>1, RecorderAssumption DEF ReadsOneMessage, Recorder!TypeOK, Recorder!Nobody
<1>5. BacklogWaits'
  BY <1>2 DEF BacklogWaits
<1>6. FileIsSound'
  <2>1. \A d \in Clients : sent[d] = Recorder!Whole => sent'[d] = Recorder!Whole
    BY <1>0, <1>1, RecorderAssumption DEF Recorder!Whole
  <2> QED
    BY <1>0, <1>1, <2>1, SameFile DEF FileIsSound
<1> QED
  BY <1>3, <1>4, <1>5, <1>6 DEF RecorderInv

(* The end of a connection: only the file may still change.                *)
LEMMA HangupStep ==
  ASSUME RecorderInv, Recorder!Hangup, rpc \in {"pid", "flag", "data", "row"},
         UNCHANGED <<pid, startup_flag, data, got>>
  PROVE  /\ ReadsOneMessage' /\ BacklogWaits'
         /\ client' \in [Clients -> {"idle", "queued", "open", "closed"}]
         /\ client'[conn] = "closed"
         /\ \A c \in Clients : client[c] = "closed" => client'[c] = "closed"
         /\ UNCHANGED <<sent, done, backlog>> /\ rpc' = "accept" /\ conn' = Recorder!Nobody
<1>0. /\ conn \in Clients /\ client[conn] = "open"
      /\ client \in [Clients -> {"idle", "queued", "open", "closed"}]
      /\ backlog \in Seq(Clients)
  BY DEF RecorderInv, ReadsOneMessage, Recorder!TypeOK
<1>1. /\ client' = [client EXCEPT ![conn] = "closed"]
      /\ UNCHANGED <<sent, done, backlog>> /\ rpc' = "accept" /\ conn' = Recorder!Nobody
  BY DEF Recorder!Hangup
<1>2. ReadsOneMessage'
  BY <1>1 DEF RecorderInv, ReadsOneMessage, Recorder!Nobody
<1>3. BacklogWaits'
  <2>1. \A i \in 1..Len(backlog) : backlog[i] \in Clients /\ client[backlog[i]] = "queued"
    BY <1>0 DEF RecorderInv, BacklogWaits
  <2>2. \A i \in 1..Len(backlog) : client'[backlog[i]] = "queued"
    BY <1>0, <1>1, <2>1
  <2> QED
    BY <1>1, <2>2 DEF RecorderInv, BacklogWaits
<1> QED
  BY <1>0, <1>1, <1>2, <1>3

(* A connection that ends before its message leaves no row.                *)
LEMMA CutShort ==
  ASSUME RecorderInv, Recorder!Hangup, rpc \in {"pid", "flag", "data"},
         UNCHANGED <<pid, startup_flag, data, got, csv>>
  PROVE  RecorderInv'
<1>1. /\ ReadsOneMessage' /\ BacklogWaits'
      /\ client' \in [Clients -> {"idle", "queued", "open", "closed"}]
      /\ \A c \in Clients : client[c] = "closed" => client'[c] = "closed"
      /\ UNCHANGED <<sent, done, backlog>> /\ rpc' = "accept" /\ conn' = Recorder!Nobody
  BY HangupStep
<1>2. FileIsSound'
  BY <1>1, SameFile DEF RecorderInv, FileIsSound
<1>3. Recorder!TypeOK'
  BY <1>1 DEF RecorderInv, Recorder!TypeOK, Recorder!Whole, Recorder!RowOf,
              Recorder!Header, Recorder!Nobody
<1> QED
  BY <1>1, <1>2, <1>3 DEF RecorderInv

LEMMA WriteRowStep ==
  ASSUME RecorderInv, Recorder!WriteRow
  PROVE  RecorderInv'
<1>0. /\ Recorder!TypeOK /\ ReadsOneMessage /\ FileIsSound
      /\ Recorder!Hangup /\ rpc = "row"
      /\ UNCHANGED <<pid, startup_flag, data, got>>
      /\ csv' = Append(csv, Recorder!Row)
  BY DEF RecorderInv, Recorder!WriteRow, Recorder!locals
<1>1. /\ ReadsOneMessage' /\ BacklogWaits'
      /\ client' \in [Clients -> {"idle", "queued", "open", "closed"}]
      /\ client'[conn] = "closed"
      /\ \A c \in Clients : client[c] = "closed" => client'[c] = "closed"
      /\ UNCHANGED <<sent, done, backlog>> /\ rpc' = "accept" /\ conn' = Recorder!Nobody
  BY <1>0, HangupStep
<1>2. conn \in Clients /\ client[conn] = "open" /\ sent[conn] = Recorder!Whole
  BY <1>0, RecorderAssumption DEF ReadsOneMessage, Recorder!TypeOK, Recorder!Whole
<1>3. Recorder!Row = Recorder!RowOf(conn)
  <2>1. pid = conn /\ startup_flag = conn
    BY <1>0 DEF ReadsOneMessage
  <2>2. data = [i \in 1..Chunks |-> conn]
    BY <1>0 DEF ReadsOneMessage
  <2> QED
    BY <2>1, <2>2 DEF Recorder!Row, Recorder!RowOf
<1>4. /\ csv' \in Seq(RowSet) /\ Len(csv') = Len(csv) + 1 /\ Len(csv) \in Nat
      /\ \A i \in 1..Len(csv) : csv'[i] = csv[i]
      /\ csv'[Len(csv) + 1] = Recorder!RowOf(conn)
  BY <1>0, <1>2, <1>3, AppendProperties DEF FileIsSound, RowSet
<1>5. Len(csv) >= 1
  BY <1>0, <1>4, EmptySeq DEF FileIsSound
<1>6. \A i \in 1..Len(csv) : csv[i] # Recorder!RowOf(conn)
  BY <1>0, <1>2, RowsDiffer DEF FileIsSound
<1>7. FileIsSound'
  <2>1. csv' # <<>>
    BY <1>4
  <2>2. \A i \in 1..Len(csv') : (csv'[i] = Recorder!Header) <=> (i = 1)
    BY <1>0, <1>4, <1>5, RowsDiffer DEF FileIsSound
  <2>3. ASSUME NEW i \in 1..Len(csv'), i > 1
        PROVE  \E c \in Clients : /\ csv'[i] = Recorder!RowOf(c)
                                  /\ sent'[c] = Recorder!Whole /\ client'[c] = "closed"
    <3>1. CASE i = Len(csv) + 1
      BY <1>1, <1>2, <1>4, <3>1
    <3>2. CASE i \in 1..Len(csv)
      BY <1>0, <1>1, <1>4, <2>3, <3>2 DEF FileIsSound
    <3> QED
      BY <1>4, <3>1, <3>2
  <2>4. \A i, j \in 1..Len(csv') : csv'[i] = csv'[j] => i = j
    <3>1. \A i, j \in 1..Len(csv) : csv[i] = csv[j] => i = j
      BY <1>0 DEF FileIsSound
    <3> QED
      BY <1>4, <1>6, <3>1
  <2> QED
    BY <1>1, <1>4, <2>1, <2>2, <2>3, <2>4
       DEF FileIsSound, RowSet, Recorder!Header, Recorder!RowOf, Recorder!Whole
<1>8. Recorder!TypeOK'
  <2>1. \A i \in 1..Len(csv') : csv'[i] \in RowSet
    BY <1>4
  <2> QED
    BY <1>0, <1>1, <2>1 DEF Recorder!TypeOK, RowSet, Recorder!Whole, Recorder!RowOf,
                            Recorder!Header, Recorder!Nobody
<1> QED
  BY <1>1, <1>7, <1>8 DEF RecorderInv

LEMMA OpenStep ==
  ASSUME RecorderInv, Recorder!Open
  PROVE  RecorderInv'
<1>0. /\ Recorder!TypeOK /\ ReadsOneMessage /\ BacklogWaits /\ FileIsSound
      /\ rpc' = "accept" /\ UNCHANGED <<client, sent, done, backlog, conn, pid>>
      /\ UNCHANGED <<startup_flag, data, got, starts>>
      /\ csv' = IF csv = <<>> THEN <<Recorder!Header>> ELSE csv
  BY DEF RecorderInv, Recorder!Open, Recorder!net, Recorder!locals
<1>1. ReadsOneMessage' /\ BacklogWaits'
  BY <1>0 DEF ReadsOneMessage, BacklogWaits, Recorder!Nobody
<1>2. CASE csv # <<>>
  <2>1. FileIsSound'
    BY <1>0, <1>2, SameFile
  <2>2. Recorder!TypeOK'
    BY <1>0, <1>2 DEF Recorder!TypeOK, Recorder!Whole, Recorder!RowOf, Recorder!Header,
                      Recorder!Nobody
  <2> QED
    BY <1>1, <2>1, <2>2 DEF RecorderInv
<1>3. CASE csv = <<>>
  <2>1. /\ csv' = <<Recorder!Header>> /\ csv' # <<>>
        /\ csv' \in Seq(RowSet) /\ Len(csv') = 1 /\ csv'[1] = Recorder!Header
    BY <1>0, <1>3 DEF RowSet
  <2>2. FileIsSound'
    BY <1>0, <2>1 DEF FileIsSound, RowSet, Recorder!Header, Recorder!RowOf, Recorder!Whole
  <2>3. Recorder!TypeOK'
    BY <1>0, <2>1 DEF Recorder!TypeOK, Recorder!Whole, Recorder!RowOf, Recorder!Header,
                      Recorder!Nobody
  <2> QED
    BY <1>1, <2>2, <2>3 DEF RecorderInv
<1> QED
  BY <1>2, <1>3

LEMMA AcceptStep ==
  ASSUME RecorderInv, Recorder!Accept
  PROVE  RecorderInv'
<1>0. /\ Recorder!TypeOK /\ ReadsOneMessage /\ BacklogWaits /\ FileIsSound
      /\ rpc = "accept" /\ rpc' = "pid" /\ UNCHANGED <<sent, done, csv, starts>>
      /\ UNCHANGED <<pid, startup_flag, data, got>>
      /\ backlog # <<>> /\ backlog' = Tail(backlog) /\ conn' = Head(backlog)
      /\ client' = [client EXCEPT ![Head(backlog)] = "open"]
      /\ client \in [Clients -> {"idle", "queued", "open", "closed"}]
      /\ backlog \in Seq(Clients) /\ Len(backlog) <= Backlog
  BY DEF RecorderInv, Recorder!Accept, Recorder!locals, Recorder!TypeOK
<1>1. /\ Head(backlog) \in Clients /\ Head(backlog) = backlog[1]
      /\ Tail(backlog) \in Seq(Clients) /\ Len(Tail(backlog)) = Len(backlog) - 1
      /\ \A i \in 1..Len(backlog) - 1 : Tail(backlog)[i] = backlog[i + 1]
      /\ Len(backlog) \in Nat /\ Len(backlog) >= 1
  BY <1>0, HeadTailProperties, EmptySeq
<1>2. client[Head(backlog)] = "queued"
  BY <1>0, <1>1 DEF BacklogWaits
<1>3. /\ client' \in [Clients -> {"idle", "queued", "open", "closed"}]
      /\ \A c \in Clients : client[c] = "closed" => client'[c] = "closed"
      /\ client'[conn'] = "open" /\ conn' \in Clients
  BY <1>0, <1>1, <1>2
<1>4. BacklogWaits'
  <2>1. ASSUME NEW i \in 1..Len(backlog')
        PROVE  /\ client'[backlog'[i]] = "queued"
               /\ \A j \in 1..Len(backlog') : backlog'[i] = backlog'[j] => i = j
    <3>1. /\ i \in 1..Len(backlog) - 1 /\ i + 1 \in 1..Len(backlog)
          /\ backlog'[i] = backlog[i + 1]
      BY <1>0, <1>1
    <3>2. client[backlog[i + 1]] = "queued" /\ backlog[i + 1] # backlog[1]
      BY <1>0, <1>1, <3>1 DEF BacklogWaits
    <3>3. backlog[i + 1] \in Clients
      BY <1>0, <3>1
    <3>4. client'[backlog'[i]] = "queued"
      BY <1>0, <1>1, <3>1, <3>2, <3>3
    <3>5. \A j \in 1..Len(backlog') : backlog'[i] = backlog'[j] => i = j
      BY <1>0, <1>1, <3>1 DEF BacklogWaits
    <3> QED
      BY <3>4, <3>5
  <2> QED
    BY <2>1 DEF BacklogWaits
<1>5. ReadsOneMessage'
  BY <1>0, <1>3 DEF ReadsOneMessage
<1>6. FileIsSound'
  BY <1>0, <1>3, SameFile DEF FileIsSound
<1>7. Recorder!TypeOK'
  BY <1>0, <1>1, <1>3, RecorderAssumption
     DEF Recorder!TypeOK, Recorder!Whole, Recorder!RowOf, Recorder!Header, Recorder!Nobody
<1> QED
  BY <1>4, <1>5, <1>6, <1>7 DEF RecorderInv

(* A read that gets something: of the connection, and into its own place.  *)
LEMMA ReadStep ==
  ASSUME RecorderInv, rpc \in {"pid", "flag", "data"}, ReadsOneMessage',
         UNCHANGED <<client, sent, done, backlog, conn, csv, starts>>,
         rpc' \in {"flag", "data", "row"}, got' \in 0..Chunks
  PROVE  RecorderInv'
<1>1. FileIsSound'
  BY SameFile DEF RecorderInv, FileIsSound
<1>2. Recorder!TypeOK' /\ BacklogWaits'
  BY DEF RecorderInv, Recorder!TypeOK, BacklogWaits, Recorder!Whole, Recorder!RowOf,
         Recorder!Header, Recorder!Nobody
<1> QED
  BY <1>1, <1>2 DEF RecorderInv

LEMMA ReadPidStep ==
  ASSUME RecorderInv, Recorder!ReadPid
  PROVE  RecorderInv'
<1>1. CASE Recorder!EndOfStream(0) /\ Recorder!Hangup /\ UNCHANGED <<Recorder!locals, csv>>
  BY <1>1, CutShort DEF Recorder!ReadPid, Recorder!locals
<1>2. CASE /\ pid' = conn /\ rpc' = "flag"
           /\ UNCHANGED <<Recorder!net, conn, startup_flag, data, got, csv, starts>>
  <2>1. ReadsOneMessage'
    BY <1>2 DEF RecorderInv, ReadsOneMessage, Recorder!ReadPid, Recorder!net
  <2> QED
    BY <1>2, <2>1, ReadStep
       DEF RecorderInv, Recorder!TypeOK, Recorder!ReadPid, Recorder!net
<1> QED
  BY <1>1, <1>2 DEF Recorder!ReadPid

LEMMA ReadFlagStep ==
  ASSUME RecorderInv, Recorder!ReadFlag
  PROVE  RecorderInv'
<1>1. CASE Recorder!EndOfStream(1) /\ Recorder!Hangup /\ UNCHANGED <<Recorder!locals, csv>>
  BY <1>1, CutShort DEF Recorder!ReadFlag, Recorder!locals
<1>2. CASE /\ Recorder!Available(1) > 0 /\ startup_flag' = conn /\ got' = 0 /\ rpc' = "data"
           /\ UNCHANGED <<Recorder!net, conn, pid, data, csv, starts>>
  <2>1. rpc = "flag" /\ conn \in Clients /\ sent[conn] \in Int /\ sent[conn] >= 2
    BY <1>2, RecorderAssumption
       DEF RecorderInv, ReadsOneMessage, Recorder!ReadFlag, Recorder!Available,
           Recorder!TypeOK, Recorder!Whole
  <2>2. ReadsOneMessage'
    BY <1>2, <2>1 DEF RecorderInv, ReadsOneMessage, Recorder!net
  <2> QED
    BY <1>2, <2>1, <2>2, RecorderAssumption, ReadStep DEF Recorder!net
<1> QED
  BY <1>1, <1>2 DEF Recorder!ReadFlag

LEMMA ReadDataStep ==
  ASSUME RecorderInv, Recorder!ReadData
  PROVE  RecorderInv'
<1>1. CASE Recorder!EndOfStream(2 + got) /\ Recorder!Hangup
           /\ UNCHANGED <<Recorder!locals, csv>>
  BY <1>1, CutShort DEF Recorder!ReadData, Recorder!locals
<1>2. ASSUME NEW n \in 1..Chunks, n <= Recorder!Available(2 + got),
             data' = [i \in 1..Chunks |-> IF i \in got + 1..got + n THEN conn ELSE data[i]],
             got' = got + n, rpc' = IF got' = Chunks THEN "row" ELSE "data",
             UNCHANGED <<Recorder!net, conn, pid, startup_flag, csv, starts>>
      PROVE  RecorderInv'
  <2>1. /\ rpc = "data" /\ conn \in Clients /\ client[conn] = "open" /\ pid = conn
        /\ startup_flag = conn /\ sent[conn] \in 0..2 + Chunks /\ got \in 0..Chunks
        /\ data \in [1..Chunks -> Clients \cup {Recorder!Nobody}]
        /\ \A i \in 1..got : data[i] = conn
    BY DEF RecorderInv, ReadsOneMessage, Recorder!ReadData, Recorder!TypeOK, Recorder!Whole
  <2>2. UNCHANGED <<client, sent, done, backlog>>
    BY <1>2 DEF Recorder!net
  <2>3. sent[conn] >= 2 + got' /\ got' \in 0..Chunks
    BY <1>2, <2>1, RecorderAssumption DEF Recorder!Available
  <2>4. \A i \in 1..got' : data'[i] = conn
    BY <1>2, <2>1, <2>3, RecorderAssumption
  <2>5. data' \in [1..Chunks -> Clients \cup {Recorder!Nobody}]
    BY <1>2, <2>1
  <2>6. ReadsOneMessage'
    BY <1>2, <2>1, <2>2, <2>3, <2>4, <2>5 DEF ReadsOneMessage, Recorder!Nobody
  <2> QED
    BY <1>2, <2>1, <2>2, <2>3, <2>6, ReadStep
<1> QED
  BY <1>1, <1>2 DEF Recorder!ReadData

LEMMA KillStep ==
  ASSUME RecorderInv, Recorder!Kill
  PROVE  RecorderInv'
<1>0. /\ Recorder!TypeOK /\ ReadsOneMessage /\ FileIsSound
      /\ rpc' = "dead" /\ conn' = Recorder!Nobody /\ backlog' = <<>>
      /\ UNCHANGED <<sent, done, csv, starts, pid, startup_flag, data, got>>
      /\ client' = [c \in Clients |-> IF client[c] = "idle" THEN "idle" ELSE "closed"]
  BY DEF RecorderInv, Recorder!Kill, Recorder!locals
<1>1. /\ client' \in [Clients -> {"idle", "queued", "open", "closed"}]
      /\ \A c \in Clients : client[c] = "closed" => client'[c] = "closed"
      /\ backlog' \in Seq(Clients) /\ Len(backlog') = 0
  BY <1>0, EmptySeq DEF Recorder!TypeOK
<1>2. ReadsOneMessage' /\ BacklogWaits'
  BY <1>0, <1>1 DEF ReadsOneMessage, BacklogWaits, Recorder!Nobody
<1>3. FileIsSound'
  BY <1>0, <1>1, SameFile
<1>4. Recorder!TypeOK'
  BY <1>0, <1>1, RecorderAssumption
     DEF Recorder!TypeOK, Recorder!Whole, Recorder!RowOf, Recorder!Header, Recorder!Nobody
<1> QED
  BY <1>2, <1>3, <1>4 DEF RecorderInv

LEMMA RestartStep ==
  ASSUME RecorderInv, Recorder!Restart
  PROVE  RecorderInv'
<1>0. /\ Recorder!TypeOK /\ BacklogWaits /\ FileIsSound
      /\ rpc' = "open" /\ UNCHANGED <<client, sent, done, backlog, conn, csv>>
      /\ got' = 0 /\ data' = [i \in 1..Chunks |-> Recorder!Nobody]
  BY DEF RecorderInv, Recorder!Restart, Recorder!net
<1>1. ReadsOneMessage' /\ BacklogWaits'
  BY <1>0 DEF ReadsOneMessage, BacklogWaits, Recorder!Nobody
<1>2. FileIsSound'
  BY <1>0, SameFile
<1>3. Recorder!TypeOK'
  BY <1>0, RecorderAssumption
     DEF Recorder!TypeOK, Recorder!Whole, Recorder!RowOf, Recorder!Header, Recorder!Nobody
<1> QED
  BY <1>1, <1>2, <1>3, Zenon DEF RecorderInv

LEMMA RecorderStep == RecorderInv /\ [Recorder!Next]_receiver => RecorderInv'
<1> SUFFICES ASSUME RecorderInv, [Recorder!Next]_receiver PROVE RecorderInv'
  OBVIOUS
<1>1. CASE UNCHANGED receiver
  <2>1. /\ rpc' = rpc /\ client' = client /\ sent' = sent /\ done' = done
        /\ backlog' = backlog /\ conn' = conn /\ got' = got /\ data' = data /\ csv' = csv
        /\ pid' = pid /\ startup_flag' = startup_flag
    BY <1>1 DEF receiver
  <2>2. Recorder!TypeOK'
    BY <2>1
       DEF RecorderInv, Recorder!TypeOK, Recorder!Whole, Recorder!RowOf, Recorder!Header,
           Recorder!Nobody
  <2>3. ReadsOneMessage' /\ BacklogWaits'
    BY <2>1 DEF RecorderInv, ReadsOneMessage, BacklogWaits, Recorder!Nobody
  <2>4. FileIsSound'
    <3>1. FileIsSound /\ (rpc' \notin {"open", "dead"} => csv # <<>>)
      BY <2>1 DEF RecorderInv, FileIsSound
    <3> QED
      BY <2>1, <3>1, SameFile
  <2> QED
    BY <2>2, <2>3, <2>4, Zenon DEF RecorderInv
<1>2. CASE \E c \in Clients : Step(c)
  BY <1>2, ClientStep, Zenon
<1>3. CASE Recorder!Open \/ Recorder!Accept
  BY <1>3, OpenStep, AcceptStep, Zenon
<1>4. CASE Recorder!ReadPid \/ Recorder!ReadFlag
  BY <1>4, ReadPidStep, ReadFlagStep, Zenon
<1>5. CASE Recorder!ReadData \/ Recorder!WriteRow
  BY <1>5, ReadDataStep, WriteRowStep, Zenon
<1>6. CASE Recorder!Kill \/ Recorder!Restart
  BY <1>6, KillStep, RestartStep, Zenon
<1> QED
  BY <1>1, <1>2, <1>3, <1>4, <1>5, <1>6, Zenon DEF Recorder!Next, Recorder!Record, Step

-----------------------------------------------------------------------------
(* The file is one header and then rows, and every row is the complete     *)
(* message of one client, whatever clients break off, across kills and     *)
(* restarts of the recorder (monitor_receiver.c:62-80, 84-125).            *)
THEOREM RowsWhole == ProgramSpec => []RowsAreWholeMessages
<1>1. ProgramInit => RecorderInv
  BY RecorderInitial DEF ProgramInit
<1>2. [ProgramNext]_all => [Recorder!Next]_receiver
  BY DEF ProgramNext, all, receiver
<1>3. RecorderInv => RowsAreWholeMessages
  BY DEF RowsAreWholeMessages, Recorder!RowsAreWholeMessages, RecorderInv, FileIsSound
<1> QED
  BY <1>1, <1>2, <1>3, RecorderStep, PTL DEF ProgramSpec

-----------------------------------------------------------------------------
(* The data set.                                                           *)

MainLabels == Windows!Ended \cup {"off", "open", "size", "header", "spawn", "running",
                                  "closed", "leaving"}

RowRecords == [kind : {"row"}, run : Procs, force : {"P", "E", "NONE"},
               window_idx : Nat, t_ms : Int, dt_ms : Int]
Lines == {Windows!Header} \cup RowRecords

DatasetTypes ==
  /\ env \in [Procs -> Envs] /\ mpc \in [Procs -> MainLabels]
  /\ monitor \in [Procs -> {"none", "sleep", "log", "print", "flush"}]
  /\ fp \in [Procs -> {"NULL", "open", "freed"}]
  /\ buffer \in [Procs -> Seq(Lines)]
  /\ idx \in [Procs -> 0..MaxWindows] /\ mt \in [Procs -> Int] /\ dt \in [Procs -> Int]
  /\ at \in [Procs -> Seq(Int)]
  /\ file \in Seq(Lines)

(* The clock of a process: when its windows ended, and what is left of it  *)
(* in g_prev_exec_time_ms and in the window's dt_ms.                       *)
ClockSound(p) ==
  /\ Len(at[p]) = idx[p]
  /\ \A n \in 1..idx[p] : at[p][n] > 0
  /\ \A n \in 2..idx[p] : at[p][n] > at[p][n - 1]
  /\ mt[p] = IF idx[p] = 0 THEN -1 ELSE at[p][idx[p]]
  /\ dt[p] = IF idx[p] <= 1 THEN 0 ELSE at[p][idx[p]] - at[p][idx[p] - 1]

(* The stream of a process: when it is open, who uses it, and what is in   *)
(* its buffer.                                                             *)
StreamSound(p) ==
  /\ mpc[p] \in {"off", "open"} => fp[p] = "NULL"
  /\ mpc[p] = "open" => env[p].training
  /\ mpc[p] \in {"off", "open", "size", "header", "spawn"} =>
       monitor[p] = "none" /\ idx[p] = 0
  /\ fp[p] = "open" => /\ env[p].training
                       /\ mpc[p] \in Windows!Ended \cup {"size", "header", "spawn", "running"}
  /\ monitor[p] = "log" => idx[p] >= 1
  /\ monitor[p] \in {"print", "flush"} => idx[p] \in Windows!Logged(p)
  /\ Len(buffer[p]) <= 1
  /\ mpc[p] \notin Windows!Ended =>
       buffer[p] = IF monitor[p] = "flush" /\ fp[p] = "open" THEN <<Windows!Row(p)>> ELSE <<>>

(* The row of the last window is still to come.                            *)
Pending(p) == /\ mpc[p] \notin Windows!Ended
              /\ \/ monitor[p] \in {"log", "print"}
                 \/ monitor[p] = "flush" /\ fp[p] = "open"

RowsSound(p) ==
  /\ \A i, j \in Windows!RowsOf(p) : i < j => file[i].window_idx < file[j].window_idx
  /\ \A i \in Windows!RowsOf(p) :
       /\ file[i].window_idx \in Windows!Logged(p)
       /\ Pending(p) => file[i].window_idx < idx[p]
       /\ file[i].window_idx > 1 =>
            file[i].dt_ms = at[p][file[i].window_idx] - at[p][file[i].window_idx - 1]
  /\ \A n \in Windows!Logged(p) :
       \/ \E i \in Windows!RowsOf(p) : file[i].window_idx = n
       \/ /\ \A i \in Windows!RowsOf(p) : file[i].window_idx < n
          /\ fp[p] = "open" => n = idx[p] /\ monitor[p] # "sleep"

(* Who is about to write the header found the file empty, and is alone as  *)
(* long as no two of them were seen at once; who is past it is not the     *)
(* first to write.                                                         *)
HeaderSound ==
  /\ file # <<>> => file[1] = Windows!Header
  /\ \A p \in Procs : fp[p] = "open" /\ mpc[p] \in {"spawn", "running"} => file # <<>>
  /\ ~raced => /\ \A i \in 2..Len(file) : file[i] # Windows!Header
               /\ \A p \in Procs : mpc[p] = "header" =>
                    file = <<>> /\ \A q \in Procs : mpc[q] = "header" => p = q

DatasetInv == /\ DatasetTypes /\ HeaderSound
              /\ \A p \in Procs : ClockSound(p) /\ StreamSound(p) /\ RowsSound(p)

(* The steps of one process.                                               *)
Act(p) ==
  \/ \E e \in Envs : Windows!init_monitor(p, e)
  \/ Windows!OpenDataset(p) \/ Windows!SizeCheck(p) \/ Windows!WriteHeader(p)
  \/ Windows!Spawn(p)
  \/ /\ mpc[p] \notin Windows!Ended
     /\ Windows!Window(p) \/ Windows!Check(p) \/ Windows!PrintRow(p) \/ Windows!Flush(p)
  \/ Windows!finish_monitor(p) \/ Windows!ClearPointer(p) \/ Windows!Leave(p)
  \/ Windows!Kill(p)

Unmoved(p) == /\ env'[p] = env[p] /\ mpc'[p] = mpc[p] /\ monitor'[p] = monitor[p]
              /\ fp'[p] = fp[p] /\ buffer'[p] = buffer[p] /\ idx'[p] = idx[p]
              /\ mt'[p] = mt[p] /\ dt'[p] = dt[p] /\ at'[p] = at[p]

-----------------------------------------------------------------------------
LEMMA RowTyped ==
  ASSUME DatasetTypes, NEW p \in Procs
  PROVE  /\ Windows!Row(p) \in RowRecords /\ Windows!Row(p).run = p
         /\ Windows!Row(p) # Windows!Header
         /\ Windows!Row(p).window_idx = idx[p] /\ Windows!Row(p).dt_ms = dt[p]
<1>1. Windows!parse_force_mode(env[p].force) \in {"P", "E", "NONE"}
  BY DEF Windows!parse_force_mode
<1>2. idx[p] \in Nat /\ mt[p] \in Int /\ dt[p] \in Int
  BY DatasetAssumption DEF DatasetTypes
<1>3. Windows!Row(p) \in RowRecords
  BY <1>1, <1>2 DEF Windows!Row, RowRecords
<1>4. Windows!Row(p).kind = "row" /\ Windows!Header.kind = "header"
  BY DEF Windows!Row, Windows!Header
<1> QED
  BY <1>3, <1>4 DEF Windows!Row

LEMMA HeaderTyped == Windows!Header \in Lines /\ Windows!Header \notin RowRecords
<1>1. Windows!Header.kind = "header"
  BY DEF Windows!Header
<1>2. \A r \in RowRecords : r.kind = "row"
  BY DEF RowRecords
<1> QED
  BY <1>1, <1>2 DEF Lines

(* A row or a header at the end of the file.                               *)
LEMMA LineAdded ==
  ASSUME file \in Seq(Lines), NEW r \in Lines, file' = Append(file, r)
  PROVE  /\ file' \in Seq(Lines) /\ Len(file) \in Nat /\ Len(file') = Len(file) + 1
         /\ \A i \in 1..Len(file) : file'[i] = file[i]
         /\ file'[Len(file) + 1] = r /\ file' # <<>>
BY AppendProperties

(* What a step of p leaves alone in the others.                            *)
LEMMA OthersUnmoved ==
  ASSUME DatasetTypes, NEW p \in Procs, Act(p), NEW q \in Procs, q # p
  PROVE  Unmoved(q)
BY DEF Act, DatasetTypes, Unmoved, Windows!init_monitor, Windows!OpenDataset,
       Windows!SizeCheck, Windows!WriteHeader, Windows!Spawn, Windows!Window, Windows!Check,
       Windows!PrintRow, Windows!Flush, Windows!finish_monitor, Windows!ClearPointer,
       Windows!Leave, Windows!Kill, Windows!Main, Windows!Thread, Windows!UseFreed,
       Windows!Drain, Windows!window

(* The file grows by at most a line, the header or the row of the window.  *)
AddsHeader(p) == /\ mpc[p] = "header" /\ mpc'[p] = "spawn" /\ fp'[p] = fp[p]
                 /\ file' = Append(file, Windows!Header) /\ buffer'[p] = buffer[p]
AddsRow(p) == /\ monitor[p] = "flush" /\ fp[p] = "open" /\ mpc[p] = "running"
              /\ file' = Append(file, Windows!Row(p)) /\ buffer'[p] = <<>>
              /\ \/ fp'[p] = "open" /\ monitor'[p] = "sleep" /\ mpc'[p] = "running"
                 \/ fp'[p] = "freed" /\ monitor'[p] = "flush" /\ mpc'[p] = "closed"

LEMMA Drained ==
  ASSUME DatasetTypes, NEW p \in Procs, StreamSound(p), mpc[p] \notin Windows!Ended,
         fp[p] = "open", Windows!Drain(p)
  PROVE  /\ buffer'[p] = <<>> /\ buffer' \in [Procs -> Seq(Lines)]
         /\ monitor[p] = "flush" => file' = Append(file, Windows!Row(p))
         /\ monitor[p] # "flush" => file' = file
<1>1. /\ buffer' = [buffer EXCEPT ![p] = <<>>] /\ file' = file \o buffer[p]
      /\ file \in Seq(Lines) /\ buffer \in [Procs -> Seq(Lines)]
  BY DEF Windows!Drain, DatasetTypes
<1>2. buffer'[p] = <<>> /\ buffer' \in [Procs -> Seq(Lines)]
  BY <1>1, EmptySeq
<1>3. CASE monitor[p] = "flush"
  <2>1. buffer[p] = <<Windows!Row(p)>> /\ Windows!Row(p) \in Lines
    BY <1>3, RowTyped DEF StreamSound, Lines
  <2> QED
    BY <1>1, <1>2, <1>3, <2>1, AppendIsConcat
<1>4. CASE monitor[p] # "flush"
  <2>1. buffer[p] = <<>>
    BY <1>4 DEF StreamSound
  <2> QED
    BY <1>1, <1>2, <1>4, <2>1, ConcatEmptySeq
<1> QED
  BY <1>3, <1>4

LEMMA FlushStep ==
  ASSUME DatasetTypes, NEW p \in Procs, StreamSound(p), mpc[p] \notin Windows!Ended,
         Windows!Flush(p)
  PROVE  \/ /\ AddsRow(p) /\ buffer' \in [Procs -> Seq(Lines)]
            /\ monitor' = [monitor EXCEPT ![p] = "sleep"]
            /\ UNCHANGED <<env, mpc, fp, idx, mt, dt, at, raced>>
         \/ /\ monitor[p] = "flush" /\ fp[p] # "open"
            /\ mpc' = mpc \/ mpc' = [mpc EXCEPT ![p] = "killed"]
            /\ monitor' = [monitor EXCEPT ![p] = "sleep"]
            /\ UNCHANGED <<env, fp, idx, mt, dt, at, raced, buffer, file>>
<1>0. /\ monitor[p] = "flush" /\ monitor' = [monitor EXCEPT ![p] = "sleep"]
      /\ UNCHANGED <<env, fp, idx, mt, dt, at, raced>>
  BY DEF Windows!Flush, Windows!Thread, Windows!window
<1>1. CASE fp[p] = "open" /\ Windows!Drain(p) /\ mpc' = mpc
  <2>1. mpc[p] = "running"
    BY <1>0, <1>1 DEF StreamSound, DatasetTypes, MainLabels
  <2> QED
    BY <1>0, <1>1, <2>1, Drained DEF AddsRow, DatasetTypes
<1>2. CASE fp[p] # "open" /\ UNCHANGED <<buffer, file>>
           /\ (mpc' = mpc \/ mpc' = [mpc EXCEPT ![p] = "killed"])
  BY <1>0, <1>2
<1> QED
  BY <1>1, <1>2 DEF Windows!Flush, Windows!UseFreed, Windows!Main

LEMMA FinishStep ==
  ASSUME DatasetTypes, NEW p \in Procs, StreamSound(p), Windows!finish_monitor(p)
  PROVE  /\ mpc[p] = "running" /\ mpc' \in [Procs -> MainLabels]
         /\ UNCHANGED <<env, monitor, idx, mt, dt, at, raced>>
         /\ \/ /\ fp[p] = "open" /\ fp' = [fp EXCEPT ![p] = "freed"]
               /\ mpc' = [mpc EXCEPT ![p] = "closed"]
               /\ buffer' \in [Procs -> Seq(Lines)] /\ buffer'[p] = <<>>
               /\ \/ AddsRow(p)
                  \/ monitor[p] # "flush" /\ file' = file
            \/ /\ fp[p] # "open" /\ mpc' = [mpc EXCEPT ![p] = "leaving"]
               /\ UNCHANGED <<fp, buffer, file>>
<1>0. mpc[p] = "running" /\ UNCHANGED <<env, monitor, idx, mt, dt, at, raced>>
  BY DEF Windows!finish_monitor, Windows!window
<1>1. CASE fp[p] = "open"
  <2>1. /\ fp' = [fp EXCEPT ![p] = "freed"] /\ mpc' = [mpc EXCEPT ![p] = "closed"]
        /\ Windows!Drain(p)
    BY <1>1 DEF Windows!finish_monitor, Windows!Main
  <2>2. mpc' \in [Procs -> MainLabels]
    BY <2>1 DEF DatasetTypes, MainLabels
  <2> QED
    BY <1>0, <1>1, <2>1, <2>2, Drained DEF AddsRow, DatasetTypes, Windows!Ended
<1>2. CASE fp[p] # "open"
  BY <1>0, <1>2 DEF Windows!finish_monitor, Windows!Main, DatasetTypes, MainLabels
<1> QED
  BY <1>1, <1>2

LEMMA WindowStep ==
  ASSUME DatasetTypes, NEW p \in Procs, ClockSound(p), Windows!Window(p)
  PROVE  /\ monitor[p] = "sleep" /\ monitor' = [monitor EXCEPT ![p] = "log"]
         /\ idx' = [idx EXCEPT ![p] = idx[p] + 1] /\ idx' \in [Procs -> 0..MaxWindows]
         /\ UNCHANGED <<env, mpc, fp, buffer, file, raced>>
         /\ mt' \in [Procs -> Int] /\ dt' \in [Procs -> Int] /\ at' \in [Procs -> Seq(Int)]
         /\ ClockSound(p)'
         /\ \A n \in 1..idx[p] : at'[p][n] = at[p][n]
<1>0. /\ monitor[p] = "sleep" /\ monitor' = [monitor EXCEPT ![p] = "log"]
      /\ idx' = [idx EXCEPT ![p] = idx[p] + 1] /\ idx[p] < MaxWindows
      /\ UNCHANGED <<env, mpc, fp, buffer, file, raced>>
      /\ idx[p] \in Nat /\ mt[p] \in Int /\ at[p] \in Seq(Int) /\ Len(at[p]) = idx[p]
  BY DatasetAssumption DEF Windows!Window, Windows!Thread, DatasetTypes, ClockSound
<1>1. idx' \in [Procs -> 0..MaxWindows]
  BY <1>0, DatasetAssumption DEF DatasetTypes
<1>2. PICK gap \in 1..MaxGap :
        LET end == (IF mt[p] < 0 THEN 0 ELSE mt[p]) + gap IN
          /\ dt' = [dt EXCEPT ![p] = IF mt[p] < 0 THEN 0 ELSE end - mt[p]]
          /\ mt' = [mt EXCEPT ![p] = end]
          /\ at' = [at EXCEPT ![p] = Append(at[p], end)]
  BY DEF Windows!Window
<1> DEFINE end == (IF mt[p] < 0 THEN 0 ELSE mt[p]) + gap
<1>3. end \in Int /\ end > 0 /\ (mt[p] < 0 => end = gap) /\ (mt[p] >= 0 => end > mt[p])
  BY <1>0, DatasetAssumption
<1>4. /\ dt' \in [Procs -> Int] /\ mt' \in [Procs -> Int]
      /\ dt'[p] = (IF mt[p] < 0 THEN 0 ELSE end - mt[p]) /\ mt'[p] = end
  BY <1>0, <1>2, <1>3 DEF DatasetTypes
<1>5. /\ at' \in [Procs -> Seq(Int)] /\ at'[p] \in Seq(Int) /\ Len(at'[p]) = idx[p] + 1
      /\ \A n \in 1..idx[p] : at'[p][n] = at[p][n]
      /\ at'[p][idx[p] + 1] = end
  BY <1>0, <1>2, <1>3, AppendProperties DEF DatasetTypes
<1>6. idx'[p] = idx[p] + 1
  BY <1>0 DEF DatasetTypes
<1>7. mt[p] < 0 <=> idx[p] = 0
  BY <1>0 DEF ClockSound
<1> HIDE DEF end
<1>8. \A n \in 1..idx[p] : at[p][n] \in Int
  BY <1>0
<1>9. ClockSound(p)'
  <2>1. \A n \in 1..idx'[p] : at'[p][n] > 0
    <3>1. \A n \in 1..idx[p] : at'[p][n] > 0
      BY <1>5 DEF ClockSound
    <3>2. at'[p][idx[p] + 1] > 0
      BY <1>3, <1>5
    <3>3. \A n \in 1..idx'[p] : n \in 1..idx[p] \/ n = idx[p] + 1
      BY <1>0, <1>6
    <3> QED
      BY <3>1, <3>2, <3>3
  <2>2. \A n \in 2..idx'[p] : at'[p][n] > at'[p][n - 1]
    <3> TAKE n \in 2..idx'[p]
    <3>0. n \in 2..idx[p] + 1 /\ n - 1 \in 1..idx[p]
      BY <1>0, <1>6
    <3>1. n \in 2..idx[p] + 1 /\ n - 1 \in 1..idx[p] /\ at'[p][n - 1] = at[p][n - 1]
      BY <1>5, <3>0
    <3>2. CASE n \in 2..idx[p]
      BY <1>0, <1>5, <3>1, <3>2 DEF ClockSound
    <3>3. CASE n = idx[p] + 1
      <4>1. mt[p] = at[p][n - 1] /\ mt[p] >= 0
        BY <1>0, <1>7, <3>1, <3>3 DEF ClockSound
      <4> QED
        BY <1>0, <1>3, <1>5, <3>1, <3>3, <4>1
    <3> QED
      BY <1>0, <3>1, <3>2, <3>3
  <2>3. mt'[p] = IF idx'[p] = 0 THEN -1 ELSE at'[p][idx'[p]]
    BY <1>0, <1>4, <1>5, <1>6
  <2>4. dt'[p] = IF idx'[p] <= 1 THEN 0 ELSE at'[p][idx'[p]] - at'[p][idx'[p] - 1]
    <3>1. CASE idx[p] = 0
      BY <1>4, <1>6, <1>7, <3>1
    <3>2. CASE idx[p] # 0
      <4>1. mt[p] = at[p][idx[p]]
        BY <3>2 DEF ClockSound
      <4>2. idx[p] \in 1..idx[p]
        BY <1>0, <3>2
      <4>3. at'[p][idx[p]] = at[p][idx[p]]
        BY <1>5, <4>2
      <4>6. ~(mt[p] < 0) /\ idx'[p] = idx[p] + 1 /\ idx[p] \in Nat \ {0}
        BY <1>0, <1>6, <1>7, <3>2
      <4>4. /\ dt'[p] = end - mt[p] /\ idx'[p] > 1 /\ idx'[p] - 1 = idx[p]
            /\ at'[p][idx'[p]] = end /\ idx'[p] \in Nat
        BY <1>4, <1>5, <4>6
      <4>5. at'[p][idx'[p] - 1] = mt[p]
        BY <4>1, <4>3, <4>4
      <4> QED
        BY <4>4, <4>5
    <3> QED
      BY <3>1, <3>2
  <2> QED
    BY <1>5, <1>6, <2>1, <2>2, <2>3, <2>4 DEF ClockSound
<1> QED
  BY <1>0, <1>1, <1>4, <1>5, <1>9

LEMMA DatasetTypesStep ==
  ASSUME DatasetTypes, NEW p \in Procs, ClockSound(p), StreamSound(p), Act(p)
  PROVE  DatasetTypes'
<1> USE DEF DatasetTypes, MainLabels, Windows!Ended
<1>1. CASE \E e \in Envs : Windows!init_monitor(p, e)
  BY <1>1 DEF Windows!init_monitor, Windows!Main, Windows!window
<1>2. CASE Windows!OpenDataset(p) \/ Windows!SizeCheck(p) \/ Windows!Spawn(p)
  BY <1>2 DEF Windows!OpenDataset, Windows!SizeCheck, Windows!Spawn, Windows!Main,
              Windows!Thread, Windows!window
<1>3. CASE Windows!WriteHeader(p)
  <2>1. file' \in Seq(Lines)
    BY <1>3, HeaderTyped, AppendProperties DEF Windows!WriteHeader
  <2> QED
    BY <1>3, <2>1 DEF Windows!WriteHeader, Windows!Main, Windows!window
<1>4. CASE mpc[p] \notin Windows!Ended /\ Windows!Window(p)
  BY <1>4, WindowStep
<1>5. CASE Windows!Check(p)
  BY <1>5 DEF Windows!Check, Windows!Thread, Windows!window
<1>6. CASE Windows!PrintRow(p)
  <2>1. buffer' \in [Procs -> Seq(Lines)]
    <3>1. Append(buffer[p], Windows!Row(p)) \in Seq(Lines)
      BY RowTyped, AppendProperties DEF Lines
    <3> QED
      BY <1>6, <3>1 DEF Windows!PrintRow, Windows!UseFreed
  <2> QED
    BY <1>6, <2>1 DEF Windows!PrintRow, Windows!Thread, Windows!UseFreed, Windows!Main,
                      Windows!window
<1>7. CASE mpc[p] \notin Windows!Ended /\ Windows!Flush(p)
  <2>1. AddsRow(p) => file' \in Seq(Lines)
    BY RowTyped, AppendProperties DEF AddsRow, Lines
  <2> QED
    BY <1>7, <2>1, FlushStep
<1>8. CASE Windows!finish_monitor(p)
  <2>1. AddsRow(p) => file' \in Seq(Lines)
    BY RowTyped, AppendProperties DEF AddsRow, Lines
  <2> QED
    BY <1>8, <2>1, FinishStep
<1>9. CASE Windows!ClearPointer(p) \/ Windows!Leave(p) \/ Windows!Kill(p)
  BY <1>9 DEF Windows!ClearPointer, Windows!Leave, Windows!Kill, Windows!Main,
              Windows!Thread, Windows!window
<1> QED
  BY <1>1, <1>2, <1>3, <1>4, <1>5, <1>6, <1>7, <1>8, <1>9 DEF Act

-----------------------------------------------------------------------------
(* A step that leaves the clock of a process and the file alone.           *)
LEMMA RowsStay ==
  ASSUME NEW p \in Procs, DatasetTypes, RowsSound(p), file' = file,
         at'[p] = at[p], idx'[p] = idx[p],
         env'[p] = env[p] \/ idx[p] = 0,
         Pending(p)' => Pending(p),
         fp'[p] = "open" => fp[p] = "open" \/ idx[p] = 0,
         fp'[p] = "open" /\ monitor'[p] = "sleep" =>
           monitor[p] = "sleep" \/ idx[p] \notin Windows!Logged(p)
  PROVE  RowsSound(p)'
<1>1. Windows!RowsOf(p)' = Windows!RowsOf(p)
  BY DEF Windows!RowsOf
<1>2. idx[p] \in Nat
  BY DatasetAssumption DEF DatasetTypes
<1>3. CASE idx[p] = 0
  <2>1. Windows!Logged(p) = {} /\ Windows!Logged(p)' = {}
    BY <1>3 DEF Windows!Logged
  <2> QED
    BY <1>1, <2>1 DEF RowsSound
<1>4. CASE idx[p] # 0
  <2>1. Windows!Logged(p)' = Windows!Logged(p)
    BY <1>4 DEF Windows!Logged
  <2>2. ASSUME NEW n \in Windows!Logged(p)
        PROVE  \/ \E i \in Windows!RowsOf(p) : file[i].window_idx = n
               \/ /\ \A i \in Windows!RowsOf(p) : file[i].window_idx < n
                  /\ fp'[p] = "open" => n = idx'[p] /\ monitor'[p] # "sleep"
    BY <1>4, <2>2 DEF RowsSound
  <2> QED
    BY <1>1, <2>1, <2>2 DEF RowsSound
<1> QED
  BY <1>3, <1>4

(* A line that is not a row of the process.                                *)
LEMMA RowsOfOthers ==
  ASSUME NEW p \in Procs, DatasetTypes, RowsSound(p),
         NEW r \in Lines, file' = Append(file, r),
         r = Windows!Header \/ r.run # p,
         at'[p] = at[p], idx'[p] = idx[p], env'[p] = env[p],
         Pending(p)' => Pending(p),
         fp'[p] = fp[p], monitor'[p] = monitor[p]
  PROVE  RowsSound(p)'
<1>1. /\ Len(file) \in Nat /\ Len(file') = Len(file) + 1
      /\ \A i \in 1..Len(file) : file'[i] = file[i]
      /\ file'[Len(file) + 1] = r
  BY LineAdded DEF DatasetTypes
<1>2. Windows!RowsOf(p)' = Windows!RowsOf(p)
  BY <1>1 DEF Windows!RowsOf
<1>3. \A i \in Windows!RowsOf(p) : file'[i] = file[i]
  BY <1>1 DEF Windows!RowsOf
<1>4. Windows!Logged(p)' = Windows!Logged(p)
  BY DEF Windows!Logged
<1>5. \A i, j \in Windows!RowsOf(p)' : i < j => file'[i].window_idx < file'[j].window_idx
  BY <1>2, <1>3 DEF RowsSound
<1>6. \A i \in Windows!RowsOf(p)' :
        /\ file'[i].window_idx \in Windows!Logged(p)'
        /\ Pending(p)' => file'[i].window_idx < idx'[p]
        /\ file'[i].window_idx > 1 =>
             file'[i].dt_ms = at'[p][file'[i].window_idx] - at'[p][file'[i].window_idx - 1]
  BY <1>2, <1>3, <1>4 DEF RowsSound
<1>7. \A n \in Windows!Logged(p)' :
        \/ \E i \in Windows!RowsOf(p)' : file'[i].window_idx = n
        \/ /\ \A i \in Windows!RowsOf(p)' : file'[i].window_idx < n
           /\ fp'[p] = "open" => n = idx'[p] /\ monitor'[p] # "sleep"
  <2> TAKE n \in Windows!Logged(p)'
  <2>1. CASE \E i \in Windows!RowsOf(p) : file[i].window_idx = n
    BY <1>2, <1>3, <2>1
  <2>2. CASE ~\E i \in Windows!RowsOf(p) : file[i].window_idx = n
    <3>1. /\ \A i \in Windows!RowsOf(p) : file[i].window_idx < n
          /\ fp[p] = "open" => n = idx[p] /\ monitor[p] # "sleep"
      BY <1>4, <2>2 DEF RowsSound
    <3>2. \A i \in Windows!RowsOf(p)' : file'[i].window_idx < n
      BY <1>2, <1>3, <3>1
    <3> QED
      BY <3>1, <3>2
  <2> QED
    BY <2>1, <2>2
<1> QED
  BY <1>5, <1>6, <1>7 DEF RowsSound

(* The row of the last window.                                             *)
LEMMA RowAdded ==
  ASSUME NEW p \in Procs, DatasetTypes, ClockSound(p), StreamSound(p), RowsSound(p),
         AddsRow(p), at'[p] = at[p], idx'[p] = idx[p], env'[p] = env[p]
  PROVE  RowsSound(p)'
<1> DEFINE r == Windows!Row(p)
<1>0. /\ r \in Lines /\ r.run = p /\ r # Windows!Header /\ r.window_idx = idx[p]
      /\ r.dt_ms = dt[p]
  BY RowTyped DEF Lines
<1> HIDE DEF r
<1>1. /\ Len(file) \in Nat /\ Len(file') = Len(file) + 1
      /\ \A i \in 1..Len(file) : file'[i] = file[i]
      /\ file'[Len(file) + 1] = r
  BY <1>0, LineAdded DEF DatasetTypes, AddsRow, r
<1>2. Windows!RowsOf(p)' = Windows!RowsOf(p) \cup {Len(file) + 1}
  BY <1>0, <1>1 DEF Windows!RowsOf
<1>3. \A i \in Windows!RowsOf(p) : i \in 1..Len(file) /\ file'[i] = file[i]
  BY <1>1 DEF Windows!RowsOf
<1>4. Windows!Logged(p)' = Windows!Logged(p)
  BY DEF Windows!Logged
<1>5. idx[p] \in Windows!Logged(p) /\ Pending(p) /\ ~Pending(p)' /\ idx[p] \in Nat
  BY DatasetAssumption DEF DatasetTypes, StreamSound, AddsRow, Pending, Windows!Ended
<1>6. \A i, j \in Windows!RowsOf(p)' : i < j => file'[i].window_idx < file'[j].window_idx
  BY <1>0, <1>1, <1>2, <1>3, <1>5 DEF RowsSound
<1>7. ASSUME NEW i \in Windows!RowsOf(p)'
      PROVE  /\ file'[i].window_idx \in Windows!Logged(p)
             /\ file'[i].window_idx > 1 =>
                  file'[i].dt_ms = at[p][file'[i].window_idx] - at[p][file'[i].window_idx - 1]
  <2>1. CASE i \in Windows!RowsOf(p)
    BY <1>3, <2>1 DEF RowsSound
  <2>2. CASE i = Len(file) + 1
    BY <1>0, <1>1, <1>5, <2>2 DEF ClockSound
  <2> QED
    BY <1>2, <2>1, <2>2
<1>8. ASSUME NEW n \in Windows!Logged(p)
      PROVE  \E i \in Windows!RowsOf(p)' : file'[i].window_idx = n
  <2>1. CASE n = idx[p]
    BY <1>0, <1>1, <1>2, <2>1
  <2>2. CASE n # idx[p]
    <3>1. PICK i \in Windows!RowsOf(p) : file[i].window_idx = n
      BY <2>2 DEF RowsSound, AddsRow
    <3> QED
      BY <1>2, <1>3, <3>1
  <2> QED
    BY <2>1, <2>2
<1> QED
  BY <1>4, <1>5, <1>6, <1>7, <1>8 DEF RowsSound

(* A window begins: nothing of it is in the file.                          *)
LEMMA RowsOfNewWindow ==
  ASSUME NEW p \in Procs, DatasetTypes, RowsSound(p), StreamSound(p),
         monitor[p] = "sleep", monitor'[p] = "log", idx'[p] = idx[p] + 1,
         env'[p] = env[p], fp'[p] = fp[p], file' = file,
         \A n \in 1..idx[p] : at'[p][n] = at[p][n]
  PROVE  RowsSound(p)'
<1>1. Windows!RowsOf(p)' = Windows!RowsOf(p)
  BY DEF Windows!RowsOf
<1>2. /\ \A i \in Windows!RowsOf(p) : /\ file[i].window_idx \in Windows!Logged(p)
                                      /\ file[i].window_idx \in 1..idx[p]
      /\ idx[p] \in Nat
  BY DatasetAssumption DEF RowsSound, Windows!Logged, DatasetTypes
<1>3. env[p].warmup \in Int
  BY DatasetAssumption DEF DatasetTypes
<1>4. \A n \in Windows!Logged(p) : n \in Windows!Logged(p)'
  BY <1>2 DEF Windows!Logged
<1>5. \A n \in Windows!Logged(p)' : n \in Windows!Logged(p) \/ n = idx'[p]
  BY <1>2 DEF Windows!Logged
<1>6. ASSUME NEW i \in Windows!RowsOf(p)
      PROVE  /\ file[i].window_idx \in Windows!Logged(p)'
             /\ file[i].window_idx < idx'[p]
             /\ file[i].window_idx > 1 =>
                  file[i].dt_ms = at'[p][file[i].window_idx] - at'[p][file[i].window_idx - 1]
  BY <1>2, <1>4 DEF RowsSound
<1>7. ASSUME NEW n \in Windows!Logged(p)'
      PROVE  \/ \E i \in Windows!RowsOf(p) : file[i].window_idx = n
             \/ /\ \A i \in Windows!RowsOf(p) : file[i].window_idx < n
                /\ fp'[p] = "open" => n = idx'[p] /\ monitor'[p] # "sleep"
  <2>1. CASE n = idx'[p]
    BY <1>6, <2>1
  <2>2. CASE n \in Windows!Logged(p)
    BY <2>2 DEF RowsSound
  <2> QED
    BY <1>5, <2>1, <2>2
<1> QED
  BY <1>1, <1>6, <1>7 DEF RowsSound

-----------------------------------------------------------------------------
(* What a step of p does to p itself.                                      *)
LEMMA OwnStep ==
  ASSUME DatasetTypes, DatasetTypes', NEW p \in Procs,
         ClockSound(p), StreamSound(p), RowsSound(p), Act(p)
  PROVE  ClockSound(p)' /\ StreamSound(p)' /\ RowsSound(p)'
<1>0. idx[p] \in Nat /\ idx'[p] \in Nat /\ env[p].warmup \in Int /\ env'[p].warmup \in Int
  BY DatasetAssumption DEF DatasetTypes
<1>c. ASSUME at'[p] = at[p], idx'[p] = idx[p], mt'[p] = mt[p], dt'[p] = dt[p]
      PROVE  ClockSound(p)'
  BY <1>c DEF ClockSound
<1>l. env'[p] = env[p] /\ idx'[p] = idx[p] => Windows!Logged(p)' = Windows!Logged(p)
  BY DEF Windows!Logged
<1>1. CASE \E e \in Envs : Windows!init_monitor(p, e)
  <2>1. /\ mpc[p] = "off" /\ mpc'[p] \in {"exited", "open", "spawn"}
        /\ UNCHANGED <<monitor, fp, buffer, idx, mt, dt, at, file>>
    BY <1>1 DEF Windows!init_monitor, Windows!Main, Windows!window, DatasetTypes
  <2>2. idx[p] = 0 /\ monitor[p] = "none" /\ fp[p] = "NULL" /\ buffer[p] = <<>>
    BY <2>1 DEF StreamSound, Windows!Ended
  <2>3. mpc'[p] = "open" => env'[p].training
    <3>1. PICK e \in Envs : Windows!init_monitor(p, e)
      BY <1>1
    <3>2. env'[p] = e /\ (mpc'[p] = "open" => e.training)
      BY <3>1 DEF Windows!init_monitor, Windows!Main, DatasetTypes
    <3> QED
      BY <3>2
  <2>4. StreamSound(p)'
    BY <2>1, <2>2, <2>3 DEF StreamSound, Windows!Ended
  <2>5. RowsSound(p)'
    BY <2>1, <2>2, RowsStay DEF Pending
  <2> QED
    BY <1>c, <2>1, <2>4, <2>5
<1>q. ASSUME UNCHANGED <<env, idx, mt, dt, at, file>>
      PROVE  /\ ClockSound(p)' /\ Windows!Logged(p)' = Windows!Logged(p)
             /\ Windows!Row(p)' = Windows!Row(p)
  BY <1>q, <1>c, <1>l DEF Windows!Row
<1>2. CASE Windows!OpenDataset(p)
  <2>1. /\ mpc[p] = "open" /\ UNCHANGED <<env, idx, mt, dt, at, file, monitor, buffer>>
        /\ \/ fp'[p] = "open" /\ mpc'[p] = "size"
           \/ fp' = fp /\ mpc'[p] = "exited"
    BY <1>2 DEF Windows!OpenDataset, Windows!Main, Windows!window, DatasetTypes
  <2>2. idx[p] = 0 /\ monitor[p] = "none" /\ fp[p] = "NULL" /\ buffer[p] = <<>>
    BY <2>1 DEF StreamSound, Windows!Ended
  <2>3. StreamSound(p)'
    BY <1>q, <2>1, <2>2 DEF StreamSound, Windows!Ended
  <2> QED
    BY <1>q, <2>1, <2>2, <2>3, RowsStay DEF Pending
<1>3. CASE Windows!SizeCheck(p) \/ Windows!Spawn(p)
  <2>1. /\ mpc[p] \in {"size", "spawn"}
        /\ UNCHANGED <<env, idx, mt, dt, at, file, fp, buffer>>
        /\ mpc'[p] \in {"header", "spawn", "running", "exited"}
        /\ \/ monitor'[p] = monitor[p]
           \/ monitor'[p] = "sleep" /\ mpc'[p] = "running"
    BY <1>3 DEF Windows!SizeCheck, Windows!Spawn, Windows!Main, Windows!Thread,
                Windows!window, DatasetTypes
  <2>2. idx[p] = 0 /\ monitor[p] = "none" /\ buffer[p] = <<>>
    BY <2>1 DEF StreamSound, Windows!Ended
  <2>3. StreamSound(p)'
    BY <1>q, <2>1, <2>2 DEF StreamSound, Windows!Ended
  <2>4. idx[p] \notin Windows!Logged(p) /\ ~Pending(p)'
    BY <2>1, <2>2 DEF Windows!Logged, Pending
  <2> QED
    BY <1>q, <2>1, <2>2, <2>3, <2>4, RowsStay
<1>4. CASE Windows!WriteHeader(p)
  <2>1. /\ mpc[p] = "header" /\ mpc'[p] = "spawn" /\ file' = Append(file, Windows!Header)
        /\ UNCHANGED <<env, idx, mt, dt, at, monitor, fp, buffer>>
    BY <1>4 DEF Windows!WriteHeader, Windows!Main, Windows!window, DatasetTypes
  <2>2. ClockSound(p)' /\ StreamSound(p)'
    BY <1>c, <2>1 DEF StreamSound, Windows!Ended, Windows!Logged, Windows!Row
  <2>3. ~Pending(p)'
    BY <2>1 DEF StreamSound, Pending
  <2> QED
    BY <2>1, <2>2, <2>3, HeaderTyped, RowsOfOthers
<1>5. CASE mpc[p] \notin Windows!Ended /\ Windows!Window(p)
  <2>1. /\ monitor[p] = "sleep" /\ monitor' = [monitor EXCEPT ![p] = "log"]
        /\ idx' = [idx EXCEPT ![p] = idx[p] + 1]
        /\ UNCHANGED <<env, mpc, fp, buffer, file>> /\ ClockSound(p)'
    BY <1>5, WindowStep
  <2>2. \A n \in 1..idx[p] : at'[p][n] = at[p][n]
    BY <1>5, WindowStep
  <2>3. monitor'[p] = "log" /\ idx'[p] = idx[p] + 1
    BY <2>1 DEF DatasetTypes
  <2>4. StreamSound(p)'
    BY <1>0, <1>5, <2>1, <2>3 DEF StreamSound, Windows!Ended
  <2> QED
    BY <2>1, <2>2, <2>3, <2>4, RowsOfNewWindow
<1>6. CASE mpc[p] \notin Windows!Ended /\ Windows!Check(p)
  <2>1. /\ monitor[p] = "log" /\ monitor'[p] \in {"print", "sleep"}
        /\ UNCHANGED <<env, mpc, fp, buffer, idx, mt, dt, at, file>>
        /\ monitor'[p] = "print" => idx[p] > env[p].warmup
        /\ monitor'[p] = "sleep" =>
             fp[p] # "open" \/ ~(idx[p] > env[p].warmup)
    BY <1>6 DEF Windows!Check, Windows!Thread, Windows!window, DatasetTypes, StreamSound
  <2>2. idx[p] >= 1
    BY <2>1 DEF StreamSound
  <2>3. /\ monitor'[p] = "print" => idx[p] \in Windows!Logged(p)
        /\ monitor'[p] = "sleep" => fp[p] # "open" \/ idx[p] \notin Windows!Logged(p)
    BY <1>0, <2>1, <2>2 DEF Windows!Logged
  <2>4. StreamSound(p)'
    BY <1>6, <1>q, <2>1, <2>2, <2>3 DEF StreamSound
  <2>5. Pending(p)' => Pending(p)
    BY <1>6, <2>1 DEF Pending
  <2> QED
    BY <1>q, <2>1, <2>3, <2>4, <2>5, RowsStay
<1>7. CASE mpc[p] \notin Windows!Ended /\ Windows!PrintRow(p)
  <2>1. /\ monitor[p] = "print" /\ monitor'[p] = "flush"
        /\ UNCHANGED <<env, fp, idx, mt, dt, at, file>>
        /\ mpc'[p] = mpc[p] \/ mpc'[p] = "killed"
        /\ IF fp[p] = "open" THEN /\ mpc' = mpc
                                  /\ buffer'[p] = Append(buffer[p], Windows!Row(p))
                             ELSE buffer' = buffer
    BY <1>7 DEF Windows!PrintRow, Windows!Main, Windows!Thread, Windows!UseFreed,
                Windows!window, DatasetTypes
  <2>2. buffer[p] = <<>>
    BY <1>7, <2>1 DEF StreamSound
  <2>3. /\ Len(buffer'[p]) <= 1
        /\ fp[p] = "open" => buffer'[p] = <<Windows!Row(p)>>
    <3>1. Append(<<>>, Windows!Row(p)) = <<Windows!Row(p)>> /\ Len(<<Windows!Row(p)>>) = 1
      OBVIOUS
    <3>2. CASE fp[p] = "open"
      <4>1. buffer'[p] = <<Windows!Row(p)>>
        BY <2>1, <2>2, <3>1, <3>2
      <4> QED
        BY <3>1, <4>1
    <3>3. CASE fp[p] # "open"
      BY <2>1, <3>3 DEF StreamSound
    <3> QED
      BY <3>2, <3>3
  <2>4. StreamSound(p)'
    BY <1>7, <1>q, <2>1, <2>2, <2>3 DEF StreamSound, Windows!Ended
  <2>5. Pending(p)' => Pending(p)
    BY <1>7, <2>1 DEF Pending
  <2> QED
    BY <1>q, <2>1, <2>4, <2>5, RowsStay
<1>8. CASE mpc[p] \notin Windows!Ended /\ Windows!Flush(p)
  <2>1. /\ monitor[p] = "flush" /\ monitor'[p] = "sleep"
        /\ UNCHANGED <<env, fp, idx, mt, dt, at>>
        /\ \/ AddsRow(p)
           \/ /\ fp[p] # "open" /\ UNCHANGED <<buffer, file>>
              /\ mpc'[p] = mpc[p] \/ mpc'[p] = "killed"
    BY <1>8, FlushStep DEF DatasetTypes, AddsRow
  <2>2. ClockSound(p)' /\ Windows!Logged(p)' = Windows!Logged(p)
    BY <1>c, <1>l, <2>1
  <2>3. CASE AddsRow(p)
    <3>1. mpc[p] = "running" /\ mpc'[p] = "running" /\ buffer'[p] = <<>> /\ Len(<<>>) = 0
      BY <2>1, <2>3 DEF AddsRow
    <3>2. StreamSound(p)'
      BY <2>1, <2>2, <3>1 DEF StreamSound, Windows!Ended
    <3> QED
      BY <2>1, <2>2, <2>3, <3>2, RowAdded
  <2>4. CASE fp[p] # "open" /\ UNCHANGED <<buffer, file>>
             /\ (mpc'[p] = mpc[p] \/ mpc'[p] = "killed")
    <3>1. StreamSound(p)'
      BY <1>8, <2>1, <2>2, <2>4 DEF StreamSound, Windows!Ended
    <3>2. ~Pending(p)'
      BY <2>1 DEF Pending
    <3> QED
      BY <2>1, <2>2, <2>4, <3>1, <3>2, RowsStay
  <2> QED
    BY <2>1, <2>3, <2>4
<1>9. CASE Windows!finish_monitor(p)
  <2>1. /\ mpc[p] = "running" /\ UNCHANGED <<env, monitor, idx, mt, dt, at>>
        /\ \/ /\ fp[p] = "open" /\ fp'[p] = "freed" /\ mpc'[p] = "closed"
              /\ buffer'[p] = <<>>
              /\ \/ AddsRow(p)
                 \/ monitor[p] # "flush" /\ file' = file
           \/ fp[p] # "open" /\ mpc'[p] = "leaving" /\ UNCHANGED <<fp, buffer, file>>
    <3>1. CASE /\ fp[p] = "open" /\ fp' = [fp EXCEPT ![p] = "freed"]
               /\ mpc' = [mpc EXCEPT ![p] = "closed"] /\ buffer'[p] = <<>>
               /\ \/ AddsRow(p)
                  \/ monitor[p] # "flush" /\ file' = file
      <4>1. fp'[p] = "freed" /\ mpc'[p] = "closed"
        BY <3>1 DEF DatasetTypes
      <4> QED
        BY <1>9, <3>1, <4>1, FinishStep
    <3>2. CASE /\ fp[p] # "open" /\ mpc' = [mpc EXCEPT ![p] = "leaving"]
               /\ UNCHANGED <<fp, buffer, file>>
      <4>1. mpc'[p] = "leaving"
        BY <3>2 DEF DatasetTypes
      <4> QED
        BY <1>9, <3>2, <4>1, FinishStep
    <3> QED
      BY <1>9, <3>1, <3>2, FinishStep
  <2>2. ClockSound(p)' /\ Windows!Logged(p)' = Windows!Logged(p)
    BY <1>c, <1>l, <2>1
  <2>3. StreamSound(p)'
    BY <2>1, <2>2 DEF StreamSound, Windows!Ended
  <2>4. CASE AddsRow(p)
    BY <2>1, <2>2, <2>3, <2>4, RowAdded
  <2>5. CASE file' = file
    <3>1. Pending(p)' => Pending(p)
      BY <2>1 DEF Pending, Windows!Ended
    <3> QED
      BY <2>1, <2>2, <2>3, <2>5, <3>1, RowsStay
  <2> QED
    BY <2>1, <2>4, <2>5
<1>10. CASE Windows!ClearPointer(p) \/ Windows!Leave(p) \/ Windows!Kill(p)
  <2>1. /\ mpc[p] \notin Windows!Ended
        /\ UNCHANGED <<env, buffer, idx, mt, dt, at, file>>
        /\ \/ mpc[p] = "closed" /\ mpc'[p] = "leaving" /\ fp'[p] = "NULL" /\ monitor' = monitor
           \/ mpc'[p] \in {"exited", "killed"} /\ fp' = fp /\ monitor'[p] = "none"
    BY <1>10 DEF Windows!ClearPointer, Windows!Leave, Windows!Kill, Windows!Main,
                 Windows!Thread, Windows!window, Windows!Up, Windows!Ended, DatasetTypes
  <2>2. StreamSound(p)'
    BY <1>q, <2>1 DEF StreamSound, Windows!Ended
  <2>3. Pending(p)' => Pending(p)
    BY <2>1 DEF Pending
  <2> QED
    BY <1>q, <2>1, <2>2, <2>3, RowsStay
<1> QED
  BY <1>1, <1>2, <1>3, <1>4, <1>5, <1>6, <1>7, <1>8, <1>9, <1>10 DEF Act

(* What a step of p does to the file, as the others see it.                *)
LEMMA FileStep ==
  ASSUME DatasetTypes, NEW p \in Procs, ClockSound(p), StreamSound(p), Act(p)
  PROVE  \/ file' = file
         \/ AddsHeader(p)
         \/ AddsRow(p)
<1>1. CASE Windows!WriteHeader(p)
  BY <1>1 DEF Windows!WriteHeader, Windows!Main, AddsHeader, DatasetTypes
<1>2. CASE mpc[p] \notin Windows!Ended /\ Windows!Flush(p)
  BY <1>2, FlushStep
<1>3. CASE Windows!finish_monitor(p)
  BY <1>3, FinishStep
<1> QED
  BY <1>1, <1>2, <1>3
     DEF Act, Windows!init_monitor, Windows!OpenDataset, Windows!SizeCheck, Windows!Spawn,
         Windows!Window, Windows!Check, Windows!PrintRow, Windows!ClearPointer,
         Windows!Leave, Windows!Kill, Windows!UseFreed

(* What it does to another process: nothing but a line in the file.        *)
LEMMA OtherStep ==
  ASSUME DatasetTypes, NEW p \in Procs, ClockSound(p), StreamSound(p), Act(p),
         NEW q \in Procs, q # p, ClockSound(q), StreamSound(q), RowsSound(q)
  PROVE  ClockSound(q)' /\ StreamSound(q)' /\ RowsSound(q)'
<1>1. Unmoved(q)
  BY OthersUnmoved
<1>2. ClockSound(q)'
  BY <1>1 DEF Unmoved, ClockSound
<1>3. StreamSound(q)'
  BY <1>1 DEF Unmoved, StreamSound, Windows!Logged, Windows!Row
<1>4. Pending(q)' => Pending(q)
  BY <1>1 DEF Unmoved, Pending
<1>5. CASE file' = file
  BY <1>1, <1>2, <1>3, <1>4, <1>5, RowsStay DEF Unmoved
<1>6. CASE AddsHeader(p)
  BY <1>1, <1>2, <1>3, <1>4, <1>6, HeaderTyped, RowsOfOthers DEF Unmoved, AddsHeader
<1>7. CASE AddsRow(p)
  <2>1. Windows!Row(p) \in Lines /\ Windows!Row(p).run # q
    BY RowTyped DEF Lines
  <2> QED
    BY <1>1, <1>2, <1>3, <1>4, <1>7, <2>1, RowsOfOthers DEF Unmoved, AddsRow
<1> QED
  BY <1>2, <1>3, <1>5, <1>6, <1>7, FileStep

-----------------------------------------------------------------------------
LEMMA HeaderStep ==
  ASSUME DatasetTypes, DatasetTypes', HeaderSound,
         NEW p \in Procs, ClockSound(p), StreamSound(p), Act(p)
  PROVE  HeaderSound'
<1>1. \A q \in Procs : q # p => mpc'[q] = mpc[q] /\ fp'[q] = fp[q]
  BY OthersUnmoved DEF Unmoved
<1>2. /\ mpc'[p] = "header" /\ mpc[p] # "header" =>
           file = <<>> /\ \A q \in Procs : q # p => mpc[q] # "header" \/ raced'
      /\ fp'[p] = "open" /\ mpc'[p] \in {"spawn", "running"} =>
           \/ fp[p] = "open" /\ mpc[p] \in {"spawn", "running"}
           \/ file # <<>> \/ AddsHeader(p)
      /\ raced => raced'
  <2>1. CASE Windows!SizeCheck(p)
    BY <2>1 DEF Windows!SizeCheck, Windows!Main, DatasetTypes
  <2>2. CASE Windows!WriteHeader(p)
    BY <2>2 DEF Windows!WriteHeader, Windows!Main, AddsHeader, DatasetTypes
  <2>3. CASE \E e \in Envs : Windows!init_monitor(p, e)
    BY <2>3 DEF Windows!init_monitor, Windows!Main, DatasetTypes, StreamSound
  <2>4. CASE Windows!OpenDataset(p) \/ Windows!Spawn(p)
    BY <2>4 DEF Windows!OpenDataset, Windows!Spawn, Windows!Main, DatasetTypes
  <2>5. CASE /\ mpc[p] \notin Windows!Ended
             /\ Windows!Window(p) \/ Windows!Check(p) \/ Windows!PrintRow(p)
    <3>1. CASE Windows!Window(p)
      BY <3>1 DEF Windows!Window, DatasetTypes
    <3>2. CASE Windows!Check(p)
      BY <3>2 DEF Windows!Check, DatasetTypes
    <3>3. CASE Windows!PrintRow(p)
      BY <3>3 DEF Windows!PrintRow, Windows!UseFreed, Windows!Main, DatasetTypes
    <3> QED
      BY <2>5, <3>1, <3>2, <3>3
  <2>6. CASE mpc[p] \notin Windows!Ended /\ Windows!Flush(p)
    BY <2>6 DEF Windows!Flush, Windows!UseFreed, Windows!Main, DatasetTypes
  <2>7. CASE Windows!finish_monitor(p)
    BY <2>7 DEF Windows!finish_monitor, Windows!Main, DatasetTypes
  <2>8. CASE Windows!ClearPointer(p) \/ Windows!Leave(p) \/ Windows!Kill(p)
    BY <2>8 DEF Windows!ClearPointer, Windows!Leave, Windows!Kill, Windows!Main,
                DatasetTypes
  <2> QED
    BY <2>1, <2>2, <2>3, <2>4, <2>5, <2>6, <2>7, <2>8 DEF Act
<1>3. CASE file' = file
  <2>1. ~AddsHeader(p)
    BY <1>3, HeaderTyped, LineAdded DEF AddsHeader, DatasetTypes
  <2>2. \A q \in Procs : fp'[q] = "open" /\ mpc'[q] \in {"spawn", "running"} => file # <<>>
    BY <1>1, <1>2, <2>1 DEF HeaderSound
  <2>3. ASSUME ~raced', NEW q \in Procs, mpc'[q] = "header"
        PROVE  file = <<>> /\ \A r \in Procs : mpc'[r] = "header" => q = r
    BY <1>1, <1>2, <2>3 DEF HeaderSound
  <2> QED
    BY <1>2, <1>3, <2>2, <2>3 DEF HeaderSound
<1>4. CASE AddsHeader(p)
  <2>1. /\ Len(file) \in Nat /\ Len(file') = Len(file) + 1
        /\ \A i \in 1..Len(file) : file'[i] = file[i]
        /\ file'[Len(file) + 1] = Windows!Header /\ file' # <<>>
    BY <1>4, HeaderTyped, LineAdded DEF AddsHeader, DatasetTypes
  <2>2. file'[1] = Windows!Header
    <3>1. file = <<>> => Len(file) = 0
      OBVIOUS
    <3>2. file # <<>> => Len(file) >= 1
      BY EmptySeq, <2>1 DEF DatasetTypes
    <3> QED
      BY <2>1, <3>1, <3>2 DEF HeaderSound
  <2>3. ASSUME ~raced'
        PROVE  /\ \A i \in 2..Len(file') : file'[i] # Windows!Header
               /\ \A q \in Procs : mpc'[q] # "header"
    <3>1. file = <<>> /\ \A q \in Procs : mpc[q] = "header" => p = q
      BY <1>2, <1>4, <2>3 DEF HeaderSound, AddsHeader
    <3>2. Len(file') = 1
      BY <2>1, <3>1
    <3> QED
      BY <1>1, <1>4, <3>1, <3>2 DEF AddsHeader
  <2> QED
    BY <2>1, <2>2, <2>3 DEF HeaderSound
<1>5. CASE AddsRow(p)
  <2>1. /\ Len(file) \in Nat /\ Len(file') = Len(file) + 1
        /\ \A i \in 1..Len(file) : file'[i] = file[i]
        /\ file'[Len(file) + 1] = Windows!Row(p) /\ file' # <<>>
        /\ Windows!Row(p) # Windows!Header
    BY <1>5, RowTyped, LineAdded DEF AddsRow, DatasetTypes, Lines
  <2>2. file # <<>> /\ Len(file) >= 1
    BY <1>5, <2>1, EmptySeq DEF HeaderSound, AddsRow, DatasetTypes
  <2>3. file'[1] = Windows!Header
    BY <2>1, <2>2 DEF HeaderSound
  <2>4. ASSUME ~raced'
        PROVE  /\ \A i \in 2..Len(file') : file'[i] # Windows!Header
               /\ \A q \in Procs : mpc'[q] # "header"
    <3>1. /\ \A i \in 2..Len(file) : file[i] # Windows!Header
          /\ \A q \in Procs : mpc[q] # "header"
      BY <1>2, <2>2, <2>4 DEF HeaderSound
    <3> QED
      BY <1>1, <1>5, <2>1, <3>1 DEF AddsRow
  <2> QED
    BY <2>1, <2>3, <2>4 DEF HeaderSound
<1> QED
  BY <1>3, <1>4, <1>5, FileStep

LEMMA DatasetInitial == Windows!Init => DatasetInv
<1> SUFFICES ASSUME Windows!Init PROVE DatasetInv
  OBVIOUS
<1>1. (CHOOSE e \in Envs : TRUE) \in Envs
  BY DatasetAssumption
<1>2. <<>> \in Seq(Lines) /\ <<>> \in Seq(Int) /\ Len(<<>>) = 0
  BY EmptySeq
<1>3. DatasetTypes
  BY <1>1, <1>2, DatasetAssumption DEF Windows!Init, DatasetTypes, MainLabels
<1>4. HeaderSound
  BY <1>2 DEF Windows!Init, HeaderSound
<1>5. ASSUME NEW p \in Procs
      PROVE  ClockSound(p) /\ StreamSound(p) /\ RowsSound(p)
  <2>1. /\ mpc[p] = "off" /\ monitor[p] = "none" /\ fp[p] = "NULL" /\ buffer[p] = <<>>
        /\ idx[p] = 0 /\ mt[p] = -1 /\ dt[p] = 0 /\ at[p] = <<>> /\ file = <<>>
    BY DEF Windows!Init
  <2>2. Windows!RowsOf(p) = {} /\ Windows!Logged(p) = {}
    BY <1>2, <2>1 DEF Windows!RowsOf, Windows!Logged
  <2> QED
    BY <1>2, <2>1, <2>2 DEF ClockSound, StreamSound, RowsSound, Windows!Ended
<1> QED
  BY <1>3, <1>4, <1>5 DEF DatasetInv

LEMMA DatasetStep == DatasetInv /\ [Windows!Next]_dataset => DatasetInv'
<1> SUFFICES ASSUME DatasetInv, [Windows!Next]_dataset PROVE DatasetInv'
  OBVIOUS
<1>1. CASE UNCHANGED dataset
  BY <1>1 DEF dataset, DatasetInv, DatasetTypes, HeaderSound, ClockSound, StreamSound,
              RowsSound, Pending, Windows!RowsOf, Windows!Logged, Windows!Row
<1>2. CASE Windows!Next
  <2>1. PICK p \in Procs : Act(p)
    BY <1>2 DEF Windows!Next, Act
  <2>2. DatasetTypes'
    BY <2>1, DatasetTypesStep DEF DatasetInv
  <2>3. HeaderSound'
    BY <2>1, <2>2, HeaderStep DEF DatasetInv
  <2>4. \A q \in Procs : ClockSound(q)' /\ StreamSound(q)' /\ RowsSound(q)'
    <3> TAKE q \in Procs
    <3>1. CASE q = p
      BY <2>1, <2>2, <3>1, OwnStep DEF DatasetInv
    <3>2. CASE q # p
      BY <2>1, <3>2, OtherStep DEF DatasetInv
    <3> QED
      BY <3>1, <3>2
  <2> QED
    BY <2>2, <2>3, <2>4 DEF DatasetInv
<1> QED
  BY <1>1, <1>2

LEMMA DatasetSound == DatasetInv => Windows!DatasetIsSound
<1> SUFFICES ASSUME DatasetInv PROVE Windows!DatasetIsSound
  OBVIOUS
<1>1. Windows!HeaderFirst
  BY DEF DatasetInv, HeaderSound, Windows!HeaderFirst
<1>2. Windows!RowsSurvive
  BY DEF DatasetInv, RowsSound, Windows!RowsSurvive
<1>3. Windows!RatesCoverTheWindow
  <2>1. ASSUME NEW i \in 2..Len(file), file[i] # Windows!Header
        PROVE  LET r == file[i]
                   n == r.window_idx IN
                 /\ n > 1 => r.dt_ms = at[r.run][n] - at[r.run][n - 1]
                 /\ env[r.run].warmup >= 1 => r.dt_ms > 0
    <3>1. file[i] \in RowRecords
      BY <2>1, ElementOfSeq DEF DatasetInv, DatasetTypes, Lines
    <3>2. PICK p \in Procs : file[i].run = p
      BY <3>1 DEF RowRecords
    <3>3. /\ i \in Windows!RowsOf(p) /\ idx[p] \in Nat /\ env[p].warmup \in Int
          /\ at[p] \in Seq(Int) /\ Len(at[p]) = idx[p]
      BY <2>1, <3>2, DatasetAssumption
         DEF Windows!RowsOf, DatasetInv, DatasetTypes, ClockSound
    <3> DEFINE n == file[i].window_idx
    <3>4. /\ n \in 1..idx[p] /\ n > env[p].warmup
          /\ n > 1 => file[i].dt_ms = at[p][n] - at[p][n - 1]
      BY <3>3 DEF DatasetInv, RowsSound, Windows!Logged
    <3> HIDE DEF n
    <3>5. ASSUME n > 1
          PROVE  at[p][n] - at[p][n - 1] > 0
      <4>1. n \in 2..idx[p] /\ n \in 1..idx[p] /\ n - 1 \in 1..idx[p]
        BY <3>3, <3>4, <3>5
      <4>2. at[p][n] > at[p][n - 1]
        BY <4>1 DEF DatasetInv, ClockSound
      <4>3. at[p][n] \in Int /\ at[p][n - 1] \in Int
        BY <3>3, <4>1
      <4> QED
        BY <4>2, <4>3
    <3>6. env[p].warmup >= 1 => n > 1
      BY <3>3, <3>4
    <3>7. env[p].warmup >= 1 => file[i].dt_ms > 0
      BY <3>4, <3>5, <3>6
    <3> QED
      BY <3>2, <3>4, <3>7 DEF n
  <2> QED
    BY <2>1 DEF Windows!RatesCoverTheWindow
<1> QED
  BY <1>1, <1>2, <1>3 DEF Windows!DatasetIsSound

(* The data set a training leaves is complete, in order, and headed by the *)
(* names of its columns, through kills, exits and any number of processes  *)
(* on one file, for every warm-up (libmonitor.c:604-699, 1078-1114,        *)
(* 1215-1230).                                                             *)
THEOREM DatasetSurvives == ProgramSpec => []DatasetIsSound
<1>1. ProgramInit => DatasetInv
  BY DatasetInitial DEF ProgramInit
<1>2. [ProgramNext]_all => [Windows!Next]_dataset
  BY DEF ProgramNext, all, dataset
<1>3. DatasetInv => DatasetIsSound
  BY DatasetSound DEF DatasetIsSound
<1> QED
  BY <1>1, <1>2, <1>3, DatasetStep, PTL DEF ProgramSpec
=============================================================================
