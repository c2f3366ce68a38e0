------------------------------ MODULE Receiver ------------------------------
(***************************************************************************)
(* The recorder of windows, monitor_receiver.c: it takes one connection at *)
(* a time, reads the PID, the startup flag and the window, and appends a   *)
(* row to monitor_data.csv.  The monitors (send_to_scheduler, libmonitor.c *)
(* 355-412) write the three parts one after the other and may end between  *)
(* any two; the window reaches the recorder in pieces.  The scripts kill   *)
(* the recorder and start another one, which appends to the same file.     *)
(***************************************************************************)
EXTENDS Naturals, Sequences

CONSTANTS Clients,      \* one connection each
          Chunks,       \* pieces a MonitorData arrives in
          Backlog,      \* listen(s, 8)
          MaxRestarts   \* bound: how often the recorder is started again

Nobody == "nobody"      \* what the bytes of `data` are before the first read
Whole == 2 + Chunks     \* pid, flag, data

VARIABLES client,    \* "idle", "queued", "open", "closed" (by the recorder)
          sent,      \* parts the client has written
          done,      \* the client has closed its end, or is dead
          backlog,   \* connections the recorder has not accepted
          pc, conn,  \* the recorder, and whose connection it serves
          pid, startup_flag, data, got,   \* its variables; they keep their old values
          csv,       \* rows of monitor_data.csv
          starts

net == <<client, sent, done, backlog>>
locals == <<pid, startup_flag, data, got>>
vars == <<net, pc, conn, locals, csv, starts>>

Header == [kind |-> "header"]
Row == [kind |-> "row", pid |-> pid, flag |-> startup_flag, data |-> data]

Init == /\ client = [c \in Clients |-> "idle"]
        /\ sent = [c \in Clients |-> 0]
        /\ done = [c \in Clients |-> FALSE]
        /\ backlog = <<>>
        /\ pc = "open" /\ conn = Nobody
        /\ pid = Nobody /\ startup_flag = Nobody
        /\ data = [i \in 1..Chunks |-> Nobody]
        /\ got = 0
        /\ csv = <<>>
        /\ starts = 1

-----------------------------------------------------------------------------
(* The monitors.                                                           *)

Connect(c) == /\ client[c] = "idle" /\ pc # "dead"
              /\ Len(backlog) < Backlog
              /\ client' = [client EXCEPT ![c] = "queued"]
              /\ backlog' = Append(backlog, c)
              /\ UNCHANGED <<sent, done, pc, conn, locals, csv, starts>>

(* A write into a connection the recorder has closed ends the client.      *)
Write(c) == /\ client[c] # "idle" /\ ~done[c] /\ sent[c] < Whole
            /\ IF client[c] = "closed"
               THEN done' = [done EXCEPT ![c] = TRUE] /\ UNCHANGED sent
               ELSE sent' = [sent EXCEPT ![c] = @ + 1] /\ UNCHANGED done
            /\ UNCHANGED <<client, backlog, pc, conn, locals, csv, starts>>

Close(c) == /\ client[c] # "idle" /\ ~done[c] /\ sent[c] = Whole
            /\ done' = [done EXCEPT ![c] = TRUE]
            /\ UNCHANGED <<client, sent, backlog, pc, conn, locals, csv, starts>>

Die(c) == /\ client[c] # "idle" /\ ~done[c] /\ sent[c] < Whole
          /\ done' = [done EXCEPT ![c] = TRUE]
          /\ UNCHANGED <<client, sent, backlog, pc, conn, locals, csv, starts>>

-----------------------------------------------------------------------------
(* The recorder.                                                           *)

(* fopen "a", the header if the file is empty, and a flush; a recorder that*)
(* cannot open the file ends, as if it had been killed here.               *)
Open == /\ pc = "open"
        /\ csv' = IF csv = <<>> THEN <<Header>> ELSE csv
        /\ pc' = "accept"
        /\ UNCHANGED <<net, conn, locals, starts>>

Accept == /\ pc = "accept" /\ backlog # <<>>
          /\ conn' = Head(backlog) /\ backlog' = Tail(backlog)
          /\ client' = [client EXCEPT ![conn'] = "open"]
          /\ pc' = "pid"
          /\ UNCHANGED <<sent, done, locals, csv, starts>>

Hangup == /\ client' = [client EXCEPT ![conn] = "closed"]
          /\ conn' = Nobody /\ pc' = "accept"
          /\ UNCHANGED <<sent, done, backlog, starts>>

(* A blocking read: n parts more, or none and the end of the stream.       *)
Available(k) == sent[conn] - k
EndOfStream(k) == Available(k) = 0 /\ done[conn]

(* Mutant: at the end of the stream the recorder reads again.              *)
ReadPidAgain == /\ pc = "pid" /\ Available(0) > 0
                /\ pid' = conn /\ pc' = "flag"
                /\ UNCHANGED <<net, conn, startup_flag, data, got, csv, starts>>

ReadPid == /\ pc = "pid"
           /\ \/ Available(0) > 0 /\ pid' = conn /\ pc' = "flag"
                 /\ UNCHANGED <<net, conn, startup_flag, data, got, csv, starts>>
              \/ EndOfStream(0) /\ Hangup /\ UNCHANGED <<locals, csv>>

ReadFlag == /\ pc = "flag"
            /\ \/ Available(1) > 0 /\ startup_flag' = conn /\ got' = 0 /\ pc' = "data"
                  /\ UNCHANGED <<net, conn, pid, data, csv, starts>>
               \/ EndOfStream(1) /\ Hangup /\ UNCHANGED <<locals, csv>>

(* Mutant: a read that stops short is taken for a whole one.               *)
ReadDataShort ==
  /\ pc = "data"
  /\ \E n \in 1..Chunks :
       /\ n <= Available(2)
       /\ data' = [i \in 1..Chunks |-> IF i <= n THEN conn ELSE data[i]]
       /\ got' = n
  /\ pc' = "row"
  /\ UNCHANGED <<net, conn, pid, startup_flag, csv, starts>>

(* Mutant: every read asks for all of the window, not for the rest of it.  *)
ReadDataPastTheEnd ==
  /\ pc = "data" /\ got < Chunks
  /\ \E n \in 1..Chunks : n <= Available(2) /\ got' = got + n
  /\ data' = [i \in 1..Chunks |-> IF i > got THEN conn ELSE data[i]]
  /\ pc' = IF got' >= Chunks THEN "row" ELSE "data"
  /\ UNCHANGED <<net, conn, pid, startup_flag, csv, starts>>

ReadData == /\ pc = "data" /\ got < Chunks
            /\ \/ \E n \in 1..Chunks :
                    /\ n <= Available(2 + got)
                    /\ data' = [i \in 1..Chunks |->
                                  IF i \in got + 1..got + n THEN conn ELSE data[i]]
                    /\ got' = got + n
                    /\ pc' = IF got' = Chunks THEN "row" ELSE "data"
                    /\ UNCHANGED <<net, conn, pid, startup_flag, csv, starts>>
               \/ EndOfStream(2 + got) /\ Hangup /\ UNCHANGED <<locals, csv>>

WriteRow == /\ pc = "row"
            /\ csv' = Append(csv, Row)
            /\ Hangup
            /\ UNCHANGED locals

(* The script kills the recorder: every connection is gone.                *)
Kill == /\ pc # "dead"
        /\ pc' = "dead" /\ conn' = Nobody
        /\ client' = [c \in Clients |-> IF client[c] = "idle" THEN "idle" ELSE "closed"]
        /\ backlog' = <<>>
        /\ UNCHANGED <<sent, done, locals, csv, starts>>

Restart == /\ pc = "dead" /\ starts <= MaxRestarts
           /\ starts' = starts + 1
           /\ pc' = "open"
           /\ pid' = Nobody /\ startup_flag' = Nobody /\ got' = 0
           /\ data' = [i \in 1..Chunks |-> Nobody]
           /\ UNCHANGED <<net, conn, csv>>

Record == Open \/ Accept \/ ReadPid \/ ReadFlag \/ ReadData \/ WriteRow

Next == \/ \E c \in Clients : Connect(c) \/ Write(c) \/ Close(c) \/ Die(c)
        \/ Record \/ Kill \/ Restart

Spec == Init /\ [][Next]_vars

(* The recorder runs; a client that has connected writes on, closes or     *)
(* dies: nothing in it waits for anything but the recorder.                *)
FairSpec == /\ Spec /\ WF_vars(Record)
            /\ \A c \in Clients : WF_vars(Write(c) \/ Close(c))
-----------------------------------------------------------------------------
RowOf(c) == [kind |-> "row", pid |-> c, flag |-> c, data |-> [i \in 1..Chunks |-> c]]

TypeOK == /\ client \in [Clients -> {"idle", "queued", "open", "closed"}]
          /\ sent \in [Clients -> 0..Whole] /\ done \in [Clients -> BOOLEAN]
          /\ backlog \in Seq(Clients) /\ Len(backlog) <= Backlog
          /\ pc \in {"open", "accept", "pid", "flag", "data", "row", "dead"}
          /\ conn \in Clients \cup {Nobody} /\ got \in 0..Chunks
          /\ \A i \in 1..Len(csv) : csv[i] \in {Header} \cup {RowOf(c) : c \in Clients}

(* The file is one header and then rows, across kills and restarts; every  *)
(* row is the complete message of one client, never the head of one        *)
(* message with the rest of the one before it, and no client has two       *)
(* (monitor_receiver.c:62-80, 84-125).                                     *)
RowsAreWholeMessages ==
  \A i \in 1..Len(csv) :
     /\ (csv[i] = Header) <=> (i = 1)
     /\ i > 1 => \E c \in Clients : csv[i] = RowOf(c) /\ sent[c] = Whole
     /\ \A j \in 1..Len(csv) : csv[i] = csv[j] => i = j

(* A message that was sent in full is recorded, whatever the clients       *)
(* before it did, unless the recorder is killed.                           *)
MessagesAreRecorded ==
  \A c \in Clients : (client[c] = "queued" /\ starts = 1)
     ~> (\/ \E i \in 1..Len(csv) : csv[i] = RowOf(c)
         \/ done[c] /\ sent[c] < Whole
         \/ pc = "dead" \/ starts > 1)
=============================================================================
