-------------------------- MODULE FileTransferProofs ---------------------------
(***************************************************************************)
(* For any number of uploads and downloads, on any loops, of files of any  *)
(* size, and whatever a system call moves at a time: what the server lists *)
(* is whole, as long as the files keep still.  And of the connection that  *)
(* each transfer of a client has for itself (Connector).                   *)
(***************************************************************************)
EXTENDS FileTransfer, Connector, TLAPS

Core == TypeOK /\ Inductive

\* The size of a transfer is a number, and its ends are threads.
LEMMA Totals == \A t \in Transfer : Total(t) \in Nat
BY TransferAssumption DEF Total, Transfer

LEMMA Ends ==
    \A t \in Transfer : Sender(t) \in Thread /\ Receiver(t) \in Thread /\ NoTransfer # t
BY TransferAssumption DEF Sender, Receiver, Thread, Transfer

\* A step that moves nothing keeps the count.
LEMMA NothingMoves ==
    ASSUME Core, UNCHANGED <<file, offset, wire, written, stored, alien, fds>>,
           \A t \in Transfer : result'[t] \in {"listed", "placed"} =>
               result[t] \in {"listed", "placed"} \/ written[t] >= Total(t)
    PROVE  Counted'
<1> SUFFICES ASSUME \A u \in Upload : Steady(u)', NEW t \in Transfer
             PROVE  /\ (file[t] \in {Total(t), Missing})'
                    /\ (written[t] + wire[t] <= offset[t] /\ offset[t] <= Total(t))'
                    /\ (stored[t] = written[t] /\ alien[t] = 0)'
                    /\ (fds[t] = "closed" => written[t] = Total(t))'
                    /\ (result[t] \in {"listed", "placed"} => written[t] = Total(t))'
    BY DEF Counted
<1>1. Total(t)' = Total(t) BY DEF Total
<1>2. \A u \in Upload : Steady(u) BY DEF Steady, Total
<1>3. /\ written[t] \in Nat /\ wire[t] \in Nat /\ offset[t] \in Nat /\ Total(t) \in Nat
    BY Totals, TransferAssumption DEF Core, TypeOK
<1> QED BY <1>1, <1>2, <1>3 DEF Core, Inductive, Counted

\* Files that keep still until a step are those that keep still after it.
LEMMA StillSteady ==
    ASSUME Core, \A u \in Upload : Steady(u)',
           \A u \in Upload : file'[u] = file[u] \/ snd[u] = "none"
    PROVE  \A u \in Upload : Steady(u)
BY DEF Core, Inductive, Unsent, Steady, Total

LEMMA Initially == Init => Core
<1> SUFFICES ASSUME Init PROVE Core OBVIOUS
<1> USE TransferAssumption DEF Init
<1>1. TypeOK BY Totals DEF TypeOK
<1>2. Unsent /\ Opened BY DEF Unsent, Opened, Steady, Transfer
<1>3. Counted BY Totals DEF Counted
<1> QED BY <1>1, <1>2, <1>3 DEF Core, Inductive

\* A receiver opens its descriptors (FtpServer::onMessage, FtpClient::onConnection).
LEMMA OpenKeeps ==
    ASSUME Core, NEW t \in Transfer, Open(t),
           stage' \in [Transfer -> {"new", "asked", "acked", "begun"}],
           \A u \in Transfer : stage'[u] = "acked" => stage[u] = "acked" \/ u \in Upload,
           UNCHANGED <<sendVars, wire, cut, busy, result>>
    PROVE  Core'
<1> USE DEF Core, Inductive, Open, sendVars
<1>1. TypeOK'
    <2>1. heir' \in [Transfer -> Transfer \cup {NoTransfer}]
        BY DEF TypeOK
    <2>2. /\ fds' \in [Transfer -> {"none", "open", "closed"}]
          /\ rcv' \in [Transfer -> {"none", "ready", "reading", "closing", "shut", "naming",
                                    "down"}]
        BY DEF TypeOK
    <2> QED BY <2>1, <2>2 DEF TypeOK
<1>2. Unsent' BY DEF Unsent, Steady, Total
<1>3. Opened' BY DEF Opened, TypeOK
<1>4. Counted'
    <2> SUFFICES ASSUME \A u \in Upload : Steady(u)', NEW v \in Transfer
                 PROVE  /\ (file[v] \in {Total(v), Missing})'
                        /\ (written[v] + wire[v] <= offset[v] /\ offset[v] <= Total(v))'
                        /\ (stored[v] = written[v] /\ alien[v] = 0)'
                        /\ (fds[v] = "closed" => written[v] = Total(v))'
                        /\ (result[v] \in {"listed", "placed"} => written[v] = Total(v))'
        BY DEF Counted
    <2>1. Total(v)' = Total(v) BY DEF Total
    <2>2. \A u \in Upload : Steady(u) BY DEF Steady, Total
    <2>3. fds'[v] = "closed" => fds[v] = "closed" BY DEF TypeOK
    <2> QED BY <2>1, <2>2, <2>3 DEF Counted
<1> QED BY <1>1, <1>2, <1>3, <1>4

LEMMA SendInfoKeeps ==
    ASSUME Core, NEW t \in Transfer, SendInfo(t) PROVE Core'
<1>1. /\ stage' \in [Transfer -> {"new", "asked", "acked", "begun"}]
      /\ \A u \in Transfer : stage'[u] = "acked" => stage[u] = "acked"
    BY DEF SendInfo, Core, TypeOK
<1>2. CASE t \in Download BY <1>1, <1>2, OpenKeeps DEF SendInfo
<1>3. CASE t \notin Download
    <2> USE <1>3 DEF SendInfo, Core, Inductive, sendVars, recvVars
    <2>1. TypeOK' BY <1>1 DEF TypeOK
    <2>2. Unsent' /\ Opened' BY <1>1 DEF Unsent, Opened, Steady, Total
    <2>3. Counted' BY NothingMoves
    <2> QED BY <2>1, <2>2, <2>3
<1> QED BY <1>2, <1>3

LEMMA OnUploadKeeps ==
    ASSUME Core, NEW t \in Transfer, OnUpload(t) PROVE Core'
<1>1. /\ stage' \in [Transfer -> {"new", "asked", "acked", "begun"}]
      /\ \A u \in Transfer : stage'[u] = "acked" => stage[u] = "acked" \/ u \in Upload
    BY DEF OnUpload, Core, TypeOK
<1> QED BY <1>1, OpenKeeps DEF OnUpload

\* A handler that begins or ends sending leaves the rest of the type alone.
LEMMA BusyType ==
    ASSUME Core, NEW t \in Transfer,
           Enter(Sender(t), t) \/ Leave(Sender(t)) \/ Enter(Receiver(t), t) \/ Leave(Receiver(t))
    PROVE  busy' \in [Thread -> Transfer \cup {NoTransfer}]
BY Ends DEF Enter, Leave, Core, TypeOK

\* The sender opens the file: of a download, what the server has listed.
LEMMA SendFileKeeps ==
    ASSUME Core, NEW t \in Transfer, NEW n \in Nat \cup {Missing}, SendFile(t),
           file' = [file EXCEPT ![t] = n],
           \/ t \in Upload /\ snd[t] = "none"
           \/ t \in Download /\ (Counted /\ (\A u \in Upload : Steady(u)) => n \in {Total(t), Missing}),
           stage' \in [Transfer -> {"new", "asked", "acked", "begun"}],
           \A u \in Transfer : stage'[u] = "acked" => stage[u] = "acked" \/ u \in Upload,
           UNCHANGED <<offset, fin, wire, cut, recvVars, result>>
    PROVE  Core'
<1> USE TransferAssumption DEF Core, Inductive, recvVars, Transfer
<1>1. TypeOK'
    <2>1. busy' \in [Thread -> Transfer \cup {NoTransfer}] BY BusyType DEF SendFile
    <2>2. snd' \in [Transfer -> {"none", "sending", "waiting", "failed", "done", "down"}]
        BY DEF SendFile, TypeOK
    <2>3. file' \in [Transfer -> Nat \cup {Missing}] BY DEF TypeOK
    <2> QED BY <2>1, <2>2, <2>3 DEF TypeOK
<1>2. \A u \in Transfer : u # t => file'[u] = file[u] /\ snd'[u] = snd[u]
    BY DEF SendFile, TypeOK
<1>3. snd'[t] = "sending" /\ file'[t] = n BY DEF SendFile, TypeOK
<1>4. Unsent' BY <1>2, <1>3 DEF Unsent, Steady, Total
<1>5. Opened' BY DEF Opened
<1>6. Counted'
    <2> SUFFICES ASSUME \A u \in Upload : Steady(u)', NEW v \in Transfer
                 PROVE  /\ (file[v] \in {Total(v), Missing})'
                        /\ (written[v] + wire[v] <= offset[v] /\ offset[v] <= Total(v))'
                        /\ (stored[v] = written[v] /\ alien[v] = 0)'
                        /\ (fds[v] = "closed" => written[v] = Total(v))'
                        /\ (result[v] \in {"listed", "placed"} => written[v] = Total(v))'
        BY DEF Counted
    <2>1. \A u \in Upload : file'[u] = file[u] \/ snd[u] = "none" BY <1>2
    <2>2. \A u \in Upload : Steady(u) BY <2>1, StillSteady
    <2>3. Total(v)' = Total(v) BY DEF Total
    <2>4. file'[v] \in {Total(v), Missing}
        <3>1. CASE v # t BY <1>2, <2>2, <3>1 DEF Counted
        <3>2. CASE v = t /\ t \in Upload BY <3>2 DEF Steady, Total
        <3>3. CASE v = t /\ t \in Download BY <1>3, <2>2, <3>3
        <3> QED BY <3>1, <3>2, <3>3
    <2> QED BY <2>2, <2>3, <2>4 DEF Counted
<1> QED BY <1>1, <1>4, <1>5, <1>6

LEMMA OnAckKeeps ==
    ASSUME Core, NEW t \in Transfer, OnAck(t) PROVE Core'
<1>1. PICK n \in {Total(t)} \cup (IF t \in Change
                                  THEN {Total(t) + 1, Total(t) - 1} \cap Nat ELSE {}) :
          file' = [file EXCEPT ![t] = n]
    BY DEF OnAck
<1>2. n \in Nat BY Totals
<1>3. /\ stage' \in [Transfer -> {"new", "asked", "acked", "begun"}]
      /\ \A u \in Transfer : stage'[u] = "acked" => stage[u] = "acked"
    BY DEF OnAck, Core, TypeOK
<1>4. t \in Upload BY DEF OnAck, Core, Inductive, Unsent
<1> QED BY <1>1, <1>2, <1>3, <1>4, SendFileKeeps DEF OnAck

LEMMA OnDownloadKeeps ==
    ASSUME Core, NEW t \in Transfer, OnDownload(t) PROVE Core'
<1> DEFINE u == Of[t]
           n == IF result[u] = "placed" THEN stored[u] + alien[u] ELSE Missing
<1>1. u \in Upload /\ u \in Transfer /\ t \in Download
    BY TransferAssumption DEF OnDownload, Transfer
<1>2. n \in Nat \cup {Missing} BY <1>1 DEF Core, TypeOK
<1>3. /\ stage' \in [Transfer -> {"new", "asked", "acked", "begun"}]
      /\ \A v \in Transfer : stage'[v] = "acked" => stage[v] = "acked"
    BY DEF OnDownload, Core, TypeOK
<1>4. Total(t) = Total(u) BY <1>1, TransferAssumption DEF Total
<1>5. ASSUME Counted, \A v \in Upload : Steady(v) PROVE n \in {Total(t), Missing}
    <2>1. CASE result[u] = "placed"
        <3>1. stored[u] = Total(u) /\ alien[u] = 0 BY <1>1, <1>5, <2>1 DEF Counted
        <3>2. Total(u) \in Nat BY <1>1, Totals
        <3> QED BY <1>4, <2>1, <3>1, <3>2
    <2> QED BY <2>1
<1>6. file' = [file EXCEPT ![t] = n] BY DEF OnDownload
<1> HIDE DEF n
<1> QED BY <1>1, <1>2, <1>3, <1>5, <1>6, SendFileKeeps DEF OnDownload

\* sendFileChunk (Sendfile.h:29-73).
LEMMA SendfileKeeps ==
    ASSUME Core, NEW t \in Transfer, Sendfile(t) PROVE Core'
<1> USE TransferAssumption DEF Core, Inductive, recvVars
<1>1. PICK n \in 1 .. Smallest(SendUnit, Room) :
          /\ n <= file[t] - offset[t] /\ n <= Room - wire[t]
          /\ offset' = [offset EXCEPT ![t] = @ + n]
          /\ wire' = [wire EXCEPT ![t] = @ + n]
    BY DEF Sendfile
<1>2. n \in Nat /\ wire[t] \in 0 .. Room /\ offset[t] \in Nat
    BY DEF Smallest, TypeOK
<1>3. /\ wire[t] + n \in 0 .. Room /\ offset[t] + n \in Nat
    BY <1>1, <1>2
<1>4. TypeOK' BY <1>1, <1>3 DEF Sendfile, TypeOK
<1>5. Unsent' /\ Opened' BY DEF Sendfile, Unsent, Opened, Steady, Total
<1>6. Counted'
    <2> SUFFICES ASSUME \A u \in Upload : Steady(u)', NEW v \in Transfer
                 PROVE  /\ (file[v] \in {Total(v), Missing})'
                        /\ (written[v] + wire[v] <= offset[v] /\ offset[v] <= Total(v))'
                        /\ (stored[v] = written[v] /\ alien[v] = 0)'
                        /\ (fds[v] = "closed" => written[v] = Total(v))'
                        /\ (result[v] \in {"listed", "placed"} => written[v] = Total(v))'
        BY DEF Counted
    <2>1. Total(v)' = Total(v) /\ \A u \in Upload : Steady(u)
        BY DEF Sendfile, Steady, Total
    <2>2. CASE v # t
        <3>1. wire'[v] = wire[v] /\ offset'[v] = offset[v] BY <1>1, <2>2 DEF TypeOK
        <3> QED BY <2>1, <3>1 DEF Sendfile, Counted
    <2>3. CASE v = t
        <3>1. wire'[t] = wire[t] + n /\ offset'[t] = offset[t] + n BY <1>1 DEF TypeOK
        <3>2. /\ file[t] \in {Total(t), Missing} /\ written[t] + wire[t] <= offset[t]
              /\ stored[t] = written[t] /\ alien[t] = 0
              /\ fds[t] = "closed" => written[t] = Total(t)
              /\ result[t] \in {"listed", "placed"} => written[t] = Total(t)
            BY <2>1 DEF Counted
        <3>3. written[t] \in Nat /\ Total(t) \in Nat BY Totals DEF TypeOK
        <3>4. offset[t] + n <= Total(t) BY <1>1, <1>2, <3>2, <3>3 DEF Missing
        <3>5. written[t] + (wire[t] + n) <= offset[t] + n BY <1>2, <3>2, <3>3
        <3> QED BY <2>1, <2>3, <3>1, <3>2, <3>4, <3>5 DEF Sendfile
    <2> QED BY <2>2, <2>3
<1> QED BY <1>4, <1>5, <1>6

\* The steps of a sender that move nothing.
LEMMA SenderRestKeeps ==
    ASSUME Core, NEW t \in Transfer,
           SendAgain(t) \/ SendError(t) \/ SendEnd(t) \/ HandleWrite(t) \/ SenderDown(t)
    PROVE  Core'
<1> USE DEF SendAgain, SendError, SendEnd, HandleWrite, SenderDown, Core, Inductive, recvVars
<1>1. busy' \in [Thread -> Transfer \cup {NoTransfer}] BY BusyType DEF TypeOK
<1>2. /\ UNCHANGED <<stage, file, offset, wire, cut, recvVars, result>>
      /\ fin' = fin \/ fin' = [fin EXCEPT ![t] = TRUE]
      /\ \E p \in {"sending", "waiting", "failed", "done", "down"} : snd' = [snd EXCEPT ![t] = p]
    OBVIOUS
<1>3. TypeOK'
    <2>1. fin' \in [Transfer -> BOOLEAN] BY <1>2 DEF TypeOK
    <2>2. snd' \in [Transfer -> {"none", "sending", "waiting", "failed", "done", "down"}]
        BY <1>2 DEF TypeOK
    <2> QED BY <1>1, <1>2, <2>1, <2>2 DEF TypeOK
<1>4. Unsent'
    <2>1. \A u \in Upload : snd'[u] = "none" => snd[u] = "none"
        BY <1>2 DEF TypeOK, Transfer
    <2> QED BY <1>2, <2>1 DEF Unsent, Steady, Total
<1>5. Opened' BY <1>2 DEF Opened
<1>6. Counted' BY <1>2, NothingMoves
<1> QED BY <1>3, <1>4, <1>5, <1>6

\* The steps of a receiver that move nothing and list nothing.
LEMMA ReceiverRestKeeps ==
    ASSUME Core, NEW t \in Transfer,
           \/ HandleRead(t) \/ RecvAgain(t) \/ RecvClosed(t) \/ ForceCloseInLoop(t)
           \/ EarlyDown(t)
    PROVE  Core'
<1> USE DEF HandleRead, RecvAgain, RecvClosed, ForceCloseInLoop, EarlyDown, Core, Inductive,
            sendVars, recvVars
<1>1. busy' \in [Thread -> Transfer \cup {NoTransfer}] BY BusyType DEF TypeOK
<1>2. /\ UNCHANGED <<stage, sendVars, wire, cut, written, stored, alien, fds, heir, result>>
      /\ \E p \in {"ready", "reading", "closing", "shut", "down"} :
            /\ rcv' = [rcv EXCEPT ![t] = p]
            /\ p \in {"ready", "reading"} => rcv[t] \in {"ready", "reading"}
    BY DEF Receiving
<1>3. TypeOK' BY <1>1, <1>2 DEF TypeOK
<1>4. Unsent' BY <1>2 DEF Unsent, Steady, Total
<1>5. Opened' BY <1>2 DEF Opened, TypeOK
<1>6. Counted' BY <1>2, NothingMoves
<1> QED BY <1>3, <1>4, <1>5, <1>6

\* recvFileData (Sendfile.h:84-125): a receiver that has closed its descriptors has had
\* all there is, as long as the files keep still.
LEMMA SpliceKeeps ==
    ASSUME Core, NEW t \in Transfer, Splice(t) PROVE Core'
<1> USE TransferAssumption DEF Core, Inductive, sendVars
<1> DEFINE u == Target(t)
<1>1. PICK n \in 1 .. Unit :
          /\ n <= wire[t]
          /\ wire' = [wire EXCEPT ![t] = @ - n]
          /\ written' = [written EXCEPT ![t] = @ + n]
          /\ IF u = t THEN stored' = [stored EXCEPT ![t] = @ + n] /\ UNCHANGED alien
             ELSE alien' = [alien EXCEPT ![u] = @ + n] /\ UNCHANGED stored
          /\ fds' = IF written'[t] >= Total(t) THEN [fds EXCEPT ![u] = "closed"] ELSE fds
    BY DEF Splice
<1>2. n \in Nat /\ n > 0 /\ wire[t] \in 0 .. Room /\ written[t] \in Nat /\ Total(t) \in Nat
    BY Totals DEF TypeOK
<1>3. u \in Transfer BY DEF Splice, Usable, Target, TypeOK
<1>4. stored[u] \in Nat /\ alien[u] \in Nat BY <1>3 DEF TypeOK
<1>5. TypeOK'
    <2>1. wire[t] - n \in 0 .. Room /\ written[t] + n \in Nat BY <1>1, <1>2
    <2>2. /\ wire' \in [Transfer -> 0 .. Room] /\ written' \in [Transfer -> Nat]
        BY <1>1, <2>1 DEF TypeOK
    <2>3. stored' \in [Transfer -> Nat] /\ alien' \in [Transfer -> Nat]
        BY <1>1, <1>2, <1>3, <1>4 DEF TypeOK
    <2>4. fds' \in [Transfer -> {"none", "open", "closed"}]
        BY <1>1, <1>3 DEF TypeOK
    <2> HIDE DEF u
    <2> QED BY <2>2, <2>3, <2>4 DEF Splice, TypeOK
<1>6. Unsent' BY DEF Splice, Unsent, Steady, Total
<1>7. Opened'
    <2>1. \A v \in Transfer : fds[v] # "none" => fds'[v] # "none"
        BY <1>1, <1>3 DEF TypeOK
    <2> HIDE DEF u
    <2> QED BY <2>1 DEF Splice, Opened
<1>8. Counted'
    <2> SUFFICES ASSUME \A v \in Upload : Steady(v)', NEW v \in Transfer
                 PROVE  /\ (file[v] \in {Total(v), Missing})'
                        /\ (written[v] + wire[v] <= offset[v] /\ offset[v] <= Total(v))'
                        /\ (stored[v] = written[v] /\ alien[v] = 0)'
                        /\ (fds[v] = "closed" => written[v] = Total(v))'
                        /\ (result[v] \in {"listed", "placed"} => written[v] = Total(v))'
        BY DEF Counted
    <2>1. \A x \in Upload : Steady(x) BY DEF Splice, Steady, Total
    <2>2. /\ file[t] \in {Total(t), Missing} /\ written[t] + wire[t] <= offset[t]
          /\ offset[t] <= Total(t)
          /\ stored[t] = written[t] /\ alien[t] = 0
          /\ fds[t] = "closed" => written[t] = Total(t)
          /\ result[t] \in {"listed", "placed"} => written[t] = Total(t)
        BY <2>1 DEF Counted
    <2>3. offset[t] \in Nat /\ written[t] + n <= Total(t) /\ written[t] < Total(t)
        <3>1. offset[t] \in Nat BY DEF TypeOK
        <3> QED BY <1>1, <1>2, <2>2, <3>1
    <2>4. fds[t] = "open" /\ u = t
        <3>1. fds[t] \in {"open", "closed"} BY DEF Splice, Receiving, Opened, TypeOK
        <3>2. fds[t] # "closed" BY <1>2, <2>2, <2>3
        <3> QED BY <3>1, <3>2 DEF Target
    <2>5. /\ UNCHANGED <<file, offset, result>> /\ Total(v)' = Total(v)
        BY DEF Splice, Total
    <2> HIDE DEF u
    <2>6. CASE v # t
        <3>1. /\ wire'[v] = wire[v] /\ written'[v] = written[v] /\ stored'[v] = stored[v]
              /\ alien'[v] = alien[v] /\ fds'[v] = fds[v]
            BY <1>1, <2>4, <2>6 DEF TypeOK
        <3> QED BY <2>1, <2>5, <3>1 DEF Counted
    <2>7. CASE v = t
        <3>1. /\ wire'[t] = wire[t] - n /\ written'[t] = written[t] + n
              /\ stored'[t] = stored[t] + n /\ alien'[t] = alien[t]
            BY <1>1, <2>4 DEF TypeOK
        <3>2. fds'[t] = "closed" => written'[t] >= Total(t)
            BY <1>1, <2>4
        <3>3. written'[t] + wire'[t] <= offset[t] BY <1>1, <1>2, <2>2, <2>3, <3>1
        <3>4. fds'[t] = "closed" => written'[t] = Total(t)
            BY <1>2, <2>3, <3>1, <3>2
        <3>5. result[t] \notin {"listed", "placed"} BY <1>2, <2>2, <2>3
        <3> QED BY <2>2, <2>5, <2>7, <3>1, <3>3, <3>4, <3>5
    <2> QED BY <2>6, <2>7
<1> QED BY <1>5, <1>6, <1>7, <1>8

\* FtpServer::onConnection lists what is whole by its count.
LEMMA ReceiverDownKeeps ==
    ASSUME Core, NEW t \in Transfer, ReceiverDown(t) PROVE Core'
<1> USE DEF ReceiverDown, Core, Inductive, sendVars
<1>1. busy' \in [Thread -> Transfer \cup {NoTransfer}] BY BusyType DEF TypeOK
<1>2. /\ rcv' \in [Transfer -> {"none", "ready", "reading", "closing", "shut", "naming",
                                "down"}]
      /\ result' \in [Transfer -> {"none", "listed", "placed", "removed"}]
    BY DEF TypeOK
<1>3. TypeOK' BY <1>1, <1>2 DEF TypeOK
<1>4. Unsent' BY DEF Unsent, Steady, Total
<1>5. Opened' BY DEF Opened, TypeOK
<1>6. Counted'
    <2>1. ASSUME NEW v \in Transfer, result'[v] \in {"listed", "placed"}
          PROVE  result[v] \in {"listed", "placed"} \/ written[v] >= Total(v)
        BY <2>1 DEF TypeOK
    <2> QED BY <2>1, NothingMoves
<1> QED BY <1>3, <1>4, <1>5, <1>6

LEMMA RenameKeeps ==
    ASSUME Core, NEW t \in Transfer, Rename(t) PROVE Core'
<1> USE DEF Rename, Core, Inductive, sendVars
<1>1. busy' \in [Thread -> Transfer \cup {NoTransfer}] BY BusyType DEF TypeOK
<1>2. TypeOK' BY <1>1 DEF TypeOK
<1>3. Unsent' BY DEF Unsent, Steady, Total
<1>4. Opened' BY DEF Opened, TypeOK
<1>5. Counted'
    <2>1. ASSUME NEW v \in Transfer, result'[v] \in {"listed", "placed"}
          PROVE  result[v] \in {"listed", "placed"}
        BY <2>1 DEF Opened, TypeOK
    <2> QED BY <2>1, NothingMoves
<1> QED BY <1>2, <1>3, <1>4, <1>5

\* A reset takes away what is on the way.
LEMMA CutKeeps ==
    ASSUME Core, NEW t \in Transfer, Cut(t) PROVE Core'
<1> USE TransferAssumption DEF Cut, Core, Inductive, sendVars, recvVars
<1>1. PICK n \in 0 .. wire[t] : wire' = [wire EXCEPT ![t] = n] OBVIOUS
<1>2. wire[t] \in 0 .. Room /\ n \in 0 .. Room /\ n <= wire[t] BY DEF TypeOK
<1>3. TypeOK' BY <1>1, <1>2 DEF TypeOK
<1>4. Unsent' /\ Opened' BY DEF Unsent, Opened, Steady, Total
<1>5. Counted'
    <2> SUFFICES ASSUME \A u \in Upload : Steady(u)', NEW v \in Transfer
                 PROVE  /\ (file[v] \in {Total(v), Missing})'
                        /\ (written[v] + wire[v] <= offset[v] /\ offset[v] <= Total(v))'
                        /\ (stored[v] = written[v] /\ alien[v] = 0)'
                        /\ (fds[v] = "closed" => written[v] = Total(v))'
                        /\ (result[v] \in {"listed", "placed"} => written[v] = Total(v))'
        BY DEF Counted
    <2>1. Total(v)' = Total(v) /\ \A u \in Upload : Steady(u) BY DEF Steady, Total
    <2>2. wire'[v] \in Nat /\ wire'[v] <= wire[v] /\ wire[v] \in Nat
        BY <1>1, <1>2 DEF TypeOK
    <2>3. written[v] \in Nat /\ offset[v] \in Nat /\ written[v] + wire[v] <= offset[v]
        BY <2>1 DEF TypeOK, Counted
    <2>4. written[v] + wire'[v] <= offset[v] BY <2>2, <2>3
    <2> QED BY <2>1, <2>4 DEF Counted
<1> QED BY <1>3, <1>4, <1>5

LEMMA StepKeeps == Core /\ [Next]_vars => Core'
<1> SUFFICES ASSUME Core, [Next]_vars PROVE Core' OBVIOUS
<1>1. ASSUME NEW t \in Transfer, SendInfo(t) PROVE Core' BY <1>1, SendInfoKeeps
<1>2. ASSUME NEW t \in Transfer, SenderStep(t) PROVE Core'
    BY <1>2, OnAckKeeps, OnDownloadKeeps, SendfileKeeps, SenderRestKeeps DEF SenderStep
<1>3. ASSUME NEW t \in Transfer, Spin(t) \/ UNCHANGED vars PROVE Core'
    BY <1>3 DEF Spin, vars, Core, Inductive, TypeOK, Unsent, Opened, Counted, Steady, Total
<1>4. ASSUME NEW t \in Transfer, ReceiverStep(t) PROVE Core'
    BY <1>3, <1>4, OnUploadKeeps, ReceiverRestKeeps, SpliceKeeps, ReceiverDownKeeps, RenameKeeps
        DEF ReceiverStep
<1>5. ASSUME NEW t \in Transfer, Cut(t) PROVE Core' BY <1>5, CutKeeps
<1>6. ASSUME UNCHANGED vars PROVE Core'
    BY <1>6 DEF vars, Core, Inductive, TypeOK, Unsent, Opened, Counted, Steady, Total
<1> QED BY <1>1, <1>2, <1>4, <1>5, <1>6 DEF Next

\* What is counted is whole.
LEMMA CoreIsWhole == Core => TransferInv
<1> SUFFICES ASSUME Core PROVE Whole BY DEF Core, TransferInv
<1> SUFFICES ASSUME NEW t \in Transfer, \A u \in Upload : Steady(u),
                    \/ result[t] \in {"listed", "placed"}
                    \/ written[t] >= Total(t)
                    \/ fds[t] = "closed"
             PROVE  stored[t] = Total(t) /\ alien[t] = 0
    BY DEF Whole
<1>1. /\ written[t] \in Nat /\ wire[t] \in Nat /\ offset[t] \in Nat /\ Total(t) \in Nat
    BY Totals, TransferAssumption DEF Core, TypeOK
<1>2. /\ written[t] + wire[t] <= offset[t] /\ offset[t] <= Total(t)
      /\ stored[t] = written[t] /\ alien[t] = 0
      /\ fds[t] = "closed" => written[t] = Total(t)
      /\ result[t] \in {"listed", "placed"} => written[t] = Total(t)
    BY DEF Core, Inductive, Counted
<1> QED BY <1>1, <1>2

\* The server lists an upload only when it has the whole file and nothing else, and a
\* download that has brought its size is the file, for all sizes, loops and system calls.
THEOREM FilesAreWhole == Spec => []TransferInv
<1>1. Spec => []Core BY Initially, StepKeeps, PTL DEF Spec
<1> QED BY <1>1, CoreIsWhole, PTL
-----------------------------------------------------------------------------
(***************************************************************************)
(* For every initial and every longest delay: a Connector that has been    *)
(* started has exactly one attempt, or one timer, or its connection, and   *)
(* destroys no Channel that is still in use.                               *)
(***************************************************************************)


\* The list of timers, when it has at most one.
LEMMA AtMostOne ==
    ASSUME NEW s \in Seq(Nat), Len(s) <= 1
    PROVE  s # <<>> => Head(s) \in Nat /\ Tail(s) = <<>>
OBVIOUS

LEMMA AppendToNone ==
    ASSUME NEW d \in Nat
    PROVE  /\ Append(<<>>, d) \in Seq(Nat) /\ Len(Append(<<>>, d)) = 1
           /\ Append(<<>>, d) # <<>>
OBVIOUS

LEMMA ConnectorInitially == ConnectorInit => ConnectorInv
<1> SUFFICES ASSUME ConnectorInit PROVE ConnectorInv OBVIOUS
<1> USE DEF ConnectorInit
<1>1. ConnectorTypeOK
    <2>1. retries \in Seq(Nat) OBVIOUS
    <2>2. delay \in Nat /\ InitDelay <= delay /\ delay <= MaxDelay BY DelayAssumption
    <2>3. sockets \in Nat /\ resets \in Nat OBVIOUS
    <2>4. revents \in {{}, {"out"}, {"err", "out"}} OBVIOUS
    <2>5. active \in BOOLEAN /\ listening \in BOOLEAN /\ gaveUp \in BOOLEAN /\ wild \in BOOLEAN
        BY Zenon
    <2>6. /\ owner \in {"neter", "transfer", "queued", "looping", "waiting", "connected"}
          /\ state \in {"disconnected", "connecting", "connected"}
          /\ channel \in {"none", "added", "removed"}
          /\ sock \in {"none", "trying", "up", "failed", "self"}
          /\ pc \in {"poll", "events", "functors", "exited"}
          /\ conn \in {"none", "up", "removed", "down"}
        OBVIOUS
    <2> QED BY <2>1, <2>2, <2>3, <2>4, <2>5, <2>6, Zenon DEF ConnectorTypeOK
<1>2. OneAttempt BY DEF OneAttempt, Started
<1>3. ChannelOutlives BY DEF ChannelOutlives
<1>4. Passes BY DEF Passes, Started
<1> QED BY <1>1, <1>2, <1>3, <1>4 DEF ConnectorInv

\* What startInLoop leaves (Connector.cc:34-117): an attempt, a timer, or an error.
OneOf ==
    \/ /\ channel' = "added" /\ sock' = "trying" /\ sockets' = 1
       /\ state' = "connecting" /\ retries' = <<>> /\ delay' = delay
       /\ gaveUp' = FALSE /\ wild' = FALSE
    \/ /\ channel' = channel /\ sock' = sock /\ sockets' = 0
       /\ state' = "disconnected" /\ retries' \in Seq(Nat) /\ Len(retries') = 1
       /\ retries' # <<>>
       /\ delay' \in Nat /\ InitDelay <= delay' /\ delay' <= MaxDelay
       /\ gaveUp' = FALSE /\ wild' = FALSE
    \/ /\ gaveUp' = TRUE /\ retries' = <<>>
       /\ UNCHANGED <<state, delay, channel, sock, sockets, wild>>

LEMMA StartsOne ==
    ASSUME ConnectorInv, StartInLoop(<<>>), channel # "added", gaveUp = FALSE, revents = {}
    PROVE  OneOf
<1> USE DEF ConnectorInv, ConnectorTypeOK, OneAttempt, ChannelOutlives, OneOf
<1>1. CASE Connecting /\ retries' = <<>>
    BY <1>1 DEF Connecting, Destroyed
<1>2. CASE ~listening /\ Retry(<<>>, sockets) /\ UNCHANGED <<channel, sock, gaveUp, wild>>
    <2>1. retries' \in Seq(Nat) /\ Len(retries') = 1 /\ retries' # <<>>
        BY <1>2, AppendToNone DEF Retry
    <2>2. delay' \in Nat /\ InitDelay <= delay' /\ delay' <= MaxDelay
        BY <1>2, DelayAssumption DEF Retry, Sooner
    <2> QED BY <1>2, <2>1, <2>2 DEF Retry
<1>3. CASE gaveUp' = TRUE /\ retries' = <<>>
             /\ UNCHANGED <<state, delay, channel, sock, sockets, wild>>
    BY <1>3
<1> QED BY <1>1, <1>2, <1>3 DEF StartInLoop

\* A step that starts the connector, or that goes on when its timer has run, keeps the
\* invariant: there was nothing before, and there is one of the three now.
LEMMA StartKeeps ==
    ASSUME ConnectorInv, OneOf,
           channel # "added", conn = "none", gaveUp = FALSE, revents = {}, resets = 0,
           owner' \in {"looping", "waiting", "connected"},
           UNCHANGED <<resets, pc, revents, conn, listening>>,
           active' = FALSE
    PROVE  ConnectorInv'
<1> USE DEF ConnectorInv, OneOf
<1>1. ConnectorTypeOK'
    <2>1. retries' \in Seq(Nat)
        <3>1. retries' = <<>> \/ retries' \in Seq(Nat) BY Zenon
        <3>2. <<>> \in Seq(Nat) OBVIOUS
        <3> QED BY <3>1, <3>2, Zenon
    <2>2. delay' \in Nat /\ InitDelay <= delay' /\ delay' <= MaxDelay BY DEF ConnectorTypeOK
    <2>3. sockets' \in Nat /\ resets' \in Nat BY DEF ConnectorTypeOK
    <2>4. revents' \in {{}, {"out"}, {"err", "out"}} OBVIOUS
    <2>5. active' \in BOOLEAN /\ listening' \in BOOLEAN /\ gaveUp' \in BOOLEAN
             /\ wild' \in BOOLEAN
        BY Zenon DEF ConnectorTypeOK
    <2>6. /\ state' \in {"disconnected", "connecting", "connected"}
          /\ channel' \in {"none", "added", "removed"}
          /\ sock' \in {"none", "trying", "up", "failed", "self"}
        <3> USE DEF ConnectorTypeOK
        <3>1. state' \in {"connecting", "disconnected", state} BY Zenon
        <3>2. channel' \in {"added", channel} BY Zenon
        <3>3. sock' \in {"trying", sock} BY Zenon
        <3> QED BY <3>1, <3>2, <3>3
    <2>7. /\ owner' \in {"neter", "transfer", "queued", "looping", "waiting", "connected"}
          /\ pc' \in {"poll", "events", "functors", "exited"}
          /\ conn' \in {"none", "up", "removed", "down"}
        <3>1. pc' = pc /\ conn' = conn OBVIOUS
        <3> QED BY <3>1 DEF ConnectorTypeOK
    <2> HIDE DEF ConnectorInv, OneOf
    <2> QED BY <2>1, <2>2, <2>3, <2>4, <2>5, <2>6, <2>7, Zenon DEF ConnectorTypeOK
<1>2. OneAttempt'
    <2>1. Started' /\ conn' = "none" BY DEF Started
    <2>2. sockets = 0 BY DEF OneAttempt
    <2>3. CASE /\ channel' = "added" /\ sockets' = 1 /\ retries' = <<>> /\ gaveUp' = FALSE
        BY <2>1, <2>3 DEF OneAttempt
    <2>4. CASE /\ channel' = channel /\ sockets' = 0 /\ Len(retries') = 1 /\ retries' # <<>>
               /\ gaveUp' = FALSE
        BY <2>1, <2>4 DEF OneAttempt
    <2>5. CASE /\ channel' = channel /\ sockets' = 0 /\ retries' = <<>> /\ gaveUp' = TRUE
        BY <2>1, <2>5 DEF OneAttempt
    <2> QED BY <2>2, <2>3, <2>4, <2>5
<1>3. ChannelOutlives' BY DEF ChannelOutlives
<1>4. Passes'
    <2>1. Started' BY DEF Started
    <2>2. channel = "none" /\ sock = "none" BY DEF Passes, ConnectorTypeOK
    <2>3. resets' = 0 /\ revents' = {} /\ active' = FALSE OBVIOUS
    <2>4. CASE channel' = "added" /\ sock' = "trying" /\ state' = "connecting"
        BY <2>1, <2>3, <2>4 DEF Passes
    <2>5. CASE channel' = "none" /\ sock' = "none"
        BY <2>1, <2>3, <2>5 DEF Passes
    <2> QED BY <2>2, <2>4, <2>5
<1> QED BY <1>1, <1>2, <1>3, <1>4

LEMMA ConnectTransferKeeps == ConnectorInv /\ ConnectTransfer => ConnectorInv'
<1> SUFFICES ASSUME ConnectorInv, ConnectTransfer PROVE ConnectorInv' OBVIOUS
<1>1. ~Started BY DEF ConnectTransfer, Started
<1>2. /\ channel # "added" /\ conn = "none" /\ retries = <<>> /\ resets = 0
      /\ revents = {} /\ active = FALSE
    BY <1>1 DEF ConnectorInv, ConnectorTypeOK, OneAttempt, Passes, Expired
<1>3. gaveUp = FALSE BY <1>1 DEF ConnectorInv, ConnectorTypeOK, Passes
<1>4. OneOf BY <1>2, <1>3, StartsOne DEF ConnectTransfer
<1> QED BY <1>2, <1>3, <1>4, StartKeeps DEF ConnectTransfer

LEMMA StartFunctorKeeps == ConnectorInv /\ StartFunctor => ConnectorInv'
<1> SUFFICES ASSUME ConnectorInv, StartFunctor PROVE ConnectorInv' OBVIOUS
<1>1. ~Started BY DEF StartFunctor, Started
<1>2. /\ channel # "added" /\ conn = "none" /\ retries = <<>> /\ resets = 0
      /\ revents = {} /\ active = FALSE
    BY <1>1 DEF ConnectorInv, ConnectorTypeOK, OneAttempt, Passes, Expired
<1>3. gaveUp = FALSE BY <1>1 DEF ConnectorInv, ConnectorTypeOK, Passes
<1>4. OneOf BY <1>2, <1>3, StartsOne DEF StartFunctor
<1> QED BY <1>2, <1>3, <1>4, StartKeeps DEF StartFunctor

LEMMA RetryTimerKeeps == ConnectorInv /\ RetryTimer => ConnectorInv'
<1> SUFFICES ASSUME ConnectorInv, RetryTimer PROVE ConnectorInv' OBVIOUS
<1>1. active = TRUE /\ retries # <<>> /\ resets = 0
    BY DEF RetryTimer, ConnectorInv, ConnectorTypeOK, Passes, Expired
<1>2. Tail(retries) = <<>>
    BY <1>1, AtMostOne DEF ConnectorInv, ConnectorTypeOK, OneAttempt
<1>3. channel # "added" /\ conn = "none" /\ gaveUp = FALSE /\ Started /\ revents = {}
    BY <1>1 DEF ConnectorInv, ConnectorTypeOK, OneAttempt, Passes
<1>4. OneOf BY <1>2, <1>3, StartsOne DEF RetryTimer
<1>5. owner \in {"looping", "waiting", "connected"}
    BY <1>3 DEF ConnectorInv, ConnectorTypeOK, Started
<1> QED BY <1>1, <1>3, <1>4, <1>5, StartKeeps DEF RetryTimer

LEMMA PollKeeps == ConnectorInv /\ Poll => ConnectorInv'
<1> SUFFICES ASSUME ConnectorInv, Poll PROVE ConnectorInv' OBVIOUS
<1> USE DEF Poll, ConnectorInv
<1>1. /\ Reported \in {{}, {"out"}, {"err", "out"}}
      /\ Reported # {} => channel = "added"
    BY DEF Reported
<1>2. Expired \in BOOLEAN /\ (Expired => retries # <<>>) BY DEF Expired
<1>3. ConnectorTypeOK' BY <1>1, <1>2 DEF ConnectorTypeOK
<1>4. OneAttempt' BY DEF OneAttempt, Started
<1>5. ChannelOutlives' BY DEF ChannelOutlives
<1>6. Passes'
    <2>1. Expired' = Expired /\ Started' = Started BY DEF Expired, Started
    <2>2. channel = "added" => ~Expired BY <1>2 DEF OneAttempt
    <2> QED BY <1>1, <1>2, <2>1, <2>2 DEF Passes
<1> QED BY <1>3, <1>4, <1>5, <1>6

\* removeAndResetChannel and retry, of handleError and of handleWrite.
LEMMA HandleErrorKeeps == ConnectorInv /\ HandleError => ConnectorInv'
BY DelayAssumption, AppendToNone
   DEF HandleError, ConnectorInv, ConnectorTypeOK, OneAttempt, ChannelOutlives, Passes, Started,
       Expired, Retry, RemoveAndResetChannel, Sooner

LEMMA HandleWriteKeeps == ConnectorInv /\ ConnectorHandleWrite => ConnectorInv'
BY DelayAssumption, AppendToNone
   DEF ConnectorHandleWrite, ConnectorInv, ConnectorTypeOK, OneAttempt, ChannelOutlives, Passes,
       Started, Expired, Retry, RemoveAndResetChannel, Sooner

\* The functor destroys the channel that was removed, and no other.
LEMMA ResetFunctorKeeps == ConnectorInv /\ ResetFunctor => ConnectorInv'
BY DEF ResetFunctor, Destroyed, ConnectorInv, ConnectorTypeOK, OneAttempt, ChannelOutlives, Passes,
       Started, Expired

\* A tick leaves as many timers as there were.
LEMMA TickKeeps == ConnectorInv /\ Tick => ConnectorInv'
BY AtMostOne
   DEF Tick, Later, ConnectorInv, ConnectorTypeOK, OneAttempt, ChannelOutlives, Passes, Started,
       Expired

LEMMA OthersKeep ==
    ASSUME ConnectorInv,
           \/ ConnectNeter \/ Connected \/ RemoveConnection \/ BeginFunctors \/ DownFunctor
           \/ EndFunctors \/ Decide \/ Listen \/ UNCHANGED connectorVars
    PROVE  ConnectorInv'
<1> USE DEF ConnectorInv, ConnectorTypeOK, OneAttempt, ChannelOutlives, Passes, Started, Expired
<1>1. CASE ConnectNeter BY <1>1 DEF ConnectNeter
<1>2. CASE Connected BY <1>2 DEF Connected
<1>3. CASE RemoveConnection BY <1>3 DEF RemoveConnection
<1>4. CASE BeginFunctors BY <1>4 DEF BeginFunctors
<1>5. CASE DownFunctor BY <1>5 DEF DownFunctor
<1>6. CASE EndFunctors BY <1>6 DEF EndFunctors
<1>7. CASE Decide BY <1>7 DEF Decide
<1>8. CASE Listen BY <1>8 DEF Listen
<1>9. CASE UNCHANGED connectorVars BY <1>9 DEF connectorVars
<1> QED BY <1>1, <1>2, <1>3, <1>4, <1>5, <1>6, <1>7, <1>8, <1>9

LEMMA ConnectorInductive == ConnectorInv /\ [ConnectorNext]_connectorVars => ConnectorInv'
BY ConnectTransferKeeps, StartFunctorKeeps, RetryTimerKeeps, PollKeeps, HandleErrorKeeps,
   HandleWriteKeeps, ResetFunctorKeeps, TickKeeps, OthersKeep
   DEF ConnectorNext, OwnerStep, LoopStep

\* One attempt at a time, none forgotten, and no Channel destroyed that is in use
\* (Connector.cc:34-175).
THEOREM ConnectorSafe == ConnectorSpec => []ConnectorInv
<1>1. ConnectorInit => ConnectorInv BY ConnectorInitially
<1>2. ConnectorInv /\ [ConnectorNext]_connectorVars => ConnectorInv' BY ConnectorInductive
<1> QED BY <1>1, <1>2, PTL DEF ConnectorSpec
=============================================================================
