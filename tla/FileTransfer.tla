----------------------------- MODULE FileTransfer ------------------------------
(***************************************************************************)
(* The file server (src/server/handler/File.cc), the client's FtpClient    *)
(* (src/client/service/FileService.cc), and what both move a file with:    *)
(* sendFileChunk and recvFileData of src/netlib/reactor/Sendfile.h.        *)
(*                                                                         *)
(* An upload is sent by the client and received by the server; a download, *)
(* of a file that the server has listed, the other way round.  Bytes are   *)
(* counted in units.  The server handles a transfer on one of its loops,   *)
(* which does nothing else while a handler goes round; the client gives    *)
(* each transfer a thread.  Between the calls of a handler all the others  *)
(* may run.                                                                *)
(*                                                                         *)
(* The descriptors of a receiver (the file's and the pipe's) are one, and  *)
(* the process may give a number that has been closed to a later transfer. *)
(* A request and its answer arrive in one piece; a signal in a system call *)
(* and a full disk are left out.                                           *)
(***************************************************************************)
EXTENDS Integers, FiniteSets

CONSTANTS
    Upload, Download,   \* the transfers
    Of,                 \* the upload whose file a download asks for
    Loop, LoopOf,       \* the IO loops of the server, and the one that each transfer is on
    Size,               \* file_size of each upload, as announced
    SendUnit, Unit,     \* the most that one sendfile and one splice move
    Room,               \* what a connection holds between sender and receiver
    Change,             \* the uploads whose file may have changed since its size was read
    NoTransfer

Transfer == Upload \cup Download
Thread   == Loop \cup Transfer      \* a transfer's client thread is named by the transfer

ASSUME TransferAssumption ==
    /\ Upload \cap Download = {} /\ Loop \cap Transfer = {}
    /\ NoTransfer \notin Transfer
    /\ LoopOf \in [Transfer -> Loop]
    /\ Of \in [Download -> Upload] /\ Size \in [Upload -> Nat]
    /\ SendUnit \in Nat \ {0} /\ Unit \in Nat \ {0} /\ Room \in Nat \ {0}
    /\ Change \subseteq Upload

VARIABLES
    stage,      \* how far the request and its answer are
    file,       \* how long the file that is sent really is, or Missing
    offset,     \* the sender's offset
    snd,        \* the sender: what it has still to do
    wire,       \* sent and not received
    fin,        \* the sender has shut its end down
    cut,        \* the connection has been reset
    rcv,        \* the receiver: what it has still to do
    written,    \* the receiver's written
    stored,     \* how many units of the transfer are in its file,
    alien,      \* and how many of other transfers
    fds,        \* the receiver's descriptors
    heir,       \* the transfer that has got their number after they were closed
    busy,       \* the transfer whose handler a thread is in
    result      \* what the server has made of an upload

vars == <<stage, file, offset, snd, wire, fin, cut, rcv, written, stored, alien, fds, heir,
          busy, result>>

sendVars == <<file, offset, snd, fin>>
recvVars == <<rcv, written, stored, alien, fds, heir>>

Sender(t)   == IF t \in Upload THEN t ELSE LoopOf[t]
Receiver(t) == IF t \in Upload THEN LoopOf[t] ELSE t
Peers(t)    == IF t \in Upload THEN Upload ELSE Download

\* FileContext's totalSize: a download's is the size that is listed.
Total(t) == Size[IF t \in Upload THEN t ELSE Of[t]]

Missing == -1       \* open has failed, and so will sendfile

Free(th) == busy[th] = NoTransfer
Enter(th, t) == busy' = [busy EXCEPT ![th] = t]
Leave(th)    == busy' = [busy EXCEPT ![th] = NoTransfer]

Smallest(a, b) == IF a <= b THEN a ELSE b
-----------------------------------------------------------------------------
Init ==
    /\ stage = [t \in Transfer |-> "new"]
    /\ file = [t \in Transfer |-> Total(t)]
    /\ offset = [t \in Transfer |-> 0]
    /\ snd = [t \in Transfer |-> "none"]
    /\ wire = [t \in Transfer |-> 0]
    /\ fin = [t \in Transfer |-> FALSE]
    /\ cut = [t \in Transfer |-> FALSE]
    /\ rcv = [t \in Transfer |-> "none"]
    /\ written = [t \in Transfer |-> 0]
    /\ stored = [t \in Transfer |-> 0]
    /\ alien = [t \in Transfer |-> 0]
    /\ fds = [t \in Transfer |-> "none"]
    /\ heir = [t \in Transfer |-> NoTransfer]
    /\ busy = [th \in Thread |-> NoTransfer]
    /\ result = [t \in Transfer |-> "none"]
-----------------------------------------------------------------------------
(* The request. *)

\* The receiver opens its file and its pipe; it may be given a number that another
\* transfer of the same process has closed.
Open(t) ==
    /\ fds' = [fds EXCEPT ![t] = "open"]
    /\ rcv' = [rcv EXCEPT ![t] = "ready"]
    /\ \/ UNCHANGED heir
       \/ \E u \in Peers(t) :
            /\ fds[u] = "closed" /\ heir[u] = NoTransfer
            /\ rcv[u] \in {"ready", "reading"}
            /\ heir' = [v \in Transfer |-> IF u \in {v, heir[v]} THEN t ELSE heir[v]]
    /\ UNCHANGED <<written, stored, alien>>

\* FtpClient::onConnection: sendUploadInfo, or sendDownloadInfo for a file that the
\* client has found in the list.
SendInfo(t) ==
    /\ stage[t] = "new"
    /\ stage' = [stage EXCEPT ![t] = "asked"]
    /\ IF t \in Download
       THEN result[Of[t]] \in {"listed", "placed"} /\ Open(t)
       ELSE UNCHANGED recvVars
    /\ UNCHANGED <<sendVars, wire, cut, busy, result>>

\* sendFile: the context, and on to sendFileChunk.
SendFile(t) ==
    /\ snd' = [snd EXCEPT ![t] = "sending"]
    /\ Enter(Sender(t), t)

\* FtpServer::onMessage, UPLOAD_FILE: it gets ready and acknowledges.
OnUpload(t) ==
    /\ t \in Upload
    /\ stage[t] = "asked" /\ rcv[t] = "none"
    /\ Free(LoopOf[t])
    /\ Open(t)
    /\ stage' = [stage EXCEPT ![t] = "acked"]
    /\ UNCHANGED <<sendVars, wire, cut, busy, result>>

\* DOWNLOAD_FILE: the file is there once it has been given its name.
OnDownload(t) ==
    /\ t \in Download
    /\ stage[t] = "asked" /\ snd[t] = "none"
    /\ Free(LoopOf[t])
    /\ stage' = [stage EXCEPT ![t] = "begun"]
    /\ LET u == Of[t] IN
       file' = [file EXCEPT ![t] = IF result[u] = "placed" THEN stored[u] + alien[u] ELSE Missing]
    /\ SendFile(t)
    /\ UNCHANGED <<offset, fin, wire, cut, recvVars, result>>

\* FtpClient::onMessage: UPLOAD_FILE_ACK.  By now the file may be longer or shorter.
OnAck(t) ==
    /\ stage[t] = "acked" /\ snd[t] = "none"
    /\ stage' = [stage EXCEPT ![t] = "begun"]
    /\ \E n \in {Total(t)} \cup (IF t \in Change THEN {Total(t) + 1, Total(t) - 1} \cap Nat ELSE {}) :
         file' = [file EXCEPT ![t] = n]
    /\ SendFile(t)
    /\ UNCHANGED <<offset, fin, wire, cut, recvVars, result>>
-----------------------------------------------------------------------------
(* sendFileChunk. *)

Sending(t) == busy[Sender(t)] = t /\ snd[t] = "sending"

\* sendfile moves what there is room for: up to SendUnit, whatever remains of the size.
Sendfile(t) ==
    /\ Sending(t) /\ ~cut[t]
    /\ offset[t] < Total(t)
    /\ \E n \in 1 .. Smallest(SendUnit, Room) :
         /\ n <= file[t] - offset[t] /\ n <= Room - wire[t]
         /\ offset' = [offset EXCEPT ![t] = @ + n]
         /\ wire' = [wire EXCEPT ![t] = @ + n]
    /\ UNCHANGED <<stage, file, snd, fin, cut, recvVars, busy, result>>

\* Nothing moved: no room, or the end of a file that has become shorter, which leaves
\* errno as some earlier call has set it.  EAGAIN waits for the socket.
SendAgain(t) ==
    /\ Sending(t) /\ ~cut[t]
    /\ offset[t] < Total(t)
    /\ file[t] # Missing
    /\ wire[t] = Room \/ file[t] <= offset[t]
    /\ snd' = [snd EXCEPT ![t] = "waiting"]
    /\ Leave(Sender(t))
    /\ UNCHANGED <<stage, file, offset, fin, wire, cut, recvVars, result>>

\* Any other error: the file is closed and the context dropped, without a shutdown.
SendError(t) ==
    /\ Sending(t)
    /\ offset[t] < Total(t)
    /\ cut[t] \/ file[t] <= offset[t]
    /\ snd' = [snd EXCEPT ![t] = "failed"]
    /\ Leave(Sender(t))
    /\ UNCHANGED <<stage, file, offset, fin, wire, cut, recvVars, result>>

\* Seeded bug: the end is reached without shutdown().
SendEndOpen(t) ==
    /\ Sending(t) /\ offset[t] >= Total(t)
    /\ snd' = [snd EXCEPT ![t] = "done"]
    /\ Leave(Sender(t))
    /\ UNCHANGED <<stage, file, offset, fin, wire, cut, recvVars, result>>

\* The whole size is sent.
SendEnd(t) ==
    /\ Sending(t) /\ offset[t] >= Total(t)
    /\ snd' = [snd EXCEPT ![t] = "done"]
    /\ fin' = [fin EXCEPT ![t] = TRUE]
    /\ Leave(Sender(t))
    /\ UNCHANGED <<stage, file, offset, wire, cut, recvVars, result>>

\* TcpConnection::handleWrite with a write callback.
HandleWrite(t) ==
    /\ snd[t] = "waiting"
    /\ wire[t] < Room \/ cut[t]
    /\ Free(Sender(t))
    /\ snd' = [snd EXCEPT ![t] = "sending"]
    /\ Enter(Sender(t), t)
    /\ UNCHANGED <<stage, file, offset, fin, wire, cut, recvVars, result>>
-----------------------------------------------------------------------------
(* recvFileData. *)

Receiving(t) == busy[Receiver(t)] = t /\ rcv[t] = "reading"
Closed(t)    == wire[t] = 0 /\ (fin[t] \/ cut[t])      \* ~isConnected

\* Whose pipe and file the numbers of t are: its own, or its heir's.
Target(t) == IF fds[t] = "open" THEN t ELSE heir[t]
Usable(t) == Target(t) # NoTransfer /\ fds[Target(t)] = "open"

\* The readable callback.
HandleRead(t) ==
    /\ rcv[t] = "ready"
    /\ wire[t] > 0 \/ Closed(t)
    /\ Free(Receiver(t))
    /\ rcv' = [rcv EXCEPT ![t] = "reading"]
    /\ Enter(Receiver(t), t)
    /\ UNCHANGED <<stage, sendVars, wire, cut, written, stored, alien, fds, heir, result>>

\* Two splices, through the pipe into the file; with the whole size the descriptors are
\* closed, and the loop goes on.
Splice(t) ==
    /\ Receiving(t) /\ Usable(t)
    /\ \E n \in 1 .. Unit :
         LET u == Target(t) IN
         /\ n <= wire[t]
         /\ wire' = [wire EXCEPT ![t] = @ - n]
         /\ written' = [written EXCEPT ![t] = @ + n]
         /\ IF u = t THEN stored' = [stored EXCEPT ![t] = @ + n] /\ UNCHANGED alien
            ELSE alien' = [alien EXCEPT ![u] = @ + n] /\ UNCHANGED stored
         /\ fds' = IF written'[t] >= Total(t) THEN [fds EXCEPT ![u] = "closed"] ELSE fds
    /\ UNCHANGED <<stage, sendVars, cut, rcv, heir, busy, result>>

\* splice fails with EBADF, which is not EAGAIN: round again, at once.
Spin(t) ==
    /\ Receiving(t) /\ ~Usable(t) /\ ~Closed(t)
    /\ UNCHANGED vars

\* EAGAIN: back to the loop.
RecvAgain(t) ==
    /\ Receiving(t) /\ Usable(t)
    /\ wire[t] = 0 /\ ~Closed(t)
    /\ rcv' = [rcv EXCEPT ![t] = "ready"]
    /\ Leave(Receiver(t))
    /\ UNCHANGED <<stage, sendVars, wire, cut, written, stored, alien, fds, heir, result>>

\* The other end is closed: forceClose.
RecvClosed(t) ==
    /\ Receiving(t) /\ Closed(t)
    /\ rcv' = [rcv EXCEPT ![t] = "closing"]
    /\ Leave(Receiver(t))
    /\ UNCHANGED <<stage, sendVars, wire, cut, written, stored, alien, fds, heir, result>>
-----------------------------------------------------------------------------
(* The end: forceCloseInLoop shuts the receiver's end down, and either     *)
(* side's connection callback reports its connection down.                 *)

ForceCloseInLoop(t) ==
    /\ rcv[t] = "closing"
    /\ Free(Receiver(t))
    /\ rcv' = [rcv EXCEPT ![t] = "shut"]
    /\ UNCHANGED <<stage, sendVars, wire, cut, written, stored, alien, fds, heir, busy, result>>

\* Seeded bug: whatever has come is listed.
ReceiverDownLists(t) ==
    /\ rcv[t] = "shut"
    /\ Free(Receiver(t))
    /\ IF t \in Upload
       THEN /\ rcv' = [rcv EXCEPT ![t] = "naming"]
            /\ result' = [result EXCEPT ![t] = "listed"]
            /\ Enter(Receiver(t), t)
       ELSE rcv' = [rcv EXCEPT ![t] = "down"] /\ UNCHANGED <<busy, result>>
    /\ UNCHANGED <<stage, sendVars, wire, cut, written, stored, alien, fds, heir>>

\* FtpServer::onConnection: a row of files for what is whole, and the rest is removed.
\* The client, at the end of a download, quits its loop.
ReceiverDown(t) ==
    /\ rcv[t] = "shut"
    /\ Free(Receiver(t))
    /\ IF t \in Upload /\ written[t] >= Total(t)
       THEN /\ rcv' = [rcv EXCEPT ![t] = "naming"]
            /\ result' = [result EXCEPT ![t] = "listed"]
            /\ Enter(Receiver(t), t)
       ELSE /\ rcv' = [rcv EXCEPT ![t] = "down"]
            /\ result' = IF t \in Upload THEN [result EXCEPT ![t] = "removed"] ELSE result
            /\ UNCHANGED busy
    /\ UNCHANGED <<stage, sendVars, wire, cut, written, stored, alien, fds, heir>>

\* getLastInsertId and rename: the file gets the name that the row stands for.
Rename(t) ==
    /\ rcv[t] = "naming"
    /\ rcv' = [rcv EXCEPT ![t] = "down"]
    /\ result' = [result EXCEPT ![t] = "placed"]
    /\ Leave(Receiver(t))
    /\ UNCHANGED <<stage, sendVars, wire, cut, written, stored, alien, fds, heir>>

\* The sender's end, once the receiver's or the link is gone: handleRead reads nothing,
\* handleClose.  The client announces an upload, whatever has become of it, and quits
\* its loop.
SenderDown(t) ==
    /\ stage[t] # "new"
    /\ snd[t] \notin {"sending", "down"}
    /\ rcv[t] \in {"shut", "naming", "down"} \/ cut[t]
    /\ Free(Sender(t))
    /\ snd' = [snd EXCEPT ![t] = "down"]
    /\ UNCHANGED <<stage, file, offset, fin, wire, cut, recvVars, busy, result>>

\* The receiver of a connection that is reset before it has opened anything.
EarlyDown(t) ==
    /\ t \in Upload /\ cut[t] /\ rcv[t] = "none"
    /\ Free(Receiver(t))
    /\ rcv' = [rcv EXCEPT ![t] = "down"]
    /\ UNCHANGED <<stage, sendVars, wire, cut, written, stored, alien, fds, heir, busy, result>>

\* A reset, of which the receiver learns after what has reached it.
Cut(t) ==
    /\ stage[t] # "new" /\ ~cut[t]
    /\ cut' = [cut EXCEPT ![t] = TRUE]
    /\ \E n \in 0 .. wire[t] : wire' = [wire EXCEPT ![t] = n]
    /\ UNCHANGED <<stage, sendVars, recvVars, busy, result>>
-----------------------------------------------------------------------------
SenderStep(t) ==
    \/ OnAck(t) \/ OnDownload(t)
    \/ Sendfile(t) \/ SendAgain(t) \/ SendError(t) \/ SendEnd(t) \/ HandleWrite(t)
    \/ SenderDown(t)

ReceiverStep(t) ==
    \/ OnUpload(t)
    \/ HandleRead(t) \/ Splice(t) \/ Spin(t) \/ RecvAgain(t) \/ RecvClosed(t)
    \/ ForceCloseInLoop(t) \/ ReceiverDown(t) \/ Rename(t) \/ EarlyDown(t)

Next == \E t \in Transfer : SendInfo(t) \/ SenderStep(t) \/ ReceiverStep(t) \/ Cut(t)

Spec == Init /\ [][Next]_vars

\* Threads run.  A client's serves one transfer; a loop takes its ready channels in turn,
\* so that an end whose turn comes again and again, whenever no other handler holds the
\* loop, gets it.
Fairness ==
    /\ \A t \in Upload : WF_vars(SenderStep(t)) /\ SF_vars(ReceiverStep(t))
    /\ \A t \in Download : SF_vars(SenderStep(t)) /\ WF_vars(ReceiverStep(t))

FairSpec == Spec /\ Fairness
-----------------------------------------------------------------------------
\* The shape of the state.
TypeOK ==
    /\ stage \in [Transfer -> {"new", "asked", "acked", "begun"}]
    /\ file \in [Transfer -> Nat \cup {Missing}]
    /\ offset \in [Transfer -> Nat] /\ wire \in [Transfer -> 0 .. Room]
    /\ snd \in [Transfer -> {"none", "sending", "waiting", "failed", "done", "down"}]
    /\ fin \in [Transfer -> BOOLEAN] /\ cut \in [Transfer -> BOOLEAN]
    /\ rcv \in [Transfer -> {"none", "ready", "reading", "closing", "shut", "naming", "down"}]
    /\ written \in [Transfer -> Nat]
    /\ stored \in [Transfer -> Nat] /\ alien \in [Transfer -> Nat]
    /\ fds \in [Transfer -> {"none", "open", "closed"}]
    /\ heir \in [Transfer -> Transfer \cup {NoTransfer}]
    /\ busy \in [Thread -> Transfer \cup {NoTransfer}]
    /\ result \in [Transfer -> {"none", "listed", "placed", "removed"}]

\* A transfer's file was what its size said when it was opened.
Steady(t) == file[t] = Total(t)

\* The end of a file is told by its size (Sendfile.h:106) and by the row that is written
\* when the connection is down (File.cc:35), whatever a reset, another transfer on the
\* same loop or a number that is given out again does in between: the server lists an
\* upload only when it has all of it and nothing else, and so has a client whose
\* download has brought its whole size.  Files that change while they are sent are the
\* one exception, for every transfer of the process.
Whole ==
    \A t \in Transfer :
        (\/ result[t] \in {"listed", "placed"}
         \/ t \in Download /\ rcv[t] = "down" /\ written[t] >= Total(t)
         \/ fds[t] = "closed")
            => \/ stored[t] = Total(t) /\ alien[t] = 0
               \/ \E u \in Upload : ~Steady(u)

(* What makes it inductive. *)

\* Only an upload is acknowledged; a file is opened to be sent once, and has its size
\* until then.
Unsent ==
    /\ \A t \in Transfer : stage[t] = "acked" => t \in Upload
    /\ \A t \in Upload : snd[t] = "none" => Steady(t)

\* A receiver that reads has opened its descriptors; one that renames has listed its file.
Opened ==
    \A t \in Transfer :
        /\ rcv[t] \in {"ready", "reading"} => fds[t] # "none"
        /\ rcv[t] = "naming" => result[t] = "listed"

\* As long as no file has changed, what has come is what was sent and nothing is left
\* when the size is reached, so that a closed number is not written to again.
Counted ==
    (\A u \in Upload : Steady(u)) =>
        \A t \in Transfer :
            /\ file[t] \in {Total(t), Missing}
            /\ written[t] + wire[t] <= offset[t] /\ offset[t] <= Total(t)
            /\ stored[t] = written[t] /\ alien[t] = 0
            /\ fds[t] = "closed" => written[t] = Total(t)
            /\ result[t] \in {"listed", "placed"} => written[t] = Total(t)

Inductive == Unsent /\ Opened /\ Counted

\* What TLC checks in every state.
TransferInv == TypeOK /\ Inductive /\ Whole

\* A loop stays in a handler (Sendfile.h:91, Sendfile.h:42) only as long as there is
\* something to move, and both ends come down: the server has placed an upload that was
\* not reset, or removed it, and the client has left its loop.  The exceptions are a
\* file that changes while it is sent, where a loop may go round for ever with it and
\* every transfer that it serves, and a download that comes between the row and the
\* name (File.cc:44), which ends in an error that closes nothing.
EveryTransferEnds ==
    \A t \in Transfer :
        stage[t] = "begun" ~>
            \/ /\ snd[t] = "down" /\ rcv[t] = "down"
               /\ t \in Upload => result[t] \in IF cut[t] THEN {"placed", "removed"} ELSE {"placed"}
            \/ ~Steady(t)
            \/ \E u \in Upload : ~Steady(u)
=============================================================================
