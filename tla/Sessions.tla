------------------------------ MODULE Sessions ------------------------------
(***************************************************************************)
(* The sessions of the game server: the accept loop, the clients map, the  *)
(* handle_client thread of every connection and the TCP streams they share *)
(* (binaries/server/src/main.rs).                                          *)
(*                                                                         *)
(* A thread finds its stream by its client id in every turn of its loop,   *)
(* reads at most one message from it, answers, and then, inside            *)
(* clients.lock(), writes the message to the stream of every session that  *)
(* is ready.  Streams are non-blocking: a write that does not fit is lost  *)
(* or cut short, and nobody looks at the error.  Only the transfer of the  *)
(* world file blocks, with the stream locked.                              *)
(*                                                                         *)
(* What messages do to the world is in WorldStore.  The client program is  *)
(* not in the model: it connects, sends any message, reads, and leaves.    *)
(***************************************************************************)
EXTENDS Naturals, Sequences

CONSTANTS
  Conns,    \* the connections; the thread of a connection bears its name
  Ids,      \* client ids
  Absent,   \* no session, no connection
  Free,     \* a lock nobody holds
  Room,     \* writes that fit in the send buffer of a stream
  Requests, \* the kinds of messages the clients send in this instance
  Recorded, \* the kinds of messages and answers that wire keeps
  Leavers,  \* the connections whose clients may leave in this instance
  MaxMsgs,  \* bound: messages the clients send in a run
  MaxInbox, \* bound: messages that wait to be read from a stream
  Idles     \* bound: whether loops also turn while there is nothing to read

ASSUME SessionsAssumption ==
  /\ Absent \notin Conns /\ Absent \notin Ids
  /\ Absent \notin [conn : Conns, ready : BOOLEAN]
  /\ Free \notin Conns
  /\ Room \in Nat \ {0} /\ Leavers \subseteq Conns
  /\ MaxMsgs \in Nat /\ MaxInbox \in Nat /\ Idles \in BOOLEAN
  /\ Requests \subseteq {"Edit", "PlayerUpdate", "RequestUdm", "ReqChestReg",
                         "RequestSeed", "Disconnect"}
  /\ "None" \notin Recorded /\ ("Udm" \in Recorded => "UdmFile" \in Recorded)

VARIABLES
  clients,     \* the map: the stream and the ready flag of each session
  clientsLock, \* the thread inside clients.lock(), Free between its uses
  streamLock,  \* per stream, the thread inside stream.lock()
  idOf,        \* the id a connection greeted with
  pc,          \* where each thread is in its loop
  str,         \* per thread, the stream it found in the map
  msg,         \* per thread, the message it handles
  todo,        \* per thread, the sessions it has still to write the message to
  leaving,     \* per thread, should_break
  inbox,       \* per stream, what its client sent and nobody read
  open,        \* per stream, the client has not closed it
  wire,        \* history: per stream, what the client can read, oldest first
  unread,      \* per stream, the writes that fill its send buffer
  torn,        \* per stream, a write was cut short: the rest is garbage
  blocking,    \* per stream, set_nonblocking(false) is in force
  sent,        \* how many messages the clients have sent
  doubled,     \* history: the ids that two threads have served at once
  updated,     \* history: the connections a PlayerUpdate of which was handled
  early        \* history: the connections whose session the PlayerUpdate of
               \* an older connection has made ready before their own

threadVars == <<pc, str, msg, todo, leaving>>
historyVars == <<doubled, updated, early>>
mapVars == <<clients, clientsLock, idOf, historyVars>>
streamVars == <<streamLock, wire, unread, torn, blocking>>
clientVars == <<inbox, open, sent>>
vars == <<threadVars, mapVars, streamVars, clientVars>>

(* A message has a number of its own, an answer has none.  Nobody reads    *)
(* the content of a None message, which every idle turn of a loop makes.   *)
Unit(kind) == [kind |-> kind, n |-> 0]
None == Unit("None")
Message == [kind : Requests, n : 1..MaxMsgs]
Answers == {"Udm", "UdmFile", "ChestReg", "ChestFile", "Seed", "TimeUpdate"}
Broadcasts(c) == {k \in 1..Len(wire[c]) : wire[c][k].kind \notin Answers}

Init ==
  /\ clients = [i \in Ids |-> Absent] /\ clientsLock = Free
  /\ idOf = [c \in Conns |-> Absent]
  /\ doubled = {} /\ updated = {} /\ early = {}
  /\ pc = [c \in Conns |-> "none"] /\ str = [c \in Conns |-> Absent]
  /\ msg = [c \in Conns |-> None] /\ todo = [c \in Conns |-> {}]
  /\ leaving = [c \in Conns |-> FALSE]
  /\ streamLock = [c \in Conns |-> Free]
  /\ wire = [c \in Conns |-> <<>>] /\ unread = [c \in Conns |-> 0]
  /\ torn = [c \in Conns |-> FALSE] /\ blocking = [c \in Conns |-> FALSE]
  /\ inbox = [c \in Conns |-> <<>>] /\ open = [c \in Conns |-> TRUE]
  /\ sent = 0

Running(c) == pc[c] \notin {"none", "refused", "done", "dead"}

----------------------------------------------------------------------------
(* The clients.  A definition whose name ends in a bug's description is    *)
(* that bug planted in the definition after it: the properties below must  *)
(* not survive it.                                                         *)

ClientSend(c) ==
  /\ Running(c) /\ open[c]
  /\ sent < MaxMsgs /\ Len(inbox[c]) < MaxInbox
  /\ \E kind \in Requests :
       inbox' = [inbox EXCEPT ![c] = Append(@, [kind |-> kind, n |-> sent + 1])]
  /\ sent' = sent + 1
  /\ UNCHANGED <<threadVars, mapVars, streamVars, open>>

ClientRead(c) ==
  /\ open[c] /\ unread[c] > 0
  /\ unread' = [unread EXCEPT ![c] = @ - 1]
  /\ UNCHANGED <<threadVars, mapVars, streamLock, wire, torn, blocking,
                 clientVars>>

ClientClose(c) ==
  /\ c \in Leavers /\ Running(c) /\ open[c]
  /\ open' = [open EXCEPT ![c] = FALSE]
  /\ UNCHANGED <<threadVars, mapVars, streamVars, inbox, sent>>

----------------------------------------------------------------------------
(* The accept loop.  A greeting names the id; a session with the same id   *)
(* is replaced and its thread goes on.  A client whose greeting has not    *)
(* arrived after 100 reads is dropped.                                     *)

ClientsFree == clientsLock = Free

Accept(c, i) ==
  /\ pc[c] = "none" /\ ClientsFree
  /\ idOf' = [idOf EXCEPT ![c] = i]
  /\ clients' = [clients EXCEPT ![i] = [conn |-> c, ready |-> FALSE]]
  /\ pc' = [pc EXCEPT ![c] = "lookup"]
  /\ doubled' = IF \E d \in Conns : idOf[d] = i /\ Running(d)
                  THEN doubled \cup {i} ELSE doubled
  /\ UNCHANGED <<clientsLock, str, msg, todo, leaving, updated, early,
                 streamVars, clientVars>>

Refuse(c) ==
  /\ pc[c] = "none"
  /\ pc' = [pc EXCEPT ![c] = "refused"]
  /\ UNCHANGED <<str, msg, todo, leaving, mapVars, streamVars, clientVars>>

----------------------------------------------------------------------------
(* Writing.                                                                *)

StreamFree(s) == streamLock[s] = Free

(* write_all on a stream that takes another write, or that does not: then  *)
(* nothing of the message is written, or a part.                           *)
Fits(s) == open[s] /\ unread[s] < Room
Write(s, u) ==
  \/ /\ Fits(s)
     /\ unread' = [unread EXCEPT ![s] = @ + 1]
     /\ wire' = IF torn[s] \/ u.kind \notin Recorded THEN wire
                ELSE [wire EXCEPT ![s] = Append(@, u)]
     /\ UNCHANGED torn
  \/ /\ ~Fits(s)
     /\ \/ UNCHANGED torn
        \/ open[s] /\ torn' = [torn EXCEPT ![s] = TRUE]
     /\ UNCHANGED <<unread, wire>>

Goto(c, l) == pc' = [pc EXCEPT ![c] = l]

----------------------------------------------------------------------------
(* handle_client: one turn of the loop.  Without a session in the map the  *)
(* loop spins: there is no step for it.                                    *)

Lookup(c) ==
  LET i == idOf[c]
  IN /\ pc[c] = "lookup" /\ ClientsFree
     /\ clients[i] # Absent
     /\ str' = [str EXCEPT ![c] = clients[i].conn]
     /\ Goto(c, "read")
     /\ UNCHANGED <<msg, todo, leaving, mapVars, streamVars, clientVars>>

EndOfFile_Ignored(s) == FALSE
EndOfFile(s) == ~open[s]

Read(c) ==
  LET s == str[c]
  IN /\ pc[c] = "read" /\ StreamFree(s)
     /\ \/ /\ inbox[s] # <<>>
           /\ msg' = [msg EXCEPT ![c] = Head(inbox[s])]
           /\ inbox' = [inbox EXCEPT ![s] = Tail(@)]
           /\ leaving' = [leaving EXCEPT ![c] = (msg'[c].kind = "Disconnect")]
           /\ Goto(c, IF msg'[c].kind \in {"Edit", "Disconnect"}
                        THEN "send" ELSE msg'[c].kind)
        \/ /\ inbox[s] = <<>>
           /\ Idles \/ EndOfFile(s)
           /\ msg' = [msg EXCEPT ![c] = None]
           /\ leaving' = [leaving EXCEPT ![c] = EndOfFile(s)]
           /\ Goto(c, "send")
           /\ UNCHANGED inbox
     /\ UNCHANGED <<str, todo, mapVars, streamVars, open, sent>>

(* PlayerUpdate: the session is ready from now on; its thread unwraps the  *)
(* entry of its id.  A thread that read its message from an older stream   *)
(* makes the session ready that has replaced its own.  The answer is a     *)
(* TimeUpdate.                                                             *)
PlayerUpdate(c) ==
  LET i == idOf[c]
  IN /\ pc[c] = "PlayerUpdate" /\ ClientsFree
     /\ IF clients[i] = Absent
          THEN Goto(c, "dead") /\ UNCHANGED <<clients, updated, early>>
          ELSE /\ clients' = [clients EXCEPT ![i].ready = TRUE]
               /\ updated' = updated \cup {str[c]}
               /\ early' = early \cup ({clients[i].conn} \ updated')
               /\ Goto(c, "answer")
     /\ UNCHANGED <<str, msg, todo, leaving, clientsLock, idOf, doubled,
                    streamVars, clientVars>>

Answer(c, at, kind, next) ==
  /\ pc[c] = at /\ StreamFree(str[c])
  /\ Write(str[c], Unit(kind))
  /\ Goto(c, next)
  /\ UNCHANGED <<str, msg, todo, leaving, mapVars, streamLock, blocking,
                 clientVars>>

SendTime(c) == Answer(c, "answer", "TimeUpdate", "send")

(* ReqChestReg: header and file under a lock each.                         *)
SendChestHeader(c) == Answer(c, "ReqChestReg", "ChestReg", "chestfile")
SendChestFile(c) == Answer(c, "chestfile", "ChestFile", "send")

(* RequestSeed unwraps the result of the write.                            *)
SendSeed(c) ==
  LET s == str[c]
  IN /\ pc[c] = "RequestSeed" /\ StreamFree(s)
     /\ Write(s, Unit("Seed"))
     /\ Goto(c, IF Fits(s) THEN "send" ELSE "dead")
     /\ UNCHANGED <<str, msg, todo, leaving, mapVars, streamLock, blocking,
                    clientVars>>

(* RequestUdm: header and file under one lock, in blocking mode.  A client *)
(* that leaves meanwhile makes the unwrap end the thread; the lock goes,   *)
(* the mode and the session stay.                                          *)
BeginUdm(c) ==
  LET s == str[c]
  IN /\ pc[c] = "RequestUdm" /\ StreamFree(s)
     /\ streamLock' = [streamLock EXCEPT ![s] = c]
     /\ blocking' = [blocking EXCEPT ![s] = TRUE]
     /\ Goto(c, "udmheader")
     /\ UNCHANGED <<str, msg, todo, leaving, mapVars, wire, unread, torn,
                    clientVars>>

SendUdmHeader_Unlocks(c) ==
  LET s == str[c]
  IN /\ pc[c] = "udmheader" /\ Fits(s)
     /\ Write(s, Unit("Udm"))
     /\ streamLock' = [streamLock EXCEPT ![s] = Free]
     /\ Goto(c, "udmfile")
     /\ UNCHANGED <<str, msg, todo, leaving, mapVars, blocking, clientVars>>

SendUdmHeader(c) ==
  LET s == str[c]
  IN /\ pc[c] = "udmheader" /\ Fits(s)
     /\ Write(s, Unit("Udm"))
     /\ Goto(c, "udmfile")
     /\ UNCHANGED <<str, msg, todo, leaving, mapVars, streamLock, blocking,
                    clientVars>>

SendUdmFile(c) ==
  LET s == str[c]
  IN /\ pc[c] = "udmfile" /\ Fits(s)
     /\ Write(s, Unit("UdmFile"))
     /\ streamLock' = [streamLock EXCEPT ![s] = Free]
     /\ blocking' = [blocking EXCEPT ![s] = FALSE]
     /\ Goto(c, "send")
     /\ UNCHANGED <<str, msg, todo, leaving, mapVars, clientVars>>

UdmFails(c) ==
  LET s == str[c]
  IN /\ pc[c] \in {"udmheader", "udmfile"} /\ ~open[s]
     /\ streamLock' = [streamLock EXCEPT ![s] = Free]
     /\ Goto(c, "dead")
     /\ UNCHANGED <<str, msg, todo, leaving, mapVars, wire, unread, torn,
                    blocking, clientVars>>

----------------------------------------------------------------------------
(* The rebroadcast, in the order of the map, with clients locked from the  *)
(* first write to the last.                                                *)

(* The own thread uses the stream it found at the start of its turn.       *)
Session(c, i) == [id |-> i, conn |-> IF i = idOf[c] THEN str[c] ELSE clients[i].conn]
Recipients_Unready(c) ==
  {Session(c, i) : i \in {j \in Ids : clients[j] # Absent}}
Recipients(c) ==
  {Session(c, i) : i \in {j \in Ids : clients[j] # Absent /\ clients[j].ready}}

BeginSend_Unlocked(c) ==
  /\ pc[c] = "send" /\ ClientsFree
  /\ todo' = [todo EXCEPT ![c] = Recipients(c)]
  /\ Goto(c, "sending")
  /\ UNCHANGED <<str, msg, leaving, mapVars, streamVars, clientVars>>

BeginSend(c) ==
  /\ pc[c] = "send" /\ ClientsFree
  /\ clientsLock' = c
  /\ todo' = [todo EXCEPT ![c] = Recipients(c)]
  /\ Goto(c, "sending")
  /\ UNCHANGED <<str, msg, leaving, clients, idOf, historyVars, streamVars,
                 clientVars>>

(* The own client gets its message back: as many bytes as were read, none  *)
(* for a None message, and nothing at all for a PlayerUpdate.              *)
Own(c, to) == to.id = idOf[c]
Skipped(c, to) == Own(c, to) /\ msg[c].kind = "PlayerUpdate"
Deliver(c, to) ==
  IF Own(c, to) /\ msg[c].kind \in {"PlayerUpdate", "None"}
    THEN UNCHANGED <<wire, unread, torn>>
    ELSE Write(to.conn, msg[c])

SendTo_DropsSession(c, to) ==
  /\ pc[c] = "sending" /\ to \in todo[c]
  /\ Skipped(c, to) \/ StreamFree(to.conn)
  /\ Deliver(c, to)
  /\ todo' = [todo EXCEPT ![c] = @ \ {to}]
  /\ clients' = IF Fits(to.conn) THEN clients ELSE [clients EXCEPT ![to.id] = Absent]
  /\ UNCHANGED <<pc, str, msg, leaving, clientsLock, idOf, historyVars,
                 streamLock, blocking, clientVars>>

SendTo(c, to) ==
  /\ pc[c] = "sending" /\ to \in todo[c]
  /\ Skipped(c, to) \/ StreamFree(to.conn)
  /\ Deliver(c, to)
  /\ todo' = [todo EXCEPT ![c] = @ \ {to}]
  /\ UNCHANGED <<pc, str, msg, leaving, mapVars, streamLock, blocking,
                 clientVars>>

EndSend_KeepsLock(c) ==
  /\ pc[c] = "sending" /\ todo[c] = {}
  /\ clientsLock' = IF leaving[c] THEN clientsLock ELSE Free
  /\ msg' = [msg EXCEPT ![c] = None] /\ str' = [str EXCEPT ![c] = Absent]
  /\ Goto(c, IF leaving[c] THEN "remove" ELSE "lookup")
  /\ UNCHANGED <<todo, leaving, clients, idOf, historyVars, streamVars,
                 clientVars>>

EndSend(c) ==
  /\ pc[c] = "sending" /\ todo[c] = {}
  /\ clientsLock' = Free
  /\ msg' = [msg EXCEPT ![c] = None] /\ str' = [str EXCEPT ![c] = Absent]
  /\ Goto(c, IF leaving[c] THEN "remove" ELSE "lookup")
  /\ UNCHANGED <<todo, leaving, clients, idOf, historyVars, streamVars,
                 clientVars>>

Remove(c) ==
  /\ pc[c] = "remove" /\ ClientsFree
  /\ clients' = [clients EXCEPT ![idOf[c]] = Absent]
  /\ Goto(c, "done")
  /\ UNCHANGED <<str, msg, todo, leaving, clientsLock, idOf, historyVars,
                 streamVars, clientVars>>

----------------------------------------------------------------------------

(* The steps that wait for clients.lock(), for a stream, and for neither.  *)
MapStep(c) == Lookup(c) \/ PlayerUpdate(c) \/ BeginSend(c) \/ Remove(c)
StreamStep(c) ==
  \/ Read(c) \/ SendTime(c) \/ SendSeed(c) \/ BeginUdm(c)
  \/ SendChestHeader(c) \/ SendChestFile(c)
  \/ \E to \in todo[c] : SendTo(c, to)
OwnStep(c) == SendUdmHeader(c) \/ SendUdmFile(c) \/ UdmFails(c) \/ EndSend(c)

Client(c) == ClientSend(c) \/ ClientRead(c) \/ ClientClose(c)
AcceptLoop(c) == (\E i \in Ids : Accept(c, i)) \/ Refuse(c)

Next == \E c \in Conns : \/ MapStep(c) \/ StreamStep(c) \/ OwnStep(c)
                         \/ Client(c) \/ AcceptLoop(c)

Spec == Init /\ [][Next]_vars

(* parking_lot's mutexes are eventually fair: a thread that keeps asking   *)
(* for a lock that keeps being released gets it.  Clients read what they   *)
(* are sent; they need not send, connect or leave.                         *)
Fairness ==
  \A c \in Conns :
    /\ SF_vars(MapStep(c)) /\ SF_vars(StreamStep(c)) /\ WF_vars(OwnStep(c))
    /\ WF_vars(ClientRead(c))

FairSpec == Spec /\ Fairness

----------------------------------------------------------------------------
(* Properties.                                                             *)

PCs == {"none", "refused", "done", "dead", "lookup", "read", "answer",
        "chestfile", "udmheader", "udmfile", "send", "sending", "remove"}
         \cup (Requests \ {"Edit", "Disconnect"})

(* Types, and no thread is inside two locks of the same kind.              *)
TypeOK ==
  /\ clients \in [Ids -> [conn : Conns, ready : BOOLEAN] \cup {Absent}]
  /\ clientsLock \in Conns \cup {Free}
  /\ streamLock \in [Conns -> Conns \cup {Free}]
  /\ idOf \in [Conns -> Ids \cup {Absent}]
  /\ pc \in [Conns -> PCs]
  /\ str \in [Conns -> Conns \cup {Absent}]
  /\ msg \in [Conns -> Message \cup {None}]
  /\ todo \in [Conns -> SUBSET [id : Ids, conn : Conns]]
  /\ leaving \in [Conns -> BOOLEAN]
  /\ inbox \in [Conns -> Seq(Message)]
  /\ open \in [Conns -> BOOLEAN]
  /\ wire \in [Conns -> Seq(Message \cup {Unit(a) : a \in Answers})]
  /\ unread \in [Conns -> 0..Room]
  /\ torn \in [Conns -> BOOLEAN] /\ blocking \in [Conns -> BOOLEAN]
  /\ sent \in 0..MaxMsgs
  /\ doubled \in SUBSET Ids
  /\ updated \in SUBSET Conns /\ early \in SUBSET Conns

(* Between the header of a world file and the file no other thread gets a  *)
(* byte into the stream, however many broadcast at the time; only a client *)
(* that leaves sees a header without a file.                               *)
UdmWhole ==
  \A c \in Conns : \A k \in 1..Len(wire[c]) :
    wire[c][k].kind = "Udm" =>
      IF k < Len(wire[c]) THEN wire[c][k + 1].kind = "UdmFile"
                          ELSE ~StreamFree(c) \/ ~open[c]

(* No broadcast reaches a client that joins before a PlayerUpdate of its   *)
(* own was handled: none falls before or between the files it waits for.   *)
(* There is one exception, in which the code does send broadcasts too      *)
(* soon: a thread that had read a PlayerUpdate of an older connection with *)
(* the same id before the new session replaced it (early).                 *)
JoinUndisturbed ==
  \A i \in Ids :
    clients[i] # Absent /\ Broadcasts(clients[i].conn) # {} =>
      clients[i].conn \in updated \cup early

(* The exception needs a client that connects again while a thread still   *)
(* serves its old connection.                                              *)
EarlyOnlyByTwins == \A c \in early : idOf[c] \in doubled

(* Joining is undisturbed on both sides of a lock: the world file comes    *)
(* whole, and nothing the client cannot understand comes before its own    *)
(* first PlayerUpdate, unless an older thread of its id made it ready      *)
(* (main.rs:152-168, 267-270, 434-441).                                    *)
JoinsWell == UdmWhole /\ JoinUndisturbed /\ EarlyOnlyByTwins

(* Two clients never see two messages in opposite orders, their own ones   *)
(* included: all of them apply the edits of the world in one order, with   *)
(* gaps where their buffers were full.                                     *)
SameOrder ==
  \A c, d \in Conns :
    \A k \in Broadcasts(c), m \in Broadcasts(d) :
      wire[c][k] = wire[d][m] =>
        ~ \E k2 \in Broadcasts(c), m2 \in Broadcasts(d) :
            k2 > k /\ m2 < m /\ wire[c][k2] = wire[d][m2]

(* A session disappears under the feet of its thread (the unwrap in        *)
(* PlayerUpdate, a loop that finds nothing) only when a client connected   *)
(* again while its old connection was still served.                        *)
OnlyTwinsLoseSession ==
  \A c \in Conns :
    Running(c) /\ idOf[c] \notin doubled => clients[idOf[c]] # Absent

(* When a client leaves, its session is removed, unless its thread died in *)
(* an answer to it or two threads serve the id.                            *)
DepartedAreRemoved ==
  \A c \in Conns, i \in Ids :
    (idOf[c] = i /\ ~open[c] /\ Running(c)) ~>
      (clients[i] = Absent \/ pc[c] = "dead" \/ i \in doubled)

(* As long as clients read, nobody keeps the map: a world transfer, a slow *)
(* client or a broadcast stops the server only for a while.                *)
MapComesFree == []<>(clientsLock = Free)
=============================================================================
