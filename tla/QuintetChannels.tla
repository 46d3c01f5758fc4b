--------------------------- MODULE QuintetChannels ---------------------------
(***************************************************************************)
(* The channels of one end of a jeffy_quintet connection                   *)
(* (core/jeffy_quintet/src/shared/channels and the channel operations of   *)
(* client/connection.rs and server.rs): the synchronous owner that opens   *)
(* and closes channels and queues payloads, the task that spawns a sending *)
(* task per channel, these tasks, and the reading tasks of the other end.  *)
(*                                                                         *)
(* Closing is the difficult part.  The owner broadcasts one close signal;  *)
(* a task hears it only if it subscribed before.  A sending task that      *)
(* stops sends what is buffered first, and the spawner closes the QUIC     *)
(* connection when every sending task has dropped its keepalive.           *)
(*                                                                         *)
(* The owner is the Connection of a client or the ClientConnection of an   *)
(* endpoint: a client keeps it after a disconnect, an endpoint drops it.   *)
(* QUIC itself is external: reliable streams, datagrams that may be lost,  *)
(* a window per stream, and a link that may be lost at any time.           *)
(***************************************************************************)
EXTENDS Naturals, Sequences, FiniteSets, FiniteSetsExt, SequencesExt

CONSTANTS
  Sides,     \* the ends an instance looks at, of "client" and "server"
  Plan,      \* bound: for an end, the types the first, the second...
             \* channel may have
  Sizes,     \* bound: the sizes the first, the second... payload of a
             \* channel may have
  Ids,       \* the channel ids there are, 0..254 in the code
  QueueSize, \* DEFAULT_MESSAGE_QUEUE_SIZE
  CtrlSize,  \* DEFAULT_INTERNAL_MESSAGE_CHANNEL_SIZE
  Window,    \* messages a stream takes before its reader has read any
  MaxSends   \* bound: payloads queued in a run

(* A payload may fit anything, be too large for a datagram, be as long as  *)
(* the longest frame or be longer.                                         *)
ASSUME ChannelsAssumption ==
  /\ Sides \subseteq {"client", "server"}
  /\ Plan \in [Sides -> Seq(SUBSET {"OrderedReliable", "UnorderedReliable",
                                    "Unreliable"})]
  /\ Sizes \in Seq(SUBSET {"fits", "big", "longest", "longer"})
  /\ Ids \subseteq Nat /\ IsFiniteSet(Ids)
  /\ QueueSize \in Nat \ {0} /\ CtrlSize \in Nat \ {0} /\ Window \in Nat \ {0}
  /\ MaxSends \in Nat

VARIABLES
  side,        \* which end this is
  owner,       \* the Connection or ClientConnection
  channel,     \* the channels opened so far: their id and type
  slots,       \* the vector channels: the open channel with an id, 0 if none
  available,   \* available_channel_ids
  requests,    \* CreateChannel messages for the spawner
  buffer,      \* per channel, the payloads queued for its task
  closing,     \* the channels whose own close signal was sent
  closeSent,   \* the connection's close signal was broadcast
  spawner,     \* where send_channel_task_spawner is
  spawnerDeaf, \* it subscribed to the close signal after it was sent
  task,        \* where the sending task of each channel is
  deaf,        \* the channels whose task subscribed too late
  flying,      \* per unordered channel, messages with a task of their own
  link,        \* the QUIC connection
  linkLost,    \* history: the link ended otherwise than by our close
  wire,        \* per channel, what was written and not yet read
  reading,     \* the channels whose stream the other end still reads
  listening,   \* the reading tasks of the other end run
  inbox,       \* what the other end has received and its owner not taken
  got,         \* history: per channel, what the owner of the other end took
  sent,        \* history: per channel, the payloads queued
  wasted       \* history: payloads queued and dropped before being written

ownerVars == <<owner, slots, available, closing, closeSent, sent>>
taskVars == <<spawner, spawnerDeaf, task, deaf, flying, wasted>>
peerVars == <<reading, listening, inbox, got>>
linkVars == <<link, linkLost>>
vars == <<side, channel, requests, buffer, wire, ownerVars, taskVars, peerVars,
          linkVars>>

Chans == UNION {DOMAIN Plan[s] : s \in Sides}
Payload == [n : DOMAIN Sizes, size : UNION ToSet(Sizes)]
Opened == 1..Len(channel)
Type(i) == channel[i].type
Reliable(i) == Type(i) # "Unreliable"

Spawned == {"opening", "sending", "draining"}
Over == {"done", "gone"}

(* A client is created before its link, the ClientConnection of an         *)
(* endpoint with it.                                                       *)
Init ==
  /\ side \in Sides
  /\ owner = "holding" /\ channel = <<>>
  /\ slots = [d \in Ids |-> 0] /\ available = Ids
  /\ requests = <<>> /\ buffer = [i \in Chans |-> <<>>]
  /\ closing = {} /\ closeSent = FALSE
  /\ spawner = "unborn" /\ spawnerDeaf = FALSE
  /\ task = [i \in Chans |-> "none"] /\ deaf = {}
  /\ flying = [i \in Chans |-> {}]
  /\ link = IF side = "client" THEN "dialing" ELSE "open"
  /\ linkLost = FALSE
  /\ wire = [i \in Chans |-> <<>>]
  /\ reading = Chans /\ listening = TRUE
  /\ inbox = <<>> /\ got = [i \in Chans |-> <<>>]
  /\ sent = [i \in Chans |-> <<>>] /\ wasted = {}

On(i, payloads) == {[chan |-> i, msg |-> p] : p \in payloads}
Waste(i, payloads) == wasted' = wasted \cup On(i, payloads)

----------------------------------------------------------------------------
(* The owner, in the synchronous part of the program.  A definition whose  *)
(* name ends in a bug's description is that bug planted in the definition  *)
(* after it: the properties below must not survive it.                     *)

(* The receiving end of a channel's queue lives in the request, then in    *)
(* the task.                                                               *)
QueueAlive(i) == task[i] \in {"requested"} \cup Spawned

(* open_channel: the lowest free id, which goes back if the spawner's      *)
(* queue is full or its reader gone.                                       *)
OpenChannel(type) ==
  /\ owner # "dropped" /\ available # {}
  /\ Len(channel) < Len(Plan[side]) /\ type \in Plan[side][Len(channel) + 1]
  /\ Len(requests) < CtrlSize /\ spawner # "done"
  /\ LET id == Min(available)
         i == Len(channel) + 1 IN
       /\ channel' = Append(channel, [id |-> id, type |-> type])
       /\ slots' = [slots EXCEPT ![id] = i]
       /\ available' = available \ {id}
       /\ requests' = Append(requests, i)
       /\ task' = [task EXCEPT ![i] = "requested"]
  /\ UNCHANGED <<side, buffer, wire, owner, closing, closeSent, sent, spawner,
                 spawnerDeaf, deaf, flying, wasted, peerVars,
                 linkVars>>

(* close_channel: the slot and the id are given back before the task is    *)
(* told.                                                                   *)
CloseChannel(id) ==
  /\ owner # "dropped" /\ slots[id] # 0
  /\ slots' = [slots EXCEPT ![id] = 0]
  /\ available' = available \cup {id}
  /\ closing' = closing \cup {slots[id]}
  /\ UNCHANGED <<side, channel, requests, buffer, wire, owner, closeSent, sent,
                 taskVars, peerVars, linkVars>>

TotalSent == MapThenSumSet(LAMBDA i : Len(sent[i]), Chans)

(* send_payload_on: a Connection refuses after disconnect(), an endpoint a  *)
(* client it has removed, both a channel that is not open.                 *)
ClientSends(id) == side = "client" /\ owner # "closed" /\ slots[id] # 0
EndpointSends(id) == side = "server" /\ slots[id] # 0

(* Channel::send_payload fails when the queue is full and when its task is *)
(* over.                                                                   *)
SendPayload(id, size) ==
  /\ owner # "dropped" /\ (ClientSends(id) \/ EndpointSends(id))
  /\ TotalSent < MaxSends
  /\ LET i == slots[id]
         p == [n |-> Len(sent[i]) + 1, size |-> size] IN
       /\ p.n \in DOMAIN Sizes /\ size \in Sizes[p.n]
       /\ QueueAlive(i) /\ Len(buffer[i]) < QueueSize
       /\ buffer' = [buffer EXCEPT ![i] = Append(@, p)]
       /\ sent' = [sent EXCEPT ![i] = Append(@, p)]
  /\ UNCHANGED <<side, channel, requests, wire, owner, slots, available,
                 closing, closeSent, taskVars, peerVars, linkVars>>

(* Connection::disconnect, and ClientConnection::close followed by the end *)
(* of the ClientConnection.                                                *)
Disconnect ==
  /\ owner = "holding"
  /\ owner' = IF side = "client" THEN "closed" ELSE "dropped"
  /\ closeSent' = TRUE
  /\ UNCHANGED <<side, channel, requests, buffer, wire, slots, available,
                 closing, sent, taskVars, peerVars, linkVars>>

(* close_connection drops the Connection, reconnect replaces all it held.  *)
Drop ==
  /\ side = "client" /\ owner # "dropped"
  /\ owner' = "dropped"
  /\ closeSent' = TRUE
  /\ UNCHANGED <<side, channel, requests, buffer, wire, slots, available,
                 closing, sent, taskVars, peerVars, linkVars>>

----------------------------------------------------------------------------
(* The tasks of this end.                                                  *)

(* The sender half of the queue of a channel is dropped with its slot.     *)
SenderGone(i) == owner = "dropped" \/ slots[channel[i].id] # i
(* A dropped broadcast sender wakes every receiver, deaf ones included.    *)
Hears(isDeaf) == (closeSent /\ ~isDeaf) \/ owner = "dropped"

Connects ==
  /\ link = "dialing"
  /\ link' = "open"
  /\ UNCHANGED <<side, channel, requests, buffer, wire, ownerVars, taskVars,
                 peerVars, linkLost>>

(* The requests nobody took go with the spawner, and the queues in them.   *)
DropRequests ==
  LET orphans == ToSet(requests) IN
    /\ requests' = <<>>
    /\ task' = [i \in Chans |-> IF i \in orphans THEN "gone" ELSE task[i]]
    /\ buffer' = [i \in Chans |-> IF i \in orphans THEN <<>> ELSE buffer[i]]
    /\ wasted' = wasted \cup UNION {On(i, ToSet(buffer[i])) : i \in orphans}

(* The handshake fails: the task ends before it has started the spawner.   *)
Fails ==
  /\ link = "dialing"
  /\ link' = "closed" /\ linkLost' = TRUE
  /\ spawner' = "done"
  /\ DropRequests
  /\ UNCHANGED <<side, channel, wire, ownerVars, spawnerDeaf, deaf, flying,
                 peerVars>>

(* The client subscribes its spawner when the link is there, the endpoint  *)
(* hands over the first subscription.                                      *)
Start ==
  /\ spawner = "unborn" /\ link # "dialing"
  /\ spawner' = "serving"
  /\ spawnerDeaf' = (side = "client" /\ closeSent)
  /\ UNCHANGED <<side, channel, requests, buffer, wire, ownerVars, task, deaf,
                 flying, wasted, peerVars, linkVars>>

Spawn ==
  /\ spawner = "serving" /\ requests # <<>>
  /\ LET i == Head(requests) IN
       /\ task' = [task EXCEPT ![i] =
                     IF Type(i) = "OrderedReliable" THEN "opening" ELSE "sending"]
       /\ deaf' = IF closeSent THEN deaf \cup {i} ELSE deaf
  /\ requests' = Tail(requests)
  /\ UNCHANGED <<side, channel, buffer, wire, ownerVars, spawner, spawnerDeaf,
                 flying, wasted, peerVars, linkVars>>

(* The select of the spawner: when both branches can run, either may.      *)
StopSpawning ==
  /\ spawner = "serving"
  /\ Hears(spawnerDeaf) \/ (owner = "dropped" /\ requests = <<>>)
  /\ spawner' = "joining"
  /\ UNCHANGED <<side, channel, requests, buffer, wire, ownerVars, spawnerDeaf,
                 task, deaf, flying, wasted, peerVars, linkVars>>

(* No keepalive is left: the link is closed and the requests dropped.      *)
AllFinished_HoldsItsOwn == FALSE
AllFinished_NotHelpers == \A i \in Opened : task[i] \notin Spawned
AllFinished == \A i \in Opened : task[i] \notin Spawned /\ flying[i] = {}
Join ==
  /\ spawner = "joining" /\ AllFinished
  /\ spawner' = "done"
  /\ link' = "closed"
  /\ DropRequests
  /\ UNCHANGED <<side, channel, wire, ownerVars, spawnerDeaf, deaf, flying,
                 peerVars, linkLost>>

(* open_uni, whose failure panics: the task takes its queue along.         *)
OpenStream(i) ==
  /\ task[i] = "opening"
  /\ \/ /\ link = "open"
        /\ task' = [task EXCEPT ![i] = "sending"]
        /\ UNCHANGED <<buffer, wasted>>
     \/ /\ link = "closed"
        /\ task' = [task EXCEPT ![i] = "gone"]
        /\ buffer' = [buffer EXCEPT ![i] = <<>>]
        /\ Waste(i, ToSet(buffer[i]))
  /\ UNCHANGED <<side, channel, requests, wire, ownerVars, spawner, spawnerDeaf,
                 deaf, flying, peerVars, linkVars>>

(* One write on a stream.  The encoder refuses a frame longer than the     *)
(* longest, a stream nobody reads any more fails.                          *)
Encodes(p) == p.size # "longer"
Room(i) == link = "open" /\ i \in reading /\ listening /\ Len(wire[i]) < Window
Broken(i) == link = "closed" \/ i \notin reading \/ ~listening
Writes(i, p) ==
  /\ Encodes(p) /\ Room(i)
  /\ wire' = [wire EXCEPT ![i] = Append(@, p)]
WriteFails(i, p) == ~Encodes(p) \/ Broken(i)

(* A datagram is sent at once, or refused for its size.                    *)
SendsDatagram(i, p) ==
  /\ link = "open" /\ p.size = "fits"
  /\ wire' = [wire EXCEPT ![i] = Append(@, p)]
DatagramFails(p) == link = "closed" \/ p.size # "fits"

(* A task tells the owner that the connection is lost and goes on: what    *)
(* the owner then does is in QuintetConnections.  It panics when the owner *)
(* is gone, and what it had buffered goes with it.                         *)
Panics(i) ==
  /\ task[i] = "sending" /\ owner = "dropped"
  /\ Reliable(i) \/ link = "closed"
Fail(i, p) ==
  IF Panics(i)
    THEN /\ task' = [task EXCEPT ![i] = "gone"]
         /\ buffer' = [buffer EXCEPT ![i] = <<>>]
         /\ Waste(i, ToSet(buffer[i]))
    ELSE /\ buffer' = [buffer EXCEPT ![i] = Tail(@)]
         /\ Waste(i, {p})
         /\ UNCHANGED task

(* The body of the loop of each kind of task, and of its drain.            *)
Transmit(i) ==
  /\ task[i] \in {"sending", "draining"} /\ buffer[i] # <<>>
  /\ LET p == Head(buffer[i])
         taken == buffer' = [buffer EXCEPT ![i] = Tail(@)] IN
       \/ /\ IF Reliable(i) THEN Type(i) = "OrderedReliable" /\ Writes(i, p)
                              ELSE SendsDatagram(i, p)
          /\ taken /\ UNCHANGED <<task, flying, wasted>>
       \/ /\ IF Reliable(i) THEN Type(i) = "OrderedReliable" /\ WriteFails(i, p)
                              ELSE DatagramFails(p)
          /\ Fail(i, p) /\ UNCHANGED <<wire, flying>>
       \/ /\ Type(i) = "UnorderedReliable"
          /\ flying' = [flying EXCEPT ![i] = @ \cup {p}]
          /\ taken /\ UNCHANGED <<wire, task, wasted>>
  /\ UNCHANGED <<side, channel, requests, ownerVars, spawner, spawnerDeaf, deaf,
                 peerVars, linkVars>>

(* The task of one unordered message: a stream of its own.                 *)
Help(i) ==
  /\ \E p \in flying[i] :
       /\ flying' = [flying EXCEPT ![i] = @ \ {p}]
       /\ \/ Writes(i, p) /\ UNCHANGED wasted
          \/ WriteFails(i, p) /\ Waste(i, {p}) /\ UNCHANGED wire
  /\ UNCHANGED <<side, channel, requests, buffer, ownerVars, spawner, spawnerDeaf,
                 task, deaf, peerVars, linkVars>>

(* The select of a task: the connection's signal, the channel's, or the    *)
(* end of its queue.                                                       *)
Stop(i) ==
  /\ task[i] = "sending"
  /\ \/ Hears(i \in deaf)
     \/ i \in closing
     \/ SenderGone(i)
  /\ task' = [task EXCEPT ![i] = "draining"]
  /\ UNCHANGED <<side, channel, requests, buffer, wire, ownerVars, spawner,
                 spawnerDeaf, deaf, flying, wasted, peerVars, linkVars>>

(* Nothing is buffered any more: the task ends, an ordered one after it    *)
(* has flushed and finished its stream.                                    *)
Drained(i) == buffer[i] = <<>>
Finish(i) ==
  /\ task[i] = "draining" /\ Drained(i)
  /\ task' = [task EXCEPT ![i] = "done"]
  /\ Waste(i, ToSet(buffer[i]))
  /\ buffer' = [buffer EXCEPT ![i] = <<>>]
  /\ UNCHANGED <<side, channel, requests, wire, ownerVars, spawner, spawnerDeaf,
                 deaf, flying, peerVars, linkVars>>

----------------------------------------------------------------------------
(* The link and the other end.                                             *)

(* The other end closes it or it times out: of what is on the way, a       *)
(* first part arrives.                                                     *)
LinkLost ==
  /\ link = "open"
  /\ link' = "closed" /\ linkLost' = TRUE
  /\ \E k \in [Chans -> 0..Window] :
       /\ \A i \in Chans : k[i] <= Len(wire[i])
       /\ wire' = [i \in Chans |-> SubSeq(wire[i], 1, k[i])]
  /\ UNCHANGED <<side, channel, requests, buffer, ownerVars, taskVars, peerVars>>

(* The decoder counts the channel id into the length and refuses what the  *)
(* encoder let pass: the task that reads the stream ends.                  *)
Decodes(p) == p.size # "longest"
ReadOn_Skipping(i) == reading
ReadOn(i) == IF Type(i) = "OrderedReliable" THEN reading \ {i} ELSE reading
ReadStream(i) ==
  /\ listening /\ i \in reading /\ wire[i] # <<>>
  /\ Len(inbox) < QueueSize
  /\ \E k \in IF Type(i) = "OrderedReliable" THEN {1} ELSE 1..Len(wire[i]) :
       LET p == wire[i][k] IN
         \/ /\ Type(i) = "Unreliable" \/ Decodes(p)
            /\ inbox' = Append(inbox, [chan |-> i, msg |-> p])
            /\ wire' = [wire EXCEPT ![i] = RemoveAt(@, k)]
            /\ UNCHANGED reading
         \/ /\ Reliable(i) /\ ~Decodes(p)
            /\ reading' = ReadOn(i)
            /\ wire' = [wire EXCEPT ![i] =
                 IF Type(i) = "OrderedReliable" THEN <<>> ELSE RemoveAt(@, k)]
            /\ UNCHANGED inbox
  /\ UNCHANGED <<side, channel, requests, buffer, ownerVars, taskVars, listening,
                 got, linkVars>>

LoseDatagram(i) ==
  /\ i \in Opened /\ ~Reliable(i) /\ wire[i] # <<>>
  /\ wire' = [wire EXCEPT ![i] = Tail(@)]
  /\ UNCHANGED <<side, channel, requests, buffer, ownerVars, taskVars, peerVars,
                 linkVars>>

(* The other end takes what has arrived, until it is disconnected: an      *)
(* endpoint with receive_payload_from, a client with receive_payload.      *)
EndpointReceives == side = "client" /\ listening
ClientReceives == side = "server" /\ listening
Take ==
  /\ EndpointReceives \/ ClientReceives
  /\ inbox # <<>>
  /\ LET m == Head(inbox) IN got' = [got EXCEPT ![m.chan] = Append(@, m.msg)]
  /\ inbox' = Tail(inbox)
  /\ UNCHANGED <<side, channel, requests, buffer, wire, ownerVars, taskVars,
                 reading, listening, linkVars>>

(* The other end disconnects, or notices that the link is closed: what its *)
(* owner has not taken is gone.                                            *)
PeerCloses ==
  /\ listening
  /\ listening' = FALSE
  /\ inbox' = <<>>
  /\ wire' = [i \in Chans |-> <<>>]
  /\ UNCHANGED <<side, channel, requests, buffer, ownerVars, taskVars, reading,
                 got, linkVars>>

Owner ==
  \/ \E type \in UNION ToSet(Plan[side]) : OpenChannel(type)
  \/ \E id \in Ids : CloseChannel(id)
  \/ \E id \in Ids, size \in UNION ToSet(Sizes) : SendPayload(id, size)
  \/ Disconnect \/ Drop
Spawner == Start \/ Spawn \/ StopSpawning \/ Join
Task(i) == OpenStream(i) \/ Transmit(i) \/ Stop(i) \/ Finish(i)
Tasks == Spawner \/ \E i \in Opened : Task(i) \/ Help(i)
Peer ==
  \/ \E i \in Opened : ReadStream(i) \/ LoseDatagram(i)
  \/ Take \/ PeerCloses
Next == Owner \/ Tasks \/ Peer \/ Connects \/ Fails \/ LinkLost

Spec == Init /\ [][Next]_vars

----------------------------------------------------------------------------
(* What is assumed of the scheduler: every task gets on, a handshake ends, *)
(* the owner runs its update, and the other end reads what has arrived.    *)
Fairness ==
  /\ WF_vars(Spawner) /\ WF_vars(Connects \/ Fails)
  /\ WF_vars(Take)
  /\ \A i \in Chans : /\ WF_vars(i \in Opened /\ Task(i))
                       /\ WF_vars(i \in Opened /\ Help(i))
                       /\ WF_vars(i \in Opened /\ ReadStream(i))
FairSpec == Spec /\ Fairness

----------------------------------------------------------------------------
(* The values of the variables.                                            *)
TypeOK ==
  /\ side \in Sides /\ owner \in {"holding", "closed", "dropped"}
  /\ channel \in Seq([id : Ids, type : UNION ToSet(Plan[side])])
  /\ Len(channel) <= Len(Plan[side])
  /\ slots \in [Ids -> 0..Len(channel)]
  /\ available = {id \in Ids : slots[id] = 0}
  /\ requests \in Seq(Opened) /\ Len(requests) <= CtrlSize
  /\ buffer \in [Chans -> Seq(Payload)]
  /\ \A i \in Chans : Len(buffer[i]) <= QueueSize
  /\ closing \subseteq Opened /\ closeSent \in BOOLEAN
  /\ spawner \in {"unborn", "serving", "joining", "done"}
  /\ spawnerDeaf \in BOOLEAN
  /\ task \in [Chans -> {"none", "requested"} \cup Spawned \cup Over]
  /\ deaf \subseteq Opened
  /\ flying \in [Chans -> SUBSET Payload]
  /\ link \in {"dialing", "open", "closed"} /\ linkLost \in BOOLEAN
  /\ wire \in [Chans -> Seq(Payload)]
  /\ reading \subseteq Chans /\ listening \in BOOLEAN
  /\ inbox \in Seq([chan : Opened, msg : Payload]) /\ Len(inbox) <= QueueSize
  /\ got \in [Chans -> Seq(Payload)] /\ sent \in [Chans -> Seq(Payload)]
  /\ wasted \subseteq [chan : Opened, msg : Payload]

(* Each channel keeps what its type promises (ChannelType, channels.rs     *)
(* 34-45), whatever is opened and closed around it: an ordered channel     *)
(* delivers in order and leaves no gap but what was too long to encode,    *)
(* and no channel delivers anything twice.                                 *)
Promise == INSTANCE ChannelPromise
             WITH type <- [i \in Chans |-> IF i \in Opened THEN Type(i) ELSE "None"],
                  received <- got
KeepsPromise == Promise!Spec

(* What is queued on a reliable channel is written before this end closes  *)
(* the link (Connection::disconnect, ClientConnection::close), with these  *)
(* exceptions: the payload is too long, the link was lost or its reader    *)
(* stopped, the spawner heard the close before it made a task for the      *)
(* channel, or the task panicked on a payload before, its owner gone.      *)
Excused(w) == linkLost \/ ~listening \/ w.chan \notin reading \/ ~Encodes(w.msg)
Orphan(i) == task[i] = "gone"
ClosesAfterSending ==
  \A w \in wasted : Reliable(w.chan) => Excused(w) \/ Orphan(w.chan)

(* Once the close signal is sent the spawner ends, and with it the link,   *)
(* unless a client's task subscribed too late to hear it and the client    *)
(* keeps the Connection.                                                   *)
Unheard ==
  /\ owner = "closed"
  /\ spawnerDeaf \/ \E i \in deaf : task[i] \in Spawned
CloseCompletes == closeSent ~> (spawner = "done" \/ Unheard)
=============================================================================
