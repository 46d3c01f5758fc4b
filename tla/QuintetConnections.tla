-------------------------- MODULE QuintetConnections --------------------------
(***************************************************************************)
(* Connections of jeffy_quintet: the Endpoint of a server (server.rs), the *)
(* connections of a client (client.rs, client/connection.rs), and the      *)
(* tasks between them, one link per attempt to connect.                    *)
(*                                                                         *)
(* Each end is a synchronous object changed by its program and by its      *)
(* update system, which drains the queues its tasks write to.  The         *)
(* difficulty is that these messages are about a past the object has left: *)
(* a connection disconnected meanwhile, a client removed meanwhile, an     *)
(* endpoint stopped and started again.                                     *)
(*                                                                         *)
(* What is sent on the channels is in QuintetChannels; here a channel is   *)
(* its id in the tables of the endpoint and of each of its clients.        *)
(***************************************************************************)
EXTENDS Naturals, Sequences, FiniteSets, FiniteSetsExt, SequencesExt

CONSTANTS
  Casts,        \* bounds: the casts an instance plays, each with its number
                \* of connections of the client, of attempts to connect by
                \* the client and by others, and of turns, a turn being
                \* what the two programs and the network do besides opening
                \* connections and starting endpoints
  MaxEndpoints, \* bound: endpoints started
  Ids,          \* the channel ids there are, 0..254 in the code
  CtrlSize      \* DEFAULT_INTERNAL_MESSAGE_CHANNEL_SIZE

ASSUME ConnectionsAssumption ==
  /\ \A c \in Casts : c \in [conns : Nat, own : Nat, others : Nat, turns : Nat]
  /\ Casts # {} /\ IsFiniteSet(Casts)
  /\ MaxEndpoints \in Nat
  /\ Ids \subseteq Nat /\ IsFiniteSet(Ids)
  /\ CtrlSize \in Nat \ {0}

VARIABLES
  cast,      \* bound: the cast being played
  \* the client
  conns,     \* per local id: its state, link and client id; <<>> at first
  default,   \* default_connection_id, 0 for none
  dial,      \* per link, where async_connection_task is
  news,      \* per link, the queue to_sync_client
  brokenC,   \* the links whose channels told the client LostConnection
  closeSent, \* the links whose close signal was sent
  dropped,   \* the links whose Connection is gone or has moved on
  deaf,      \* the links whose tasks subscribed after the close signal
  running,   \* the links whose client tasks run
  watchedC,  \* the links whose client has noticed the end
  \* QUIC
  link,      \* per attempt: "none", "dialing", "open" or "closed"
  idSent,    \* the links on which the endpoint sent the client id
  \* the server
  endpoint,  \* number of the endpoint there is, 0 for none
  started,   \* bound: number of endpoints so far
  home,      \* per link, the endpoint it reached
  serving,   \* per link, where client_connection_task is
  id,        \* per link, the client id
  client_id_gen,
  queue,     \* from_async_server_recv
  clients,   \* the links of the clients of the endpoint
  ending,    \* the links whose ClientConnection is gone
  watchedS,  \* the links whose end the endpoint's task has noticed
  brokenS,   \* the links whose channels told the endpoint LostConnection
  opened_channels, available_channel_ids, default_channel,
  slots,     \* per link, the channels its ClientConnection has open
  requests,  \* per link, CreateChannel messages its spawner has not taken
  alive,     \* per link, the channels whose request or task there still is
  torn,      \* history: an open or close stopped half-way through the clients
  \* what the program of each end is told
  connects,  \* history: the links with a ConnectionEvent at the server
  losses,    \* history: per link, ConnectionLostEvents at the server
  kicked,    \* history: the links whose client the server disconnected
  revived,   \* history: the links told Connected after they were told the end
  turns      \* bound: the turns taken

clientVars == <<conns, default, closeSent, dropped>>
clientTasks == <<dial, news, brokenC, deaf, running, watchedC>>
serverTasks == <<serving, watchedS, brokenS, requests, alive, idSent>>
tableVars == <<opened_channels, available_channel_ids, default_channel, slots,
               torn>>
endpointVars == <<endpoint, started, id, client_id_gen, clients, ending>>
history == <<connects, losses, kicked>>
vars == <<clientVars, clientTasks, link, home, serverTasks, tableVars,
          endpointVars, queue, history, revived, turns, cast>>

MaxLinks == Max({c.own + c.others : c \in Casts})
Links == 1..MaxLinks
Own == 1..cast.own
Others == (cast.own + 1)..(cast.own + cast.others)
Tried == {l \in Links : link[l] # "none"}
Locals == 1..Len(conns)
Live(k) == conns[k].state # "closed"

Init ==
  /\ conns = <<>> /\ default = 0
  /\ dial = [l \in Links |-> "none"] /\ news = [l \in Links |-> <<>>]
  /\ cast \in Casts
  /\ brokenC = {} /\ closeSent = {} /\ dropped = Others /\ deaf = {}
  /\ running = {} /\ watchedC = {}
  /\ link = [l \in Links |-> "none"] /\ idSent = {}
  /\ endpoint = 0 /\ started = 0 /\ home = [l \in Links |-> 0]
  /\ serving = [l \in Links |-> "none"] /\ id = [l \in Links |-> 0]
  /\ client_id_gen = 0 /\ queue = <<>> /\ clients = {} /\ ending = {}
  /\ watchedS = {} /\ brokenS = {}
  /\ opened_channels = {} /\ available_channel_ids = Ids /\ default_channel = {}
  /\ slots = [l \in Links |-> {}] /\ requests = [l \in Links |-> <<>>]
  /\ alive = [l \in Links |-> {}] /\ torn = FALSE
  /\ connects = {} /\ losses = [l \in Links |-> 0] /\ kicked = {}
  /\ revived = {} /\ turns = 0

----------------------------------------------------------------------------
(* The program of the client.  A definition whose name ends in a bug's     *)
(* description is that bug planted in the definition after it: the         *)
(* properties below must not survive it.                                   *)

NewLink == Cardinality(Tried \cap Own) + 1
Dial(l) == /\ l \in Own
           /\ link' = [link EXCEPT ![l] = "dialing"]
           /\ dial' = [dial EXCEPT ![l] = "dialing"]

Fresh(l) == [state |-> "Connecting", link |-> l, client_id |-> 0]

open_connection ==
  /\ Len(conns) < cast.conns
  /\ Dial(NewLink)
  /\ conns' = Append(conns, Fresh(NewLink))
  /\ default' = IF default = 0 THEN Len(conns) + 1 ELSE default
  /\ UNCHANGED <<closeSent, dropped, news, brokenC, deaf, running, watchedC, home,
                 serverTasks, tableVars, endpointVars, queue, history, revived>>

(* The queues are new, and the tasks of the old link find theirs closed.   *)
reconnect(k) ==
  /\ conns[k].state = "Disconnected"
  /\ Dial(NewLink)
  /\ conns' = [conns EXCEPT ![k] = Fresh(NewLink)]
  /\ dropped' = dropped \cup {conns[k].link}
  /\ UNCHANGED <<default, closeSent, news, brokenC, deaf, running, watchedC, home,
                 serverTasks, tableVars, endpointVars, queue, history, revived>>

disconnect(k) ==
  /\ conns[k].state \in {"Connecting", "Connected"}
  /\ conns' = [conns EXCEPT ![k].state = "Disconnected"]
  /\ closeSent' = closeSent \cup {conns[k].link}
  /\ UNCHANGED <<default, dropped, clientTasks, link, home, serverTasks,
                 tableVars, endpointVars, queue, history, revived>>

(* Some task of the link still holds a receiver of the close signal.       *)
Receives(l) == dial[l] \in {"dialing", "awaiting"} \/ l \in running
DisconnectFails(k) ==
  conns[k].state # "Disconnected" /\ ~Receives(conns[k].link)

Removed(S) ==
  /\ conns' = [k \in Locals |->
                 IF k \in S THEN [conns[k] EXCEPT !.state = "closed"] ELSE conns[k]]
  /\ default' = IF default \in S THEN 0 ELSE default
  /\ closeSent' = closeSent \cup {conns[k].link : k \in S}
  /\ dropped' = dropped \cup {conns[k].link : k \in S}
  /\ UNCHANGED <<clientTasks, link, home, serverTasks, tableVars, endpointVars,
                 queue, history, revived>>

close_connection(k) == Live(k) /\ Removed({k})

(* Stops at the first connection that cannot be disconnected, in no        *)
(* particular order.                                                       *)
close_all_connections ==
  LET live == {k \in Locals : Live(k)}
      bad == {k \in live : DisconnectFails(k)} IN
    /\ live # {}
    /\ \/ bad = {} /\ Removed(live)
       \/ \E k \in bad : \E S \in SUBSET (live \ bad) : Removed(S \cup {k})

Lost(k, l) ==
  /\ conns' = [conns EXCEPT ![k].state = "Disconnected"]
  /\ closeSent' = IF conns[k].state = "Disconnected"
                    THEN closeSent ELSE closeSent \cup {l}

(* One message of the queue of a connection, in update_sync_client: the    *)
(* news of a connection, then what its channels say.  Between two messages *)
(* the program may act, as if the second had come after the update.        *)
ReadNews(k) ==
  /\ Live(k)
  /\ LET l == conns[k].link IN
       /\ news[l] # <<>>
       /\ news' = [news EXCEPT ![l] = Tail(@)]
       /\ \/ /\ Head(news[l]) = "Connected"
             /\ conns' = [conns EXCEPT ![k].state = "Connected",
                                       ![k].client_id = id[l]]
             /\ revived' = IF conns[k].state = "Disconnected"
                             THEN revived \cup {l} ELSE revived
             /\ UNCHANGED closeSent
          \/ /\ Head(news[l]) = "Failed"
             /\ conns' = [conns EXCEPT ![k].state = "Disconnected"]
             /\ UNCHANGED <<closeSent, revived>>
          \/ /\ Head(news[l]) = "Closed"
             /\ Lost(k, l) /\ UNCHANGED revived
  /\ UNCHANGED <<default, dropped, dial, brokenC, deaf, running, watchedC, link,
                 home, serverTasks, tableVars, endpointVars, queue, history>>

ReadBroken(k) ==
  /\ Live(k)
  /\ LET l == conns[k].link IN
       /\ news[l] = <<>> /\ l \in brokenC
       /\ brokenC' = brokenC \ {l}
       /\ Lost(k, l)
  /\ UNCHANGED <<default, dropped, dial, news, deaf, running, watchedC, link,
                 home, serverTasks, tableVars, endpointVars, queue, history,
                 revived>>

----------------------------------------------------------------------------
(* The tasks of the client.                                                *)

(* The queue is closed once the Connection is gone.                        *)
Tell(l, what) ==
  news' = IF l \in dropped THEN news ELSE [news EXCEPT ![l] = Append(@, what)]

unchangedByClientTasks == <<clientVars, home, serverTasks, tableVars,
                            endpointVars, queue, history, revived>>

DialFails(l) ==
  /\ link[l] = "dialing"
  /\ link' = [link EXCEPT ![l] = "closed"]
  /\ dial' = [dial EXCEPT ![l] = "failed"]
  /\ Tell(l, "Failed")
  /\ UNCHANGED <<unchangedByClientTasks, brokenC, deaf, running, watchedC>>

(* The listener for the end and the channel tasks are started, then the    *)
(* client id is waited for.                                                *)
Begin(l) ==
  /\ dial[l] = "dialing" /\ link[l] # "dialing"
  /\ dial' = [dial EXCEPT ![l] = "awaiting"]
  /\ running' = running \cup {l}
  /\ deaf' = IF l \in closeSent THEN deaf \cup {l} ELSE deaf
  /\ UNCHANGED <<unchangedByClientTasks, link, news, brokenC, watchedC>>

(* The select of receive_client_id, and what async_connection_task makes   *)
(* of its result.  It subscribed before anything else.                     *)
ReceiveId(l) ==
  /\ dial[l] = "awaiting"
  /\ dial' = [dial EXCEPT ![l] = "over"]
  /\ \/ l \in idSent /\ Tell(l, "Connected")
     \/ link[l] = "closed" /\ Tell(l, "Failed")
     \/ l \in closeSent \cup dropped /\ UNCHANGED news
  /\ UNCHANGED <<unchangedByClientTasks, link, brokenC, deaf, running, watchedC>>

Begun(l) == dial[l] \in {"awaiting", "over"}
NoticeClosed(l) ==
  /\ Begun(l) /\ link[l] = "closed" /\ l \notin watchedC
  /\ watchedC' = watchedC \cup {l}
  /\ Tell(l, "Closed")
  /\ UNCHANGED <<unchangedByClientTasks, link, dial, brokenC, deaf, running>>

(* A payload was too long, or the link is closed.                          *)
Breaks(l) ==
  /\ l \in running \ (dropped \cup brokenC)
  /\ brokenC' = brokenC \cup {l}
  /\ UNCHANGED <<unchangedByClientTasks, link, dial, news, deaf, running,
                 watchedC>>

(* The channel tasks have sent what was buffered and end (QuintetChannels).*)
End(l) ==
  /\ l \in running
  /\ (l \in closeSent \ deaf) \/ l \in dropped
  /\ running' = running \ {l}
  /\ link' = [link EXCEPT ![l] = "closed"]
  /\ UNCHANGED <<unchangedByClientTasks, dial, news, brokenC, deaf, watchedC>>

----------------------------------------------------------------------------
(* The link.                                                               *)

(* The task of the endpoint announces the connection to it.                *)
Handshake(l) ==
  /\ link[l] = "dialing" /\ endpoint # 0
  /\ link' = [link EXCEPT ![l] = "open"]
  /\ home' = [home EXCEPT ![l] = endpoint]
  /\ serving' = [serving EXCEPT ![l] = "announced"]
  /\ queue' = Append(queue, [kind |-> "connected", link |-> l])
  /\ UNCHANGED <<clientVars, clientTasks, watchedS, brokenS, requests, alive,
                 idSent, tableVars, endpointVars, history, revived>>

(* Another program connects; of its end only the link is looked at.        *)
OtherDials(l) ==
  /\ link[l] = "none"
  /\ link' = [link EXCEPT ![l] = "dialing"]
  /\ UNCHANGED <<clientVars, clientTasks, home, serverTasks, tableVars,
                 endpointVars, queue, history, revived>>

LinkLost(l) ==
  /\ link[l] = "open"
  /\ link' = [link EXCEPT ![l] = "closed"]
  /\ UNCHANGED <<clientVars, clientTasks, home, serverTasks, tableVars,
                 endpointVars, queue, history, revived>>

----------------------------------------------------------------------------
(* The tasks of the server.                                                *)

unchangedByServerTasks == <<clientVars, clientTasks, home, tableVars,
                            endpointVars, history, revived>>
Here(l) == endpoint # 0 /\ home[l] = endpoint

(* The endpoint has refused the client, or is gone with its queue.         *)
Refused(l) ==
  /\ serving[l] = "announced"
  /\ \A i \in DOMAIN queue : queue[i].link # l
  /\ serving' = [serving EXCEPT ![l] = "refused"]
  /\ link' = [link EXCEPT ![l] = "closed"]
  /\ UNCHANGED <<unchangedByServerTasks, watchedS, brokenS, requests, alive,
                 idSent, queue>>

(* The spawner makes a task for a channel; the task of an ordered one      *)
(* panics when the link is closed.  alive is about the last request with   *)
(* an id.                                                                  *)
SpawnTask(l) ==
  /\ serving[l] = "serving" /\ requests[l] # <<>>
  /\ requests' = [requests EXCEPT ![l] = Tail(@)]
  /\ \/ UNCHANGED alive
     \/ /\ link[l] = "closed"
        /\ Head(requests[l]) \notin ToSet(Tail(requests[l]))
        /\ alive' = [alive EXCEPT ![l] = @ \ {Head(requests[l])}]
  /\ UNCHANGED <<unchangedByServerTasks, link, serving, watchedS, brokenS,
                 idSent, queue>>

(* A payload was too long, or the link is closed, which the task that      *)
(* sends the client id may be the first to find.                           *)
BreaksS(l) ==
  /\ serving[l] = "serving" /\ l \notin ending \cup brokenS
  /\ alive[l] \ ToSet(requests[l]) # {} \/ link[l] = "closed"
  /\ brokenS' = brokenS \cup {l}
  /\ UNCHANGED <<unchangedByServerTasks, link, serving, watchedS, requests,
                 alive, idSent, queue>>

ToldToEnd_OrClosed(l) == l \in ending \/ link[l] = "closed"
ToldToEnd(l) == l \in ending
EndS(l) ==
  /\ serving[l] = "serving" /\ ToldToEnd(l)
  /\ serving' = [serving EXCEPT ![l] = "ended"]
  /\ link' = [link EXCEPT ![l] = "closed"]
  /\ requests' = [requests EXCEPT ![l] = <<>>]
  /\ alive' = [alive EXCEPT ![l] = {}]
  /\ UNCHANGED <<unchangedByServerTasks, watchedS, brokenS, idSent, queue>>

(* Also an end that came before the task began to watch.                   *)
Watches_WhatFollows(l) == serving[l] \in {"serving", "ended"} /\ l \in idSent
Watches(l) == serving[l] \in {"serving", "ended"}
NoticeClosedS(l) ==
  /\ Watches(l) /\ link[l] = "closed"
  /\ l \notin watchedS
  /\ watchedS' = watchedS \cup {l}
  /\ queue' = IF Here(l) THEN Append(queue, [kind |-> "closed", link |-> l])
                        ELSE queue
  /\ UNCHANGED <<unchangedByServerTasks, link, serving, brokenS, requests,
                 alive, idSent>>

----------------------------------------------------------------------------
(* The program of the server.                                              *)

unchangedByServer == <<clientVars, clientTasks, link, home, revived>>

(* The endpoint opens the channels of its configuration.                   *)
start_endpoint ==
  /\ endpoint = 0 /\ started < MaxEndpoints
  /\ endpoint' = started + 1 /\ started' = started + 1
  /\ \E config \in SUBSET Ids :
       /\ \A i \in config : {j \in Ids : j < i} \subseteq config
       /\ opened_channels' = config
       /\ available_channel_ids' = Ids \ config
       /\ default_channel' = IF config = {} THEN {} ELSE {Min(config)}
  /\ torn' = FALSE
  /\ client_id_gen' = 0
  /\ UNCHANGED <<unchangedByServer, serverTasks, slots, id, clients, ending,
                 queue, history>>

Leave(S) ==
  /\ clients' = clients \ S
  /\ ending' = ending \cup S

(* The queue goes with the endpoint, and the connections announced in it.  *)
stop_endpoint ==
  /\ endpoint # 0
  /\ endpoint' = 0
  /\ Leave(clients) /\ kicked' = kicked \cup clients
  /\ queue' = <<>>
  /\ opened_channels' = {} /\ available_channel_ids' = Ids
  /\ default_channel' = {} /\ torn' = FALSE
  /\ UNCHANGED <<unchangedByServer, serverTasks, slots, started, id,
                 client_id_gen, connects, losses>>

disconnect_client(l) ==
  /\ l \in clients
  /\ Leave({l}) /\ kicked' = kicked \cup {l}
  /\ UNCHANGED <<unchangedByServer, serverTasks, tableVars, endpoint, started,
                 id, client_id_gen, queue, connects, losses>>

disconnect_all_clients ==
  /\ clients # {}
  /\ Leave(clients) /\ kicked' = kicked \cup clients
  /\ UNCHANGED <<unchangedByServer, serverTasks, tableVars, endpoint, started,
                 id, client_id_gen, queue, connects, losses>>

(* The channel is created at every client in turn; it stops at the first   *)
(* whose queue is full, and the clients before it keep the channel.        *)
Create(S, ch) ==
  /\ slots' = [l \in Links |-> IF l \in S THEN slots[l] \cup {ch} ELSE slots[l]]
  /\ alive' = [l \in Links |-> IF l \in S THEN alive[l] \cup {ch} ELSE alive[l]]
  /\ requests' = [l \in Links |-> IF l \in S THEN Append(requests[l], ch)
                                             ELSE requests[l]]
Full(l) == Len(requests[l]) >= CtrlSize
open_channel ==
  /\ endpoint # 0 /\ available_channel_ids # {}
  /\ LET ch == Min(available_channel_ids)
         full == {l \in clients : Full(l)} IN
       \/ /\ full = {} /\ Create(clients, ch)
          /\ opened_channels' = opened_channels \cup {ch}
          /\ available_channel_ids' = available_channel_ids \ {ch}
          /\ default_channel' = IF default_channel = {} THEN {ch} ELSE default_channel
          /\ UNCHANGED torn
       \/ /\ full # {}
          /\ \E S \in (SUBSET (clients \ full)) \ {{}} : Create(S, ch)
          /\ torn' = TRUE
          /\ UNCHANGED <<opened_channels, available_channel_ids, default_channel>>
  /\ UNCHANGED <<unchangedByServer, endpointVars, queue, history, serving,
                 watchedS, brokenS, idSent>>

(* The same with a client that has not this channel or whose task is gone: *)
(* the clients after it keep the channel, and the id is not given back.    *)
DefaultAfter(ch) == default_channel \ {ch}
Shut(S, ch) ==
  /\ slots' = [l \in Links |-> IF l \in S THEN slots[l] \ {ch} ELSE slots[l]]
  /\ alive' = [l \in Links |-> IF l \in S THEN alive[l] \ {ch} ELSE alive[l]]
close_channel(ch) ==
  /\ ch \in opened_channels
  /\ opened_channels' = opened_channels \ {ch}
  /\ default_channel' = DefaultAfter(ch)
  /\ LET bad == {l \in clients : ch \notin slots[l] \cap alive[l]} IN
       \/ /\ bad = {} /\ Shut(clients, ch)
          /\ available_channel_ids' = available_channel_ids \cup {ch}
          /\ UNCHANGED torn
       \/ /\ \E l \in bad : \E S \in SUBSET (clients \ bad) : Shut(S \cup {l}, ch)
          /\ torn' = TRUE
          /\ UNCHANGED available_channel_ids
  /\ UNCHANGED <<unchangedByServer, endpointVars, queue, history, serving,
                 watchedS, brokenS, requests, idSent>>

(* handle_connection: a connection that cannot have all the channels is    *)
(* closed, the others get the next id, and their task is told so and sends *)
(* it.  An id sent and not yet received may be lost with the link.         *)
NextId_NotCounted == client_id_gen
NextId == client_id_gen + 1
Welcome_WithoutChannels(l) == {}
Welcome(l) == opened_channels
HandleConnection(l) ==
  IF Cardinality(opened_channels) > CtrlSize
    THEN /\ ending' = ending \cup {l}
         /\ UNCHANGED <<serving, id, client_id_gen, clients, slots, alive,
                        requests, connects, idSent>>
    ELSE /\ client_id_gen' = NextId
         /\ id' = [id EXCEPT ![l] = NextId]
         /\ clients' = clients \cup {l}
         /\ serving' = [serving EXCEPT ![l] = "serving"]
         /\ slots' = [slots EXCEPT ![l] = Welcome(l)]
         /\ alive' = [alive EXCEPT ![l] = Welcome(l)]
         /\ requests' = [requests EXCEPT ![l] = SetToSeq(Welcome(l))]
         /\ connects' = connects \cup {l}
         /\ idSent' = IF link[l] = "open" THEN idSent \cup {l} ELSE idSent
         /\ UNCHANGED ending

(* One message of the queue of the endpoint, in update_sync_server.        *)
StillThere_NotAsked(l) == TRUE
StillThere(l) == l \in clients
ReadQueue ==
  /\ queue # <<>>
  /\ queue' = Tail(queue)
  /\ LET l == Head(queue).link IN
       \/ /\ Head(queue).kind = "connected"
          /\ HandleConnection(l)
          /\ UNCHANGED losses
       \/ /\ Head(queue).kind = "closed"
          /\ IF StillThere(l)
               THEN Leave({l}) /\ losses' = [losses EXCEPT ![l] = @ + 1]
               ELSE UNCHANGED <<clients, ending, losses>>
          /\ UNCHANGED <<serving, id, client_id_gen, slots, alive, requests,
                         connects, idSent>>
  /\ UNCHANGED <<unchangedByServer, watchedS, brokenS, opened_channels,
                 available_channel_ids, default_channel, torn, endpoint, started,
                 kicked>>

(* Its second half, once the queue is empty.                               *)
ReadBrokenS ==
  LET lost == clients \cap brokenS IN
    /\ endpoint # 0 /\ queue = <<>> /\ lost # {}
    /\ Leave(lost)
    /\ losses' = [l \in Links |-> IF l \in lost THEN losses[l] + 1 ELSE losses[l]]
    /\ UNCHANGED <<unchangedByServer, serverTasks, tableVars, endpoint, started,
                   id, client_id_gen, queue, connects, kicked>>

(* The two programs, by what they call and what they send, and the network.*)
ClientProgram ==
  \/ close_all_connections
  \/ \E k \in Locals : reconnect(k) \/ disconnect(k) \/ close_connection(k)
  \/ \E l \in Tried : Breaks(l)
ServerProgram ==
  \/ stop_endpoint \/ open_channel \/ disconnect_all_clients
  \/ \E l \in Tried : disconnect_client(l) \/ BreaksS(l)
  \/ \E ch \in Ids : close_channel(ch)
Turn ==
  /\ turns < cast.turns /\ turns' = turns + 1
  /\ ClientProgram \/ ServerProgram \/ \E l \in Tried : LinkLost(l)

update_sync_client(k) == ReadNews(k) \/ ReadBroken(k)
update_sync_server == ReadQueue \/ ReadBrokenS
ClientTask(l) == Begin(l) \/ ReceiveId(l) \/ NoticeClosed(l) \/ End(l)
ServerTask(l) ==
  Refused(l) \/ SpawnTask(l) \/ EndS(l) \/ NoticeClosedS(l)
Connects(l) == Handshake(l) \/ DialFails(l)

Rest ==
  /\ \/ open_connection \/ start_endpoint \/ update_sync_server
     \/ \E l \in Others : OtherDials(l)
     \/ \E k \in Locals : update_sync_client(k)
     \/ \E l \in Tried : ClientTask(l) \/ ServerTask(l) \/ Connects(l)
  /\ UNCHANGED turns
Next == (Turn \/ Rest) /\ UNCHANGED cast
Spec == Init /\ [][Next]_vars

----------------------------------------------------------------------------
(* Assumed of the scheduler: both update systems run every frame, tasks    *)
(* get on, a handshake ends.                                               *)
ServerUpdates == update_sync_server /\ UNCHANGED <<turns, cast>>
ClientUpdates(k) == k \in Locals /\ update_sync_client(k) /\ UNCHANGED <<turns, cast>>
Tasks(l) == (ClientTask(l) \/ ServerTask(l) \/ Connects(l)) /\ UNCHANGED <<turns, cast>>
Fairness ==
  /\ WF_vars(ServerUpdates)
  /\ \A k \in 1..Max({c.conns : c \in Casts}) : WF_vars(ClientUpdates(k))
  /\ \A l \in Links : WF_vars(Tasks(l))
FairSpec == Spec /\ Fairness

----------------------------------------------------------------------------
(* The values of the variables.                                            *)
States == {"Connecting", "Connected", "Disconnected", "closed"}
TypeOK ==
  /\ cast \in Casts /\ turns \in 0..cast.turns
  /\ \A k \in Locals : conns[k] \in [state : States, link : Own,
                                     client_id : 0..MaxLinks]
  /\ default \in 0..Len(conns)
  /\ link \in [Links -> {"none", "dialing", "open", "closed"}]
  /\ dial \in [Links -> {"none", "dialing", "failed", "awaiting", "over"}]
  /\ \A l \in Links : ToSet(news[l]) \subseteq {"Connected", "Failed", "Closed"}
  /\ brokenC \cup closeSent \cup deaf \cup running \cup watchedC \cup revived \subseteq Own
  /\ dropped \subseteq Links
  /\ endpoint \in {0, started} /\ started \in 0..MaxEndpoints
  /\ home \in [Links -> 0..started] /\ id \in [Links -> 0..MaxLinks]
  /\ serving \in [Links -> {"none", "announced", "refused", "serving", "ended"}]
  /\ client_id_gen \in 0..MaxLinks
  /\ \A i \in DOMAIN queue : queue[i] \in [kind : {"connected", "closed"}, link : Links]
  /\ clients \cup ending \cup watchedS \cup brokenS \cup idSent \subseteq Tried
  /\ connects \cup kicked \subseteq Tried /\ losses \in [Links -> Nat]
  /\ opened_channels \subseteq Ids /\ available_channel_ids \subseteq Ids
  /\ default_channel \subseteq Ids /\ torn \in BOOLEAN
  /\ slots \in [Links -> SUBSET Ids] /\ alive \in [Links -> SUBSET Ids]
  /\ \A l \in Links : requests[l] \in Seq(Ids) /\ Len(requests[l]) <= CtrlSize

(* A program that counts ConnectionEvents and ConnectionLostEvents has the *)
(* clients of the endpoint: a client is lost once, after its connection,   *)
(* and not when the program disconnected it, whichever of its tasks tell   *)
(* of the end (update_sync_server has two ways to hear of it).             *)
EventsPaired ==
  \A l \in Links :
    /\ losses[l] <= 1
    /\ losses[l] = 1 => l \in connects \ kicked
    /\ l \in clients <=> l \in connects \ kicked /\ losses[l] = 0

(* disconnect_all_clients and stop_endpoint stop at the first client that  *)
(* cannot be told to close (server.rs 670), and they never do: a client in *)
(* the table has a spawner that listens, whatever became of the link.      *)
DisconnectNeverFails == \A l \in clients : serving[l] = "serving"

(* The tables of channels of an endpoint and of its clients agree, and no  *)
(* id is lost, as long as no open or close has stopped half-way.           *)
ChannelsAgree ==
  /\ default_channel \subseteq opened_channels
  /\ ~torn =>
       /\ available_channel_ids = Ids \ opened_channels
       /\ \A l \in clients : slots[l] = opened_channels

(* A connected client has the id the endpoint gave to its present link,    *)
(* and no two connected clients of an endpoint have the same.              *)
IdsAgree ==
  /\ \A k \in Locals : conns[k].state = "Connected" =>
       /\ conns[k].link \in connects
       /\ conns[k].client_id = id[conns[k].link]
  /\ \A l, m \in clients : id[l] = id[m] => l = m

(* When a link has ended both ends come to know: the endpoint removes the  *)
(* client, the connection is no longer Connected, unless it was told so    *)
(* after it was told the end or after its program had disconnected it.     *)
(* There are finitely many links, and none is stale for ever.              *)
Thinks(l) ==
  \E k \in Locals : conns[k].link = l /\ conns[k].state = "Connected"
Stale(l) == link[l] = "closed" /\ (l \in clients \/ (Thinks(l) /\ l \notin revived))
EndsAreNoticed == []<>(\A l \in Links : ~Stale(l))
=============================================================================
