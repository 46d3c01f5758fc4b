----------------------- MODULE QuintetConnectionsProofs -----------------------
(***************************************************************************)
(* Theorems about QuintetConnections, for any number of connections, of    *)
(* links, of endpoints and of channel ids: the types of the variables, the *)
(* events a server program is told, that disconnecting a client cannot     *)
(* fail, and what the two ends know of each other's tables and ids.        *)
(***************************************************************************)
EXTENDS QuintetConnections, FiniteSetTheorems, SequenceTheorems, TLAPS

----------------------------------------------------------------------------
(* A link is tried once: the client takes the next one each time, and an   *)
(* end that has begun to work on a link finds it established or closed.    *)
LinkStates == {"none", "dialing", "open", "closed"}
LinkInv ==
  /\ cast \in Casts /\ turns \in 0..cast.turns
  /\ link \in [Links -> LinkStates]
  /\ \E n \in 0..cast.own : Tried \cap Own = 1..n

(* What the client holds.                                                  *)
Conn == [state : States, link : Own, client_id : 0..MaxLinks]
Dials == {"none", "dialing", "failed", "awaiting", "over"}
ClientInv ==
  /\ conns \in Seq(Conn) /\ default \in 0..Len(conns)
  /\ dial \in [Links -> Dials]
  /\ news \in [Links -> Seq({"Connected", "Failed", "Closed"})]
  /\ brokenC \cup closeSent \cup deaf \cup running \cup watchedC \cup revived \subseteq Own
  /\ dropped \subseteq Links
  /\ \A l \in Links : dial[l] \in {"dialing", "awaiting", "over"} => l \in Own

(* The queue of the endpoint announces a link once, and only while the     *)
(* task of the link waits to be accepted.                                  *)
Msg == [kind : {"connected", "closed"}, link : Links]
Servings == {"none", "announced", "refused", "serving", "ended"}
QueueInv ==
  /\ endpoint \in {0, started} /\ started \in 0..MaxEndpoints
  /\ home \in [Links -> 0..started] /\ queue \in Seq(Msg)
  /\ serving \in [Links -> Servings]
  /\ \A l \in Links : serving[l] # "none" => link[l] \in {"open", "closed"}
  /\ endpoint = 0 => queue = <<>> /\ clients = {}
  /\ \A i \in 1..Len(queue) : queue[i].kind = "connected" =>
       serving[queue[i].link] = "announced" /\ queue[i].link \notin ending
  /\ \A i, j \in 1..Len(queue) :
       i # j /\ queue[i].kind = "connected" /\ queue[j].kind = "connected"
         => queue[i].link # queue[j].link

(* The endpoint has had a client for each link it accepted, with the next  *)
(* id, and one that it still has was not told to end.                      *)
HadClient(l) == serving[l] \in {"serving", "ended"}
ClientsInv ==
  /\ id \in [Links -> 0..MaxLinks] /\ losses \in [Links -> Nat]
  /\ clients \cup ending \cup connects \subseteq Links
  /\ kicked \cup idSent \subseteq connects
  /\ \A l \in connects : HadClient(l)
  /\ \A l \in ending : serving[l] # "none"
  /\ clients \cap ending = {}
  /\ client_id_gen \in 0..Cardinality(connects)
  /\ \A l \in clients : id[l] <= client_id_gen
  /\ \A l, m \in clients : id[l] = id[m] => l = m
  /\ watchedS \cup brokenS \subseteq {l \in Links : HadClient(l)}

(* The channels of the endpoint and of its clients.                        *)
TablesInv ==
  /\ opened_channels \subseteq Ids /\ available_channel_ids \subseteq Ids
  /\ default_channel \subseteq Ids /\ torn \in BOOLEAN
  /\ slots \in [Links -> SUBSET Ids] /\ alive \in [Links -> SUBSET Ids]
  /\ requests \in [Links -> Seq(Ids)] /\ \A l \in Links : Len(requests[l]) <= CtrlSize

(* The client is told Connected on a link the endpoint accepted.           *)
ToldInv ==
  /\ \A l \in Links : \A i \in 1..Len(news[l]) :
       news[l][i] = "Connected" => l \in connects
  /\ \A k \in Locals : conns[k].state = "Connected" =>
       conns[k].link \in connects /\ conns[k].client_id = id[conns[k].link]

ServerInv == QueueInv /\ ClientsInv /\ EventsPaired /\ DisconnectNeverFails
IInv == LinkInv /\ ClientInv /\ ServerInv /\ TablesInv /\ ChannelsAgree /\ ToldInv

----------------------------------------------------------------------------
(* The numbers of links.                                                   *)

(* Of finitely many casts one has the most links.                          *)
LinksOf(c) == c.own + c.others
LEMMA MostLinks == \E c \in Casts : \A d \in Casts : LinksOf(c) >= LinksOf(d)
<1> DEFINE Best(T) == \E c \in T : \A d \in T : LinksOf(c) >= LinksOf(d)
           Bad == {T \in SUBSET Casts : T # {} /\ ~Best(T)}
<1>1. \A c \in Casts : LinksOf(c) \in Nat
  BY ConnectionsAssumption DEF LinksOf
<1>2. SUFFICES ASSUME Bad # {} PROVE FALSE
  BY ConnectionsAssumption
<1>3. FiniteSubsetsOf(Casts) = SUBSET Casts
  BY ConnectionsAssumption, FS_FiniteSubsetsOfFinite
<1>4. IsWellFoundedOn(StrictSubsetOrdering(Casts), SUBSET Casts)
  BY <1>3, FS_StrictSubsetOrderingWellFounded
<1>5. Bad \subseteq SUBSET Casts
  OBVIOUS
<1> HIDE DEF Bad
<1>6. PICK T \in Bad : \A U \in Bad : ~(<<U, T>> \in StrictSubsetOrdering(Casts))
  BY <1>2, <1>4, <1>5, WFMin
<1>7. T \subseteq Casts /\ T # {} /\ ~Best(T)
  BY <1>6 DEF Bad
<1>8. PICK e \in T : TRUE
  BY <1>7
<1>9. CASE T \ {e} = {}
  <2>1. Best(T)
    BY <1>1, <1>7, <1>8, <1>9
  <2>2. QED
    BY <1>7, <2>1
<1>10. CASE T \ {e} # {}
  <2>1. PICK U : U = T \ {e}
    OBVIOUS
  <2>2. <<U, T>> \in StrictSubsetOrdering(Casts)
    BY <1>7, <1>8, <2>1 DEF StrictSubsetOrdering
  <2>3. U \notin Bad
    BY <1>6, <2>2
  <2>4. Best(U)
    BY <1>7, <1>10, <2>1, <2>3 DEF Bad
  <2>5. PICK c \in U : \A d \in U : LinksOf(c) >= LinksOf(d)
    BY <2>4
  <2>6. CASE LinksOf(c) >= LinksOf(e)
    BY <1>7, <2>1, <2>5, <2>6
  <2>7. CASE ~(LinksOf(c) >= LinksOf(e))
    <3>1. \A d \in T : LinksOf(e) >= LinksOf(d)
      BY <1>1, <1>7, <1>8, <2>1, <2>5, <2>7
    <3>2. QED
      BY <1>7, <1>8, <3>1
  <2>8. QED
    BY <2>6, <2>7
<1>11. QED
  BY <1>9, <1>10

LEMMA CastIs ==
  ASSUME NEW c \in Casts
  PROVE  /\ c.own \in Nat /\ c.others \in Nat /\ c.conns \in Nat /\ c.turns \in Nat
         /\ MaxLinks \in Nat /\ c.own + c.others <= MaxLinks
<1>1. \A d \in Casts : /\ d.own \in Nat /\ d.others \in Nat /\ d.conns \in Nat
                      /\ d.turns \in Nat
  BY ConnectionsAssumption
<1>2. PICK e \in Casts : \A d \in Casts : e.own + e.others >= d.own + d.others
  BY MostLinks DEF LinksOf
<1> DEFINE S == {d.own + d.others : d \in Casts}
<1>3. \E x \in S : \A y \in S : x >= y
  <2>1. e.own + e.others \in S
    OBVIOUS
  <2>2. QED
    BY <1>2, <2>1
<1>4. MaxLinks \in S /\ \A y \in S : MaxLinks >= y
  BY <1>3 DEF MaxLinks, Max
<1>5. S \subseteq Nat
  BY <1>1
<1>6. c.own + c.others \in S
  OBVIOUS
<1> HIDE DEF S
<1>7. QED
  BY <1>1, <1>4, <1>5, <1>6

LEMMA LinksAre ==
  ASSUME cast \in Casts
  PROVE  /\ cast.own \in Nat /\ cast.turns \in Nat /\ MaxLinks \in Nat
         /\ Own \subseteq Links /\ Others \subseteq Links /\ Own \cap Others = {}
         /\ Own = 1..cast.own
         /\ IsFiniteSet(Links) /\ Cardinality(Links) = MaxLinks
<1>1. /\ cast.own \in Nat /\ cast.others \in Nat /\ cast.turns \in Nat /\ MaxLinks \in Nat
      /\ cast.own + cast.others <= MaxLinks
  BY CastIs
<1>2. Own \subseteq Links /\ Others \subseteq Links /\ Own \cap Others = {}
  BY <1>1 DEF Own, Others, Links
<1>3. IsFiniteSet(Links) /\ Cardinality(Links) = MaxLinks
  BY <1>1, FS_Interval DEF Links
<1>4. QED
  BY <1>1, <1>2, <1>3 DEF Own

(* The client dials a link nobody has tried.                               *)
LEMMA NextLink ==
  ASSUME LinkInv, NewLink \in Own
  PROVE  link[NewLink] = "none" /\ (Tried \cup {NewLink}) \cap Own = 1..NewLink
<1>1. PICK n \in 0..cast.own : Tried \cap Own = 1..n
  BY DEF LinkInv
<1>2. n \in Nat /\ Own \subseteq Links /\ Own = 1..cast.own /\ cast.own \in Nat
  BY LinksAre DEF LinkInv
<1>3. Cardinality(1..n) = n
  BY <1>2, FS_Interval
<1>4. NewLink = n + 1
  BY <1>1, <1>3 DEF NewLink
<1>5. NewLink \notin Tried /\ NewLink \in Links
  BY <1>1, <1>2, <1>4
<1>6. 1..NewLink = 1..n \cup {NewLink}
  BY <1>2, <1>4
<1>7. QED
  BY <1>1, <1>5, <1>6 DEF Tried

----------------------------------------------------------------------------
(* Steps.                                                                  *)

(* The client, the links and the server each have steps of their own.      *)
ClientSteps ==
  \/ open_connection \/ close_all_connections
  \/ \E k \in Locals : \/ reconnect(k) \/ disconnect(k) \/ close_connection(k)
                       \/ ReadNews(k) \/ ReadBroken(k)
  \/ \E l \in Tried : \/ Breaks(l) \/ Begin(l) \/ ReceiveId(l) \/ NoticeClosed(l)
                      \/ End(l) \/ DialFails(l)
LinkSteps == (\E l \in Others : OtherDials(l)) \/ (\E l \in Tried : LinkLost(l))
ServerSteps ==
  \/ stop_endpoint \/ open_channel \/ disconnect_all_clients \/ start_endpoint
  \/ ReadQueue \/ ReadBrokenS
  \/ \E ch \in Ids : close_channel(ch)
  \/ \E l \in Tried : \/ disconnect_client(l) \/ BreaksS(l) \/ Refused(l)
                      \/ SpawnTask(l) \/ EndS(l) \/ NoticeClosedS(l) \/ Handshake(l)

LEMMA Steps ==
  ASSUME LinkInv, Next
  PROVE  /\ ClientSteps \/ LinkSteps \/ ServerSteps
         /\ cast' = cast /\ turns' \in 0..cast.turns
<1>1. CASE Turn
  <2>1. turns' \in 0..cast.turns
    BY <1>1, LinksAre DEF Turn, LinkInv
  <2>2. ClientProgram => ClientSteps
    BY DEF ClientProgram, ClientSteps
  <2>3. ServerProgram => ServerSteps
    BY DEF ServerProgram, ServerSteps
  <2>4. (\E l \in Tried : LinkLost(l)) => LinkSteps
    BY DEF LinkSteps
  <2>5. QED
    BY <1>1, <2>1, <2>2, <2>3, <2>4 DEF Turn, Next
<1>2. CASE Rest
  <2>1. turns' \in 0..cast.turns
    BY <1>2 DEF Rest, LinkInv
  <2>2. open_connection => ClientSteps
    BY DEF ClientSteps
  <2>3. start_endpoint \/ update_sync_server => ServerSteps
    BY DEF ServerSteps, update_sync_server
  <2>4. (\E l \in Others : OtherDials(l)) => LinkSteps
    BY DEF LinkSteps
  <2>5. (\E k \in Locals : update_sync_client(k)) => ClientSteps
    BY DEF ClientSteps, update_sync_client
  <2>6. ASSUME NEW l \in Tried, ClientTask(l) \/ ServerTask(l) \/ Connects(l)
        PROVE  ClientSteps \/ ServerSteps
    BY <2>6 DEF ClientSteps, ServerSteps, ClientTask, ServerTask, Connects
  <2>7. QED
    BY <1>2, <2>1, <2>2, <2>3, <2>4, <2>5, <2>6 DEF Rest, Next
<1>3. QED
  BY <1>1, <1>2 DEF Next

(* What the steps of each leave alone.                                     *)
LEMMA ClientFrame ==
  ASSUME ClientSteps
  PROVE  UNCHANGED <<home, serverTasks, tableVars, endpointVars, queue, history>>
<1>1. CASE open_connection \/ close_all_connections
  BY <1>1 DEF open_connection, close_all_connections, Removed
<1>2. ASSUME NEW k \in Locals, reconnect(k) \/ disconnect(k) \/ close_connection(k)
      PROVE  UNCHANGED <<home, serverTasks, tableVars, endpointVars, queue, history>>
  BY <1>2 DEF reconnect, disconnect, close_connection, Removed
<1>3. ASSUME NEW k \in Locals, ReadNews(k) \/ ReadBroken(k)
      PROVE  UNCHANGED <<home, serverTasks, tableVars, endpointVars, queue, history>>
  BY <1>3 DEF ReadNews, ReadBroken
<1>4. ASSUME NEW l \in Tried, \/ Breaks(l) \/ Begin(l) \/ ReceiveId(l) \/ NoticeClosed(l)
                              \/ End(l) \/ DialFails(l)
      PROVE  UNCHANGED <<home, serverTasks, tableVars, endpointVars, queue, history>>
  BY <1>4 DEF Breaks, Begin, ReceiveId, NoticeClosed, End, DialFails,
              unchangedByClientTasks
<1>5. QED
  BY <1>1, <1>2, <1>3, <1>4 DEF ClientSteps

LEMMA LinkFrame ==
  ASSUME LinkSteps
  PROVE  UNCHANGED <<clientVars, clientTasks, home, serverTasks, tableVars,
                     endpointVars, queue, history, revived>>
  BY DEF LinkSteps, OtherDials, LinkLost

LEMMA ServerFrame ==
  ASSUME ServerSteps
  PROVE  UNCHANGED <<clientVars, clientTasks, revived>>
<1>1. CASE stop_endpoint \/ open_channel \/ disconnect_all_clients \/ start_endpoint
  BY <1>1 DEF stop_endpoint, open_channel, disconnect_all_clients, start_endpoint,
              unchangedByServer
<1>2. CASE ReadQueue \/ ReadBrokenS
  BY <1>2 DEF ReadQueue, ReadBrokenS, unchangedByServer
<1>3. ASSUME NEW ch \in Ids, close_channel(ch)
      PROVE  UNCHANGED <<clientVars, clientTasks, revived>>
  BY <1>3 DEF close_channel, unchangedByServer
<1>4. ASSUME NEW l \in Tried, \/ disconnect_client(l) \/ BreaksS(l) \/ Refused(l)
                              \/ SpawnTask(l) \/ EndS(l) \/ NoticeClosedS(l)
                              \/ Handshake(l)
      PROVE  UNCHANGED <<clientVars, clientTasks, revived>>
  BY <1>4 DEF disconnect_client, BreaksS, Refused, SpawnTask, EndS, NoticeClosedS,
              Handshake, unchangedByServer, unchangedByServerTasks
<1>5. QED
  BY <1>1, <1>2, <1>3, <1>4 DEF ServerSteps

----------------------------------------------------------------------------
(* The links.                                                              *)

(* A link that was tried stays tried, one that was accepted stays so.      *)
LinkOn ==
  \A l \in Links :
    /\ link[l] # "none" => link'[l] # "none"
    /\ link[l] \in {"open", "closed"} => link'[l] \in {"open", "closed"}

LEMMA LinkMoved ==
  ASSUME LinkInv, cast' = cast, turns' \in 0..cast.turns,
         NEW l \in Tried, NEW v \in {"open", "closed"},
         link' = [link EXCEPT ![l] = v]
  PROVE  LinkInv' /\ LinkOn
<1>1. link \in [Links -> LinkStates] /\ l \in Links /\ link[l] # "none"
  BY DEF LinkInv, Tried
<1>2. link' \in [Links -> LinkStates] /\ LinkOn
  BY <1>1 DEF LinkOn, LinkStates
<1>3. Tried' = Tried
  BY <1>1, <1>2 DEF Tried
<1>4. Own' = Own
  BY DEF Own
<1>5. QED
  BY <1>2, <1>3, <1>4 DEF LinkInv

LEMMA LinkDialed ==
  ASSUME LinkInv, cast' = cast, turns' \in 0..cast.turns, Dial(NewLink)
  PROVE  LinkInv' /\ LinkOn /\ link[NewLink] = "none"
<1>1. /\ link \in [Links -> LinkStates] /\ NewLink \in Own
      /\ link' = [link EXCEPT ![NewLink] = "dialing"]
      /\ Own \subseteq Links
  BY LinksAre DEF LinkInv, Dial
<1>2. link[NewLink] = "none" /\ (Tried \cup {NewLink}) \cap Own = 1..NewLink
  BY <1>1, NextLink
<1>3. PICK n : n = NewLink
  OBVIOUS
<1>4. link' \in [Links -> LinkStates] /\ LinkOn
  BY <1>1, <1>2, <1>3 DEF LinkOn, LinkStates
<1>5. Tried' = Tried \cup {NewLink}
  BY <1>1, <1>2, <1>3, <1>4 DEF Tried
<1>6. Own' = Own
  BY DEF Own
<1>7. NewLink \in 0..cast.own
  BY <1>1, LinksAre DEF LinkInv
<1>8. QED
  BY <1>2, <1>4, <1>5, <1>6, <1>7 DEF LinkInv

LEMMA LinkUnmoved ==
  ASSUME LinkInv, cast' = cast, turns' \in 0..cast.turns, UNCHANGED link
  PROVE  LinkInv' /\ LinkOn
  BY DEF LinkInv, LinkOn, Tried, Own

LEMMA LinkStays == ASSUME LinkInv, Next PROVE LinkInv' /\ LinkOn
<1>1. /\ cast' = cast /\ turns' \in 0..cast.turns
      /\ ClientSteps \/ LinkSteps \/ ServerSteps
  BY Steps
<1>2. CASE ClientSteps
  <2>1. CASE open_connection \/ \E k \in Locals : reconnect(k)
    <3>1. Dial(NewLink)
      BY <2>1 DEF open_connection, reconnect
    <3>2. QED
      BY <1>1, <3>1, LinkDialed
  <2>2. CASE \E l \in Tried : End(l) \/ DialFails(l)
    <3>1. PICK l \in Tried : link' = [link EXCEPT ![l] = "closed"]
      BY <2>2 DEF End, DialFails
    <3>2. QED
      BY <1>1, <3>1, LinkMoved
  <2>3. CASE UNCHANGED link
    BY <1>1, <2>3, LinkUnmoved
  <2>4. close_all_connections => UNCHANGED link
    BY DEF close_all_connections, Removed
  <2>5. \A k \in Locals :
          disconnect(k) \/ close_connection(k) \/ ReadNews(k) \/ ReadBroken(k)
            => UNCHANGED link
    BY DEF disconnect, close_connection, Removed, clientTasks, ReadNews, ReadBroken
  <2>6. \A l \in Tried : Breaks(l) \/ Begin(l) \/ ReceiveId(l) \/ NoticeClosed(l)
                           => UNCHANGED link
    BY DEF Breaks, Begin, ReceiveId, NoticeClosed
  <2>7. QED
    BY <1>2, <2>1, <2>2, <2>3, <2>4, <2>5, <2>6 DEF ClientSteps
<1>3. CASE LinkSteps
  <2>1. ASSUME NEW l \in Tried, LinkLost(l) PROVE LinkInv' /\ LinkOn
    <3>1. link' = [link EXCEPT ![l] = "closed"]
      BY <2>1 DEF LinkLost
    <3>2. QED
      BY <1>1, <3>1, LinkMoved
  <2>2. ASSUME NEW l \in Others, OtherDials(l) PROVE LinkInv' /\ LinkOn
    <3>1. /\ link[l] = "none" /\ link' = [link EXCEPT ![l] = "dialing"]
          /\ link \in [Links -> LinkStates] /\ l \in Links /\ l \notin Own
      BY <2>2, LinksAre DEF OtherDials, LinkInv
    <3>2. link' \in [Links -> LinkStates] /\ LinkOn
      BY <3>1 DEF LinkOn, LinkStates
    <3>3. Own' = Own
      BY <1>1 DEF Own
    <3>4. Tried' = Tried \cup {l}
      BY <3>1, <3>2 DEF Tried
    <3>5. Tried' \cap Own' = Tried \cap Own
      BY <3>1, <3>3, <3>4
    <3>6. QED
      BY <1>1, <3>2, <3>5 DEF LinkInv
  <2>3. QED
    BY <1>3, <2>1, <2>2 DEF LinkSteps
<1>4. CASE ServerSteps
  <2>1. ASSUME NEW l \in Tried, Handshake(l) \/ Refused(l) \/ EndS(l)
        PROVE  LinkInv' /\ LinkOn
    <3>1. PICK v \in {"open", "closed"} : link' = [link EXCEPT ![l] = v]
      BY <2>1 DEF Handshake, Refused, EndS
    <3>2. QED
      BY <1>1, <3>1, LinkMoved
  <2>2. CASE UNCHANGED link
    BY <1>1, <2>2, LinkUnmoved
  <2>3. stop_endpoint \/ open_channel \/ disconnect_all_clients \/ start_endpoint
          \/ ReadQueue \/ ReadBrokenS => UNCHANGED link
    BY DEF stop_endpoint, open_channel, disconnect_all_clients, start_endpoint,
           ReadQueue, ReadBrokenS, unchangedByServer
  <2>4. \A ch \in Ids : close_channel(ch) => UNCHANGED link
    BY DEF close_channel, unchangedByServer
  <2>5. \A l \in Tried : disconnect_client(l) \/ BreaksS(l) \/ SpawnTask(l)
                           \/ NoticeClosedS(l) => UNCHANGED link
    BY DEF disconnect_client, BreaksS, SpawnTask, NoticeClosedS, unchangedByServer
  <2>6. QED
    BY <1>4, <2>1, <2>2, <2>3, <2>4, <2>5 DEF ServerSteps
<1>5. QED
  BY <1>1, <1>2, <1>3, <1>4

----------------------------------------------------------------------------
(* The client.                                                             *)

LEMMA LocalsAre ==
  ASSUME ClientInv, NEW k \in Locals
  PROVE  /\ k \in 1..Len(conns) /\ Len(conns) \in Nat /\ DOMAIN conns = Locals
         /\ conns[k] \in Conn
<1>1. conns \in Seq(Conn)
  BY DEF ClientInv
<1>2. QED
  BY <1>1, LenProperties, ElementOfSeq DEF Locals

(* A connection is changed in place.                                       *)
LEMMA ConnSet ==
  ASSUME ClientInv, cast' = cast, NEW k \in Locals, NEW c \in Conn,
         conns' = [conns EXCEPT ![k] = c]
  PROVE  conns' \in Seq(Conn') /\ Len(conns') = Len(conns)
<1>1. conns \in Seq(Conn) /\ k \in 1..Len(conns)
  BY LocalsAre DEF ClientInv
<1>2. Conn' = Conn
  BY DEF Conn, Own
<1>3. conns' \in Seq(Conn) /\ Len(conns') = Len(conns)
  BY <1>1, ExceptSeq
<1>4. QED
  BY <1>2, <1>3

LEMMA RemovedConns ==
  ASSUME LinkInv, ClientInv, cast' = cast, NEW S \in SUBSET Locals, Removed(S)
  PROVE  /\ conns' \in Seq(Conn') /\ Len(conns') = Len(conns)
         /\ default' \in 0..Len(conns')
         /\ closeSent' \subseteq Own' /\ dropped' \subseteq Links
<1>1. \A k \in Locals : conns[k] \in Conn
  BY LocalsAre
<1>2. conns \in Seq(Conn) /\ Len(conns) \in Nat /\ default \in 0..Len(conns)
  BY LenProperties DEF ClientInv
<1>3. conns' = [k \in 1..Len(conns) |->
                  IF k \in S THEN [conns[k] EXCEPT !.state = "closed"] ELSE conns[k]]
  BY DEF Removed, Locals
<1>4. Conn' = Conn /\ Own' = Own /\ Own \subseteq Links
  BY LinksAre DEF Conn, Own, LinkInv
<1>5. \A k \in 1..Len(conns) :
        (IF k \in S THEN [conns[k] EXCEPT !.state = "closed"] ELSE conns[k]) \in Conn
  BY <1>1 DEF Conn, Locals, States
<1>6. conns' \in [1..Len(conns) -> Conn]
  BY <1>3, <1>5
<1>7. conns' \in Seq(Conn) /\ Len(conns') = Len(conns)
  BY <1>2, <1>6, IsASeq, LenProperties
<1>8. default' \in 0..Len(conns)
  BY <1>2 DEF Removed
<1>9. {conns[k].link : k \in S} \subseteq Own
  BY <1>1 DEF Conn
<1>10. closeSent \subseteq Own /\ dropped \subseteq Links
  BY DEF ClientInv
<1>11. closeSent' \subseteq Own /\ dropped' \subseteq Links
  BY <1>4, <1>9, <1>10 DEF Removed
<1>12. QED
  BY <1>4, <1>7, <1>8, <1>11

(* The queue of a link that is told something.                             *)
Words == {"Connected", "Failed", "Closed"}
LEMMA Told ==
  ASSUME news \in [Links -> Seq(Words)], NEW l \in Links, NEW w \in Words, Tell(l, w)
  PROVE  /\ news' \in [Links -> Seq(Words)]
         /\ \A m \in Links : \A i \in 1..Len(news'[m]) :
              \/ i \in 1..Len(news[m]) /\ news'[m][i] = news[m][i]
              \/ m = l /\ news'[m][i] = w
<1>1. CASE l \in dropped
  BY <1>1 DEF Tell
<1>2. CASE l \notin dropped
  <2>1. PICK s : s = news[l]
    OBVIOUS
  <2>2. s \in Seq(Words)
    BY <2>1
  <2>3. /\ Append(s, w) \in Seq(Words) /\ Len(Append(s, w)) = Len(s) + 1
        /\ \A i \in 1..Len(s) : Append(s, w)[i] = s[i]
        /\ Append(s, w)[Len(s) + 1] = w /\ Len(s) \in Nat
    BY <2>2, AppendProperties, LenProperties
  <2>4. news' = [news EXCEPT ![l] = Append(s, w)]
    BY <1>2, <2>1 DEF Tell
  <2>5. news' \in [Links -> Seq(Words)]
    BY <2>3, <2>4
  <2>6. \A i \in 1..Len(news'[l]) :
          (i \in 1..Len(s) /\ news'[l][i] = s[i]) \/ news'[l][i] = w
    BY <2>3, <2>4
  <2>7. \A m \in Links \ {l} : news'[m] = news[m]
    BY <2>4
  <2>8. QED
    BY <2>1, <2>5, <2>6, <2>7
<1>3. QED
  BY <1>1, <1>2

LEMMA NewsRead ==
  ASSUME news \in [Links -> Seq(Words)], NEW l \in Links, news[l] # <<>>,
         news' = [news EXCEPT ![l] = Tail(@)]
  PROVE  /\ news' \in [Links -> Seq(Words)]
         /\ \A m \in Links : \A i \in 1..Len(news'[m]) :
              \E j \in 1..Len(news[m]) : news'[m][i] = news[m][j]
         /\ Head(news[l]) = news[l][1] /\ 1 \in 1..Len(news[l])
<1>1. PICK s : s = news[l]
  OBVIOUS
<1>2. s \in Seq(Words) /\ s # <<>>
  BY <1>1
<1>3. /\ Tail(s) \in Seq(Words) /\ Len(Tail(s)) = Len(s) - 1 /\ Len(s) \in Nat
      /\ \A i \in 1..Len(Tail(s)) : Tail(s)[i] = s[i + 1]
      /\ Head(s) = s[1] /\ Len(s) # 0
  BY <1>2, HeadTailProperties, LenProperties, EmptySeq
<1>4. news' = [news EXCEPT ![l] = Tail(s)]
  BY <1>1
<1>5. news' \in [Links -> Seq(Words)]
  BY <1>3, <1>4
<1>6. \A i \in 1..Len(news'[l]) : \E j \in 1..Len(s) : news'[l][i] = s[j]
  <2>1. SUFFICES ASSUME NEW i \in 1..Len(Tail(s))
                 PROVE  \E j \in 1..Len(s) : Tail(s)[i] = s[j]
    BY <1>4
  <2>2. i + 1 \in 1..Len(s) /\ Tail(s)[i] = s[i + 1]
    BY <1>3
  <2>3. QED
    BY <2>2
<1>7. \A m \in Links \ {l} : news'[m] = news[m]
  BY <1>4
<1>8. QED
  BY <1>1, <1>3, <1>5, <1>6, <1>7

(* What a connection that is changed says.                                 *)
NewsTold ==
  \A l \in Links : \A i \in 1..Len(news[l]) : news[l][i] = "Connected" => l \in connects
TellsTrue(c) ==
  c.state = "Connected" => c.link \in connects /\ c.client_id = id[c.link]
ConnsTold == \A k \in 1..Len(conns) : TellsTrue(conns[k])
LEMMA ToldParts == ToldInv <=> NewsTold /\ ConnsTold
  BY DEF ToldInv, NewsTold, ConnsTold, TellsTrue, Locals
LEMMA ToldPartsNext == ToldInv' <=> NewsTold' /\ ConnsTold'
  BY DEF ToldInv, NewsTold, ConnsTold, TellsTrue, Locals

LEMMA ConnTold ==
  ASSUME ClientInv, ConnsTold, UNCHANGED <<connects, id>>,
         NEW k \in Locals, NEW c \in Conn,
         conns' = [conns EXCEPT ![k] = c], TellsTrue(c)
  PROVE  ConnsTold'
<1>1. conns \in Seq(Conn) /\ k \in 1..Len(conns)
  BY LocalsAre DEF ClientInv
<1>2. /\ Len(conns') = Len(conns)
      /\ \A j \in 1..Len(conns) : conns'[j] = IF j = k THEN c ELSE conns[j]
  BY <1>1, ExceptSeq
<1>3. QED
  BY <1>2 DEF ConnsTold, TellsTrue

LEMMA OpenKeeps ==
  ASSUME LinkInv, ClientInv, ToldInv, cast' = cast, UNCHANGED <<connects, id>>,
         open_connection
  PROVE  ClientInv' /\ ToldInv'
<1>1. /\ Own' = Own /\ Conn' = Conn /\ Own \subseteq Links /\ MaxLinks \in Nat
      /\ conns \in Seq(Conn) /\ Len(conns) \in Nat
  BY LinksAre, LenProperties DEF Own, Conn, ClientInv, LinkInv
<1>2. PICK n \in Own : n = NewLink /\ dial' = [dial EXCEPT ![n] = "dialing"]
  BY DEF open_connection, Dial
<1>3. PICK c \in Conn : c = Fresh(NewLink)
  <2>1. n \in Own /\ 0 \in 0..MaxLinks
    BY <1>1
  <2>2. Fresh(n) \in Conn
    BY ONLY <2>1 DEF Fresh, Conn, States
  <2>3. QED
    BY <1>2, <2>2
<1>4. /\ conns' \in Seq(Conn) /\ Len(conns') = Len(conns) + 1
      /\ \A k \in 1..Len(conns) : conns'[k] = conns[k]
      /\ conns'[Len(conns) + 1] = c
  BY <1>1, <1>3, AppendProperties DEF open_connection
<1>5. default' \in 0..Len(conns')
  BY <1>1, <1>4 DEF open_connection, ClientInv
<1>6. /\ dial' \in [Links -> Dials]
      /\ \A l \in Links : dial'[l] \in {"dialing", "awaiting", "over"} => l \in Own
  BY <1>1, <1>2 DEF ClientInv, Dials
<1>7. ClientInv'
  BY <1>1, <1>4, <1>5, <1>6 DEF ClientInv, open_connection
<1>8. ~(c.state = "Connected")
  BY <1>3 DEF Fresh
<1>9. ConnsTold'
  BY <1>1, <1>4, <1>8, ToldParts DEF ConnsTold, TellsTrue
<1>10. NewsTold'
  BY ToldParts DEF NewsTold, open_connection
<1>11. QED
  BY <1>7, <1>9, <1>10, ToldPartsNext

LEMMA ReconnectKeeps ==
  ASSUME LinkInv, ClientInv, ToldInv, cast' = cast, UNCHANGED <<connects, id>>,
         NEW k \in Locals, reconnect(k)
  PROVE  ClientInv' /\ ToldInv'
<1>1. /\ Own' = Own /\ Own \subseteq Links /\ MaxLinks \in Nat /\ conns[k] \in Conn
  BY LinksAre, LocalsAre DEF Own, LinkInv
<1>2. PICK n \in Own : n = NewLink /\ dial' = [dial EXCEPT ![n] = "dialing"]
  BY DEF reconnect, Dial
<1>3. PICK c \in Conn : c = Fresh(NewLink)
  <2>1. n \in Own /\ 0 \in 0..MaxLinks
    BY <1>1
  <2>2. Fresh(n) \in Conn
    BY ONLY <2>1 DEF Fresh, Conn, States
  <2>3. QED
    BY <1>2, <2>2
<1>4. conns' \in Seq(Conn') /\ Len(conns') = Len(conns)
  BY <1>3, ConnSet DEF reconnect
<1>5. dropped' \subseteq Links
  BY <1>1 DEF reconnect, ClientInv, Conn
<1>6. /\ dial' \in [Links -> Dials]
      /\ \A l \in Links : dial'[l] \in {"dialing", "awaiting", "over"} => l \in Own
  BY <1>1, <1>2 DEF ClientInv, Dials
<1>7. ClientInv'
  BY <1>1, <1>4, <1>5, <1>6 DEF ClientInv, reconnect
<1>8. TellsTrue(c)
  BY <1>3 DEF Fresh, TellsTrue
<1>9. ConnsTold'
  BY <1>3, <1>8, ConnTold, ToldParts DEF reconnect
<1>10. NewsTold'
  BY ToldParts DEF NewsTold, reconnect
<1>11. QED
  BY <1>7, <1>9, <1>10, ToldPartsNext

LEMMA DisconnectKeeps ==
  ASSUME LinkInv, ClientInv, ToldInv, cast' = cast, UNCHANGED <<connects, id>>,
         NEW k \in Locals, disconnect(k)
  PROVE  ClientInv' /\ ToldInv'
<1>1. Own' = Own /\ conns[k] \in Conn
  BY LocalsAre DEF Own
<1>2. PICK c : c = [conns[k] EXCEPT !.state = "Disconnected"]
  OBVIOUS
<1>3. c \in Conn /\ TellsTrue(c) /\ conns' = [conns EXCEPT ![k] = c]
  BY <1>1, <1>2 DEF Conn, States, TellsTrue, disconnect
<1>4. conns' \in Seq(Conn') /\ Len(conns') = Len(conns)
  BY <1>3, ConnSet
<1>5. closeSent' \subseteq Own
  BY <1>1 DEF disconnect, ClientInv, Conn
<1>6. ClientInv'
  BY <1>1, <1>4, <1>5 DEF ClientInv, disconnect, clientTasks
<1>7. ConnsTold'
  BY <1>3, ConnTold, ToldParts
<1>8. NewsTold'
  BY ToldParts DEF NewsTold, disconnect, clientTasks
<1>9. QED
  BY <1>6, <1>7, <1>8, ToldPartsNext

LEMMA RemovedKeeps ==
  ASSUME LinkInv, ClientInv, ToldInv, cast' = cast, UNCHANGED <<connects, id>>,
         NEW S \in SUBSET Locals, Removed(S)
  PROVE  ClientInv' /\ ToldInv'
<1>1. /\ conns' \in Seq(Conn') /\ Len(conns') = Len(conns)
      /\ default' \in 0..Len(conns')
      /\ closeSent' \subseteq Own' /\ dropped' \subseteq Links
  BY RemovedConns
<1>2. Own' = Own
  BY DEF Own
<1>3. ClientInv'
  BY <1>1, <1>2 DEF ClientInv, Removed, clientTasks
<1>4. \A k \in 1..Len(conns) :
        conns'[k] = IF k \in S THEN [conns[k] EXCEPT !.state = "closed"] ELSE conns[k]
  BY DEF Removed, Locals
<1>5. \A k \in 1..Len(conns) : conns[k] \in Conn
  BY LocalsAre DEF Locals
<1>6. ASSUME NEW k \in 1..Len(conns) PROVE TellsTrue(conns'[k])
  <2>1. TellsTrue(conns[k])
    BY ToldParts DEF ConnsTold
  <2>2. CASE k \in S
    <3>1. conns'[k].state = "closed"
      BY <1>4, <1>5, <2>2 DEF Conn
    <3>2. QED
      BY <3>1 DEF TellsTrue
  <2>3. CASE k \notin S
    BY <1>4, <2>1, <2>3
  <2>4. QED
    BY <2>2, <2>3
<1>7. ConnsTold'
  BY <1>1, <1>6 DEF ConnsTold, TellsTrue
<1>8. NewsTold'
  BY ToldParts DEF NewsTold, Removed, clientTasks
<1>9. QED
  BY <1>3, <1>7, <1>8, ToldPartsNext

LEMMA ReadNewsKeeps ==
  ASSUME LinkInv, ClientInv, ToldInv, cast' = cast, UNCHANGED <<connects, id>>,
         id \in [Links -> 0..MaxLinks], NEW k \in Locals, ReadNews(k)
  PROVE  ClientInv' /\ ToldInv'
<1>1. Own' = Own /\ Own \subseteq Links /\ conns[k] \in Conn
  BY LinksAre, LocalsAre DEF Own, LinkInv
<1>2. PICK l \in Own : l = conns[k].link
  BY <1>1 DEF Conn
<1>3. /\ news[l] # <<>> /\ news' = [news EXCEPT ![l] = Tail(@)]
      /\ news \in [Links -> Seq(Words)] /\ l \in Links
  BY <1>1, <1>2 DEF ReadNews, ClientInv, Words
<1>4. /\ news' \in [Links -> Seq(Words)]
      /\ \A m \in Links : \A i \in 1..Len(news'[m]) :
           \E j \in 1..Len(news[m]) : news'[m][i] = news[m][j]
      /\ Head(news[l]) = news[l][1] /\ 1 \in 1..Len(news[l])
  BY <1>3, NewsRead
<1>5. NewsTold'
  BY <1>4, ToldParts DEF NewsTold
<1>6. PICK c \in Conn : conns' = [conns EXCEPT ![k] = c] /\ TellsTrue(c)
  <2>1. CASE Head(news[l]) = "Connected"
    <3>1. l \in connects
      BY <1>3, <1>4, <2>1, ToldParts DEF NewsTold
    <3>2. PICK c : c = [conns[k] EXCEPT !.state = "Connected", !.client_id = id[l]]
      OBVIOUS
    <3>3. conns' = [conns EXCEPT ![k] = c]
      BY <1>2, <2>1, <3>2 DEF ReadNews
    <3>4. c \in Conn /\ c.link = l /\ c.client_id = id[l]
      BY <1>1, <1>2, <1>3, <3>2 DEF Conn, States
    <3>5. QED
      BY <3>1, <3>3, <3>4 DEF TellsTrue
  <2>2. CASE Head(news[l]) # "Connected"
    <3>1. PICK c : c = [conns[k] EXCEPT !.state = "Disconnected"]
      OBVIOUS
    <3>2. conns' = [conns EXCEPT ![k] = c]
      BY <1>2, <2>2, <3>1 DEF ReadNews, Lost
    <3>3. c \in Conn /\ TellsTrue(c)
      BY <1>1, <3>1 DEF Conn, States, TellsTrue
    <3>4. QED
      BY <3>2, <3>3
  <2>3. QED
    BY <2>1, <2>2
<1>7. conns' \in Seq(Conn') /\ Len(conns') = Len(conns)
  BY <1>6, ConnSet
<1>8. ConnsTold'
  BY <1>6, ConnTold, ToldParts
<1>9. closeSent' \subseteq Own /\ revived' \subseteq Own
  BY <1>2 DEF ReadNews, Lost, ClientInv
<1>10. ClientInv'
  BY <1>1, <1>4, <1>7, <1>9 DEF ClientInv, ReadNews, Words
<1>11. QED
  BY <1>5, <1>8, <1>10, ToldPartsNext

LEMMA ReadBrokenKeeps ==
  ASSUME LinkInv, ClientInv, ToldInv, cast' = cast, UNCHANGED <<connects, id>>,
         NEW k \in Locals, ReadBroken(k)
  PROVE  ClientInv' /\ ToldInv'
<1>1. Own' = Own /\ conns[k] \in Conn
  BY LocalsAre DEF Own
<1>2. PICK c : c = [conns[k] EXCEPT !.state = "Disconnected"]
  OBVIOUS
<1>3. c \in Conn /\ TellsTrue(c) /\ conns' = [conns EXCEPT ![k] = c]
  BY <1>1, <1>2 DEF Conn, States, TellsTrue, ReadBroken, Lost
<1>4. conns' \in Seq(Conn') /\ Len(conns') = Len(conns)
  BY <1>3, ConnSet
<1>5. closeSent' \subseteq Own /\ brokenC' \subseteq Own
  BY <1>1 DEF ReadBroken, Lost, ClientInv, Conn
<1>6. ClientInv'
  BY <1>1, <1>4, <1>5 DEF ClientInv, ReadBroken
<1>7. ConnsTold'
  BY <1>3, ConnTold, ToldParts
<1>8. NewsTold'
  BY ToldParts DEF NewsTold, ReadBroken
<1>9. QED
  BY <1>6, <1>7, <1>8, ToldPartsNext

(* The tasks of the client change no connection.                           *)
LEMMA TellKeeps ==
  ASSUME ClientInv, ToldInv, cast' = cast, UNCHANGED <<clientVars, connects, id>>,
         NEW l \in Links, NEW w \in Words, Tell(l, w),
         w = "Connected" => l \in connects
  PROVE  news' \in [Links -> Seq(Words)] /\ ToldInv'
<1>1. news \in [Links -> Seq(Words)]
  BY DEF ClientInv, Words
<1>2. /\ news' \in [Links -> Seq(Words)]
      /\ \A m \in Links : \A i \in 1..Len(news'[m]) :
           \/ i \in 1..Len(news[m]) /\ news'[m][i] = news[m][i]
           \/ m = l /\ news'[m][i] = w
  BY <1>1, Told
<1>3. NewsTold'
  BY <1>2, ToldParts DEF NewsTold
<1>4. ConnsTold'
  BY ToldParts DEF ConnsTold, TellsTrue, clientVars
<1>5. QED
  BY <1>2, <1>3, <1>4, ToldPartsNext

LEMMA QuietKeeps ==
  ASSUME ToldInv, UNCHANGED <<clientVars, news, connects, id>>
  PROVE  ToldInv'
  BY DEF ToldInv, Locals, clientVars

LEMMA TasksKeep ==
  ASSUME LinkInv, ClientInv, ToldInv, cast' = cast, UNCHANGED <<connects, id>>,
         idSent \subseteq connects, NEW l \in Tried,
         \/ Breaks(l) \/ Begin(l) \/ ReceiveId(l) \/ NoticeClosed(l) \/ End(l)
         \/ DialFails(l)
  PROVE  ClientInv' /\ ToldInv'
<1>1. /\ Own' = Own /\ Own \subseteq Links /\ l \in Links
      /\ Conn' = Conn /\ news \in [Links -> Seq(Words)] /\ dial \in [Links -> Dials]
  BY LinksAre DEF Own, Conn, Tried, LinkInv, ClientInv, Words
<1>2. UNCHANGED <<conns, default, closeSent, dropped, revived>>
  BY DEF Breaks, Begin, ReceiveId, NoticeClosed, End, DialFails,
         unchangedByClientTasks, clientVars
<1>3. /\ conns' \in Seq(Conn') /\ default' \in 0..Len(conns')
      /\ closeSent' \cup revived' \subseteq Own /\ dropped' \subseteq Links
      /\ UNCHANGED clientVars
  BY <1>1, <1>2 DEF ClientInv, clientVars
<1>4. CASE Breaks(l)
  <2>1. brokenC' \subseteq Own /\ UNCHANGED <<dial, news, deaf, running, watchedC>>
    BY <1>4 DEF Breaks, ClientInv
  <2>2. ClientInv'
    BY <1>1, <1>3, <2>1 DEF ClientInv
  <2>3. QED
    BY <1>3, <2>1, <2>2, QuietKeeps
<1>5. CASE Begin(l)
  <2>1. l \in Own
    BY <1>1, <1>5 DEF Begin, ClientInv
  <2>2. running' \cup deaf' \subseteq Own /\ UNCHANGED <<news, brokenC, watchedC>>
    BY <1>5, <2>1 DEF Begin, ClientInv
  <2>3. /\ dial' \in [Links -> Dials]
        /\ \A m \in Links : dial'[m] \in {"dialing", "awaiting", "over"} => m \in Own
    BY <1>1, <1>5, <2>1 DEF Begin, ClientInv, Dials
  <2>4. ClientInv'
    BY <1>1, <1>3, <2>2, <2>3 DEF ClientInv
  <2>5. QED
    BY <1>3, <2>2, <2>4, QuietKeeps
<1>6. CASE ReceiveId(l)
  <2>1. l \in Own
    BY <1>1, <1>6 DEF ReceiveId, ClientInv
  <2>2. UNCHANGED <<brokenC, deaf, running, watchedC>>
    BY <1>6 DEF ReceiveId
  <2>3. /\ dial' \in [Links -> Dials]
        /\ \A m \in Links : dial'[m] \in {"dialing", "awaiting", "over"} => m \in Own
    BY <1>1, <1>6, <2>1 DEF ReceiveId, ClientInv, Dials
  <2>4. news' \in [Links -> Seq(Words)] /\ ToldInv'
    <3>1. CASE UNCHANGED news
      BY <1>1, <1>3, <3>1, QuietKeeps
    <3>2. CASE l \in idSent /\ Tell(l, "Connected")
      <4>1. "Connected" \in Words /\ l \in connects
        BY <3>2 DEF Words
      <4>2. QED
        BY <1>1, <1>3, <3>2, <4>1, TellKeeps
    <3>3. CASE Tell(l, "Failed")
      <4>1. "Failed" \in Words /\ "Failed" # "Connected"
        BY DEF Words
      <4>2. QED
        BY <1>1, <1>3, <3>3, <4>1, TellKeeps
    <3>4. QED
      BY <1>6, <3>1, <3>2, <3>3 DEF ReceiveId
  <2>5. ClientInv'
    BY <1>1, <1>3, <2>2, <2>3, <2>4 DEF ClientInv, Words
  <2>6. QED
    BY <2>4, <2>5
<1>7. CASE NoticeClosed(l)
  <2>1. l \in Own
    BY <1>1, <1>7 DEF NoticeClosed, Begun, ClientInv
  <2>2. watchedC' \subseteq Own /\ UNCHANGED <<dial, brokenC, deaf, running>>
    BY <1>7, <2>1 DEF NoticeClosed, ClientInv
  <2>3. "Closed" \in Words /\ "Closed" # "Connected" /\ Tell(l, "Closed")
    BY <1>7 DEF Words, NoticeClosed
  <2>4. news' \in [Links -> Seq(Words)] /\ ToldInv'
    BY <1>1, <1>3, <2>3, TellKeeps
  <2>5. ClientInv'
    BY <1>1, <1>3, <2>2, <2>4 DEF ClientInv, Words
  <2>6. QED
    BY <2>4, <2>5
<1>8. CASE End(l)
  <2>1. running' \subseteq Own /\ UNCHANGED <<dial, news, brokenC, deaf, watchedC>>
    BY <1>8 DEF End, ClientInv
  <2>2. ClientInv'
    BY <1>1, <1>3, <2>1 DEF ClientInv
  <2>3. QED
    BY <1>3, <2>1, <2>2, QuietKeeps
<1>9. CASE DialFails(l)
  <2>1. UNCHANGED <<brokenC, deaf, running, watchedC>>
    BY <1>9 DEF DialFails
  <2>2. /\ dial' \in [Links -> Dials]
        /\ \A m \in Links : dial'[m] \in {"dialing", "awaiting", "over"} => m \in Own
    BY <1>1, <1>9 DEF DialFails, ClientInv, Dials
  <2>3. "Failed" \in Words /\ "Failed" # "Connected" /\ Tell(l, "Failed")
    BY <1>9 DEF Words, DialFails
  <2>4. news' \in [Links -> Seq(Words)] /\ ToldInv'
    BY <1>1, <1>3, <2>3, TellKeeps
  <2>5. ClientInv'
    BY <1>1, <1>3, <2>1, <2>2, <2>4 DEF ClientInv, Words
  <2>6. QED
    BY <2>4, <2>5
<1>10. QED
  BY <1>4, <1>5, <1>6, <1>7, <1>8, <1>9

LEMMA ClientKeeps ==
  ASSUME IInv, cast' = cast, ClientSteps
  PROVE  ClientInv' /\ ToldInv'
<1>1. /\ LinkInv /\ ClientInv /\ ToldInv /\ id \in [Links -> 0..MaxLinks]
      /\ idSent \subseteq connects
  BY DEF IInv, ServerInv, ClientsInv
<1>2. UNCHANGED <<connects, id>>
  BY ClientFrame DEF history, endpointVars
<1>3. CASE open_connection
  BY <1>1, <1>2, <1>3, OpenKeeps
<1>4. CASE close_all_connections
  <2>1. PICK S \in SUBSET Locals : Removed(S)
    <3>1. CASE Removed({k \in Locals : Live(k)})
      BY <3>1
    <3>2. ASSUME NEW k \in Locals, NEW S \in SUBSET Locals, Removed(S \cup {k})
          PROVE  \E T \in SUBSET Locals : Removed(T)
      BY <3>2
    <3>3. QED
      BY <1>4, <3>1, <3>2 DEF close_all_connections
  <2>2. QED
    BY <1>1, <1>2, <2>1, RemovedKeeps
<1>5. ASSUME NEW k \in Locals, reconnect(k) \/ disconnect(k)
      PROVE  ClientInv' /\ ToldInv'
  BY <1>1, <1>2, <1>5, ReconnectKeeps, DisconnectKeeps
<1>6. ASSUME NEW k \in Locals, close_connection(k)
      PROVE  ClientInv' /\ ToldInv'
  <2>1. {k} \in SUBSET Locals /\ Removed({k})
    BY <1>6 DEF close_connection
  <2>2. QED
    BY <1>1, <1>2, <2>1, RemovedKeeps
<1>7. ASSUME NEW k \in Locals, ReadNews(k) \/ ReadBroken(k)
      PROVE  ClientInv' /\ ToldInv'
  BY <1>1, <1>2, <1>7, ReadNewsKeeps, ReadBrokenKeeps
<1>8. ASSUME NEW l \in Tried,
             \/ Breaks(l) \/ Begin(l) \/ ReceiveId(l) \/ NoticeClosed(l)
             \/ End(l) \/ DialFails(l)
      PROVE  ClientInv' /\ ToldInv'
  BY <1>1, <1>2, <1>8, TasksKeep
<1>9. QED
  BY <1>3, <1>4, <1>5, <1>6, <1>7, <1>8 DEF ClientSteps

(* The others change nothing the client holds, and give no client an id    *)
(* twice.                                                                  *)
LEMMA ClientUnmoved ==
  ASSUME ClientInv, cast' = cast, UNCHANGED <<clientVars, clientTasks, revived>>
  PROVE  ClientInv'
  BY DEF ClientInv, Conn, Own, clientVars, clientTasks

LEMMA ToldUnmoved ==
  ASSUME ToldInv, UNCHANGED <<clientVars, clientTasks>>,
         connects \subseteq connects', \A l \in connects : id'[l] = id[l]
  PROVE  ToldInv'
<1>1. UNCHANGED <<conns, news>>
  BY DEF clientVars, clientTasks
<1>2. QED
  BY <1>1 DEF ToldInv, Locals

----------------------------------------------------------------------------
(* The clients of the endpoint.                                            *)

LEMMA ServerUnmoved ==
  ASSUME ServerInv, LinkOn,
         UNCHANGED <<home, serving, watchedS, brokenS, idSent, endpointVars, queue,
                     history>>
  PROVE  ServerInv'
<1>1. QueueInv'
  BY DEF ServerInv, QueueInv, LinkOn, endpointVars
<1>2. ClientsInv'
  BY DEF ServerInv, ClientsInv, HadClient, endpointVars, history
<1>3. EventsPaired' /\ DisconnectNeverFails'
  BY DEF ServerInv, EventsPaired, DisconnectNeverFails, endpointVars, history
<1>4. QED
  BY <1>1, <1>2, <1>3 DEF ServerInv

LEMMA MessageQueued ==
  ASSUME queue \in Seq(Msg), NEW m \in Msg, queue' = Append(queue, m)
  PROVE  /\ queue' \in Seq(Msg) /\ Len(queue) \in Nat
         /\ Len(queue') = Len(queue) + 1 /\ queue'[Len(queue) + 1] = m
         /\ \A i \in 1..Len(queue) : queue'[i] = queue[i]
  BY AppendProperties, LenProperties

LEMMA MessageTaken ==
  ASSUME queue \in Seq(Msg), queue # <<>>, queue' = Tail(queue)
  PROVE  /\ queue' \in Seq(Msg) /\ Len(queue) \in Nat /\ Len(queue') = Len(queue) - 1
         /\ Head(queue) = queue[1] /\ 1 \in 1..Len(queue) /\ Head(queue) \in Msg
         /\ \A i \in 1..Len(queue') : queue'[i] = queue[i + 1]
<1>1. Len(queue) # 0
  BY EmptySeq
<1>2. QED
  BY <1>1, HeadTailProperties, LenProperties

LEMMA HandshakeKeeps ==
  ASSUME LinkInv, ServerInv, LinkOn, NEW l \in Tried, Handshake(l)
  PROVE  ServerInv'
<1>1. /\ l \in Links /\ link \in [Links -> LinkStates]
      /\ serving \in [Links -> Servings] /\ home \in [Links -> 0..started]
      /\ queue \in Seq(Msg) /\ endpoint \in {0, started} /\ started \in 0..MaxEndpoints
  BY DEF Tried, LinkInv, ServerInv, QueueInv
<1>2. link[l] = "dialing" /\ serving[l] = "none" /\ endpoint # 0
  BY <1>1 DEF Handshake, ServerInv, QueueInv
<1>3. /\ serving' = [serving EXCEPT ![l] = "announced"]
      /\ link' = [link EXCEPT ![l] = "open"]
      /\ home' = [home EXCEPT ![l] = endpoint]
      /\ UNCHANGED <<endpoint, started, id, client_id_gen, clients, ending, connects,
                     losses, kicked, watchedS, brokenS, idSent>>
  BY DEF Handshake, endpointVars, history
<1>4. PICK m \in Msg : m = [kind |-> "connected", link |-> l]
  BY <1>1 DEF Msg
<1>5. /\ queue' \in Seq(Msg) /\ Len(queue) \in Nat
      /\ Len(queue') = Len(queue) + 1 /\ queue'[Len(queue) + 1] = m
      /\ \A i \in 1..Len(queue) : queue'[i] = queue[i]
  BY <1>1, <1>4, MessageQueued DEF Handshake
<1>6. l \notin ending /\ l \notin clients /\ ~HadClient(l)
  BY <1>2 DEF ServerInv, ClientsInv, DisconnectNeverFails, HadClient
<1>7. \A i \in 1..Len(queue) : queue[i].kind = "connected" => queue[i].link # l
  BY <1>2 DEF ServerInv, QueueInv
<1>8. \A i \in 1..Len(queue') : queue'[i].kind = "connected" =>
        serving'[queue'[i].link] = "announced" /\ queue'[i].link \notin ending'
  <2>1. ASSUME NEW i \in 1..Len(queue), queue[i].kind = "connected"
        PROVE  serving'[queue[i].link] = "announced" /\ queue[i].link \notin ending'
    <3>1. /\ serving[queue[i].link] = "announced" /\ queue[i].link \notin ending
          /\ queue[i] \in Msg
      BY <1>1, <2>1, ElementOfSeq DEF ServerInv, QueueInv
    <3>2. queue[i].link \in Links
      BY <3>1 DEF Msg
    <3>3. QED
      BY <1>1, <1>3, <3>1, <3>2
  <2>2. serving'[l] = "announced" /\ l \notin ending'
    BY <1>1, <1>3, <1>6
  <2>3. m.link = l
    BY <1>4
  <2>4. \A i \in 1..Len(queue') : i \in 1..Len(queue) \/ i = Len(queue) + 1
    BY <1>5
  <2>5. QED
    BY <1>5, <2>1, <2>2, <2>3, <2>4
<1>9. \A i, j \in 1..Len(queue') :
        i # j /\ queue'[i].kind = "connected" /\ queue'[j].kind = "connected"
          => queue'[i].link # queue'[j].link
  <2>1. m.link = l
    BY <1>4
  <2>2. \A i \in 1..Len(queue') : i \in 1..Len(queue) \/ i = Len(queue) + 1
    BY <1>5
  <2>3. QED
    BY <1>5, <1>7, <2>1, <2>2, SMTT(60) DEF ServerInv, QueueInv
<1>10. /\ serving' \in [Links -> Servings] /\ home' \in [Links -> 0..started]
       /\ \A k \in Links : serving'[k] # "none" => link'[k] \in {"open", "closed"}
  <2>1. serving' \in [Links -> Servings]
    BY <1>1, <1>3 DEF Servings
  <2>2. home' \in [Links -> 0..started]
    BY <1>1, <1>3
  <2>3. ASSUME NEW k \in Links, serving'[k] # "none"
        PROVE  link'[k] \in {"open", "closed"}
    BY <1>1, <1>3, <2>3 DEF ServerInv, QueueInv
  <2>4. QED
    BY <2>1, <2>2, <2>3
<1>11. QueueInv'
  BY <1>1, <1>2, <1>3, <1>5, <1>8, <1>9, <1>10 DEF QueueInv
<1>12. \A k \in Links : HadClient(k) => HadClient(k)'
  BY <1>1, <1>2, <1>3 DEF HadClient
<1>13. \A k \in Links : serving[k] # "none" => serving'[k] # "none"
  BY <1>1, <1>3
<1>14. ClientsInv'
  <2>1. ClientsInv
    BY DEF ServerInv
  <2>2. QED
    BY <1>3, <1>12, <1>13, <2>1 DEF ClientsInv
<1>15. EventsPaired' /\ DisconnectNeverFails'
  BY <1>1, <1>3, <1>6 DEF ServerInv, EventsPaired, DisconnectNeverFails
<1>16. QED
  BY <1>11, <1>14, <1>15 DEF ServerInv

(* The task of a link goes on: what it was is kept where it matters.       *)
LEMMA ServingMoves ==
  ASSUME ServerInv, LinkOn, NEW l \in Links, NEW v \in {"refused", "ended"},
         l \notin clients,
         \A i \in 1..Len(queue) : queue[i].kind = "connected" => queue[i].link # l,
         HadClient(l) => v = "ended", serving[l] # "none",
         serving' = [serving EXCEPT ![l] = v],
         UNCHANGED <<home, watchedS, brokenS, idSent, endpointVars, queue, history>>
  PROVE  ServerInv'
<1>1. /\ QueueInv /\ ClientsInv /\ EventsPaired /\ DisconnectNeverFails
      /\ UNCHANGED <<home, watchedS, brokenS, idSent, queue, endpoint, started, id,
                     client_id_gen, clients, ending, connects, losses, kicked>>
  BY DEF ServerInv, endpointVars, history
<1>2. serving \in [Links -> Servings] /\ queue \in Seq(Msg)
  BY <1>1 DEF QueueInv
<1>3. /\ serving' \in [Links -> Servings]
      /\ \A k \in Links : serving'[k] = IF k = l THEN v ELSE serving[k]
  BY <1>2 DEF Servings
<1>4. \A i \in 1..Len(queue) : queue[i].link \in Links
  <2>1. \A i \in 1..Len(queue) : queue[i] \in Msg
    BY <1>2, ElementOfSeq
  <2>2. QED
    BY <2>1 DEF Msg
<1>5. \A i \in 1..Len(queue) : queue[i].kind = "connected" =>
        serving'[queue[i].link] = "announced" /\ queue[i].link \notin ending
  BY <1>1, <1>3, <1>4 DEF QueueInv
<1>6. \A k \in Links : serving'[k] # "none" => link'[k] \in {"open", "closed"}
  BY <1>1, <1>3 DEF QueueInv, LinkOn
<1>7. QueueInv'
  BY <1>1, <1>3, <1>5, <1>6 DEF QueueInv
<1>8. \A k \in Links : HadClient(k) => HadClient(k)'
  BY <1>3 DEF HadClient
<1>9. \A k \in Links : serving[k] # "none" => serving'[k] # "none"
  BY <1>3
<1>10. ClientsInv'
  BY <1>1, <1>8, <1>9 DEF ClientsInv
<1>11. clients \subseteq Links
  BY <1>1 DEF ClientsInv
<1>12. EventsPaired' /\ DisconnectNeverFails'
  BY <1>1, <1>3, <1>11 DEF EventsPaired, DisconnectNeverFails
<1>13. QED
  BY <1>7, <1>10, <1>12 DEF ServerInv

LEMMA RefusedKeeps ==
  ASSUME ServerInv, LinkOn, NEW l \in Links, Refused(l)
  PROVE  ServerInv'
<1>1. /\ serving[l] = "announced" /\ serving' = [serving EXCEPT ![l] = "refused"]
      /\ UNCHANGED <<home, watchedS, brokenS, idSent, endpointVars, queue, history>>
  BY DEF Refused, unchangedByServerTasks
<1>2. queue \in Seq(Msg)
  BY DEF ServerInv, QueueInv
<1>3. DOMAIN queue = 1..Len(queue)
  BY <1>2, LenProperties
<1>4. \A i \in 1..Len(queue) : queue[i].kind = "connected" => queue[i].link # l
  BY <1>3 DEF Refused
<1>5. l \notin clients /\ ~HadClient(l)
  BY <1>1 DEF ServerInv, DisconnectNeverFails, HadClient
<1>6. QED
  BY <1>1, <1>4, <1>5, ServingMoves

LEMMA EndKeeps ==
  ASSUME ServerInv, LinkOn, NEW l \in Links, EndS(l)
  PROVE  ServerInv'
<1>1. /\ serving[l] = "serving" /\ serving' = [serving EXCEPT ![l] = "ended"]
      /\ l \in ending
      /\ UNCHANGED <<home, watchedS, brokenS, idSent, endpointVars, queue, history>>
  BY DEF EndS, ToldToEnd, unchangedByServerTasks
<1>2. \A i \in 1..Len(queue) : queue[i].kind = "connected" => queue[i].link # l
  BY <1>1 DEF ServerInv, QueueInv
<1>3. l \notin clients
  BY <1>1 DEF ServerInv, ClientsInv
<1>4. QED
  BY <1>1, <1>2, <1>3, ServingMoves

LEMMA NoticeKeeps ==
  ASSUME ServerInv, LinkOn, NEW l \in Links, NoticeClosedS(l)
  PROVE  ServerInv'
<1>1. /\ QueueInv /\ ClientsInv /\ EventsPaired /\ DisconnectNeverFails
      /\ UNCHANGED <<home, serving, brokenS, idSent, endpoint, started, id,
                     client_id_gen, clients, ending, connects, losses, kicked>>
      /\ HadClient(l) /\ watchedS' = watchedS \cup {l}
  BY DEF ServerInv, endpointVars, history, NoticeClosedS, unchangedByServerTasks,
         HadClient, Watches
<1>2. QueueInv'
  <2>1. CASE queue' = queue
    <3>1. \A k \in Links : serving'[k] # "none" => link'[k] \in {"open", "closed"}
      BY <1>1 DEF QueueInv, LinkOn
    <3>2. QED
      BY <1>1, <2>1, <3>1 DEF QueueInv
  <2>2. CASE Here(l)
    <3>1. PICK m \in Msg : m = [kind |-> "closed", link |-> l]
      BY DEF Msg
    <3>2. queue \in Seq(Msg) /\ queue' = Append(queue, m) /\ endpoint # 0
      BY <1>1, <2>2, <3>1 DEF QueueInv, NoticeClosedS, Here
    <3>3. /\ queue' \in Seq(Msg) /\ Len(queue) \in Nat
          /\ Len(queue') = Len(queue) + 1 /\ queue'[Len(queue) + 1] = m
          /\ \A i \in 1..Len(queue) : queue'[i] = queue[i]
      BY <3>2, MessageQueued
    <3>4. \A i \in 1..Len(queue') : queue'[i].kind = "connected" =>
            i \in 1..Len(queue) /\ queue'[i] = queue[i]
      BY <3>1, <3>3
    <3>5. \A i \in 1..Len(queue') : queue'[i].kind = "connected" =>
            serving'[queue'[i].link] = "announced" /\ queue'[i].link \notin ending'
      BY <1>1, <3>4 DEF QueueInv
    <3>6. \A i, j \in 1..Len(queue') :
            i # j /\ queue'[i].kind = "connected" /\ queue'[j].kind = "connected"
              => queue'[i].link # queue'[j].link
      BY <1>1, <3>4 DEF QueueInv
    <3>7. \A k \in Links : serving'[k] # "none" => link'[k] \in {"open", "closed"}
      BY <1>1 DEF QueueInv, LinkOn
    <3>8. QED
      BY <1>1, <3>2, <3>3, <3>5, <3>6, <3>7 DEF QueueInv
  <2>3. QED
    BY <2>1, <2>2 DEF NoticeClosedS
<1>3. ClientsInv'
  BY <1>1 DEF ClientsInv, HadClient
<1>4. EventsPaired' /\ DisconnectNeverFails'
  BY <1>1 DEF EventsPaired, DisconnectNeverFails
<1>5. QED
  BY <1>2, <1>3, <1>4 DEF ServerInv

LEMMA BreaksKeeps ==
  ASSUME ServerInv, LinkOn, NEW l \in Links, BreaksS(l)
  PROVE  ServerInv'
<1>1. /\ QueueInv /\ ClientsInv /\ EventsPaired /\ DisconnectNeverFails
      /\ UNCHANGED <<home, serving, watchedS, idSent, queue, endpoint, started, id,
                     client_id_gen, clients, ending, connects, losses, kicked>>
      /\ HadClient(l) /\ brokenS' = brokenS \cup {l}
  BY DEF ServerInv, endpointVars, history, BreaksS, unchangedByServerTasks, HadClient
<1>2. QueueInv'
  BY <1>1 DEF QueueInv, LinkOn
<1>3. ClientsInv'
  BY <1>1 DEF ClientsInv, HadClient
<1>4. EventsPaired' /\ DisconnectNeverFails'
  BY <1>1 DEF EventsPaired, DisconnectNeverFails
<1>5. QED
  BY <1>2, <1>3, <1>4 DEF ServerInv

(* Clients leave, each counted once: lost, or disconnected by the program. *)
Counted(S, T) ==
  /\ S \cap T = {} /\ S \cup T \subseteq clients
  /\ losses' = [l \in Links |-> IF l \in S THEN losses[l] + 1 ELSE losses[l]]
  /\ kicked' = kicked \cup T

LEMMA LeaveClients ==
  ASSUME QueueInv, ClientsInv, EventsPaired, DisconnectNeverFails,
         NEW S, NEW T, Counted(S, T), Leave(S \cup T),
         UNCHANGED <<serving, watchedS, brokenS, idSent, id, client_id_gen, connects>>
  PROVE  ClientsInv' /\ EventsPaired' /\ DisconnectNeverFails'
<1>1. /\ clients' = clients \ (S \cup T) /\ ending' = ending \cup (S \cup T)
      /\ clients \subseteq Links /\ losses \in [Links -> Nat]
      /\ S \cup T \subseteq clients
  BY DEF Leave, ClientsInv, Counted
<1>2. \A l \in clients : l \in connects /\ l \notin kicked /\ losses[l] = 0
  BY <1>1 DEF EventsPaired
<1>3. losses' \in [Links -> Nat]
  BY <1>1 DEF Counted
<1>4. \A l \in Links : losses'[l] = IF l \in S THEN losses[l] + 1 ELSE losses[l]
  BY DEF Counted
<1>5. \A l \in S \cup T : serving[l] # "none"
  BY <1>1 DEF DisconnectNeverFails
<1>6. kicked' \subseteq connects
  BY <1>1, <1>2 DEF Counted, ClientsInv
<1>7. ClientsInv'
  BY <1>1, <1>3, <1>5, <1>6 DEF ClientsInv, HadClient
<1>8. DisconnectNeverFails'
  BY <1>1 DEF DisconnectNeverFails
<1>9. ASSUME NEW l \in Links
      PROVE  /\ losses'[l] <= 1
             /\ losses'[l] = 1 => l \in connects \ kicked'
             /\ l \in clients' <=> l \in connects \ kicked' /\ losses'[l] = 0
  <2>1. /\ losses[l] <= 1 /\ losses[l] \in Nat
        /\ losses[l] = 1 => l \in connects \ kicked
        /\ l \in clients <=> l \in connects \ kicked /\ losses[l] = 0
    BY <1>1 DEF EventsPaired
  <2>2. CASE l \in S
    <3>1. l \in clients /\ l \notin T
      BY <2>2 DEF Counted
    <3>2. losses[l] = 0 /\ losses'[l] = 1 /\ l \in connects \ kicked
      BY <1>4, <2>1, <2>2, <3>1
    <3>3. l \notin clients' /\ l \notin kicked'
      BY <1>1, <2>2, <3>1, <3>2 DEF Counted
    <3>4. QED
      BY <3>2, <3>3
  <2>3. CASE l \in T
    <3>1. l \in clients /\ l \notin S
      BY <2>3 DEF Counted
    <3>2. losses'[l] = 0 /\ l \notin clients' /\ l \in kicked'
      BY <1>1, <1>4, <2>1, <2>3, <3>1 DEF Counted
    <3>3. QED
      BY <3>2
  <2>4. CASE l \notin S \cup T
    <3>1. losses'[l] = losses[l] /\ (l \in kicked' <=> l \in kicked)
      BY <1>4, <2>4 DEF Counted
    <3>2. l \in clients' <=> l \in clients
      BY <1>1, <2>4
    <3>3. QED
      BY <2>1, <3>1, <3>2
  <2>5. QED
    BY <2>2, <2>3, <2>4
<1>10. EventsPaired'
  BY <1>9 DEF EventsPaired
<1>11. QED
  BY <1>7, <1>8, <1>10

LEMMA LeaveQueue ==
  ASSUME QueueInv, DisconnectNeverFails, ClientsInv, LinkOn, NEW S \in SUBSET clients,
         Leave(S), UNCHANGED <<endpoint, started, home, serving, queue>>
  PROVE  QueueInv'
<1>1. \A l \in S : serving[l] # "announced"
  BY DEF DisconnectNeverFails
<1>2. /\ clients' = clients \ S /\ ending' = ending \cup S
  BY DEF Leave
<1>3. \A l \in Links : serving[l] # "none" => link'[l] \in {"open", "closed"}
  BY DEF QueueInv, LinkOn
<1>4. QED
  BY <1>1, <1>2, <1>3 DEF QueueInv

LEMMA LossesSame ==
  ASSUME losses \in [Links -> Nat], UNCHANGED losses
  PROVE  losses' = [l \in Links |-> IF l \in {} THEN losses[l] + 1 ELSE losses[l]]
  OBVIOUS

LEMMA KickedKeeps ==
  ASSUME ServerInv, LinkOn, NEW T \in SUBSET clients, Leave(T), kicked' = kicked \cup T,
         UNCHANGED <<home, serving, watchedS, brokenS, idSent, endpoint, started, id,
                     client_id_gen, queue, connects, losses>>
  PROVE  ServerInv'
<1>1. QueueInv /\ ClientsInv /\ EventsPaired /\ DisconnectNeverFails
  BY DEF ServerInv
<1>2. QueueInv'
  BY <1>1, LeaveQueue
<1>3. losses' = [l \in Links |-> IF l \in {} THEN losses[l] + 1 ELSE losses[l]]
  BY <1>1, LossesSame DEF ClientsInv
<1>4. Counted({}, T)
  BY <1>3 DEF Counted
<1>5. {} \cup T = T
  OBVIOUS
<1>6. QED
  BY <1>1, <1>2, <1>4, <1>5, LeaveClients DEF ServerInv

LEMMA ReadBrokenSKeeps == ASSUME ServerInv, LinkOn, ReadBrokenS PROVE ServerInv'
<1>1. QueueInv /\ ClientsInv /\ EventsPaired /\ DisconnectNeverFails
  BY DEF ServerInv
<1>2. PICK S \in SUBSET clients : S = clients \cap brokenS
  OBVIOUS
<1>3. /\ Leave(S) /\ UNCHANGED kicked
      /\ losses' = [l \in Links |-> IF l \in S THEN losses[l] + 1 ELSE losses[l]]
      /\ UNCHANGED <<home, serving, watchedS, brokenS, idSent, endpoint, started, id,
                     client_id_gen, queue, connects>>
  BY <1>2 DEF ReadBrokenS, unchangedByServer, serverTasks
<1>4. QueueInv'
  BY <1>1, <1>3, LeaveQueue
<1>5. Counted(S, {})
  BY <1>3 DEF Counted
<1>6. S \cup {} = S
  OBVIOUS
<1>7. QED
  BY <1>1, <1>3, <1>4, <1>5, <1>6, LeaveClients DEF ServerInv

LEMMA StartKeeps == ASSUME LinkInv, ServerInv, LinkOn, start_endpoint PROVE ServerInv'
<1>1. /\ QueueInv /\ ClientsInv /\ EventsPaired /\ DisconnectNeverFails
      /\ endpoint = 0 /\ started < MaxEndpoints
      /\ endpoint' = started + 1 /\ started' = started + 1 /\ client_id_gen' = 0
      /\ UNCHANGED <<home, serving, watchedS, brokenS, idSent, id, clients, ending,
                     queue, connects, losses, kicked>>
  BY DEF ServerInv, start_endpoint, unchangedByServer, serverTasks, history
<1>2. queue = <<>> /\ clients = {}
  BY <1>1 DEF QueueInv
<1>3. started' \in 0..MaxEndpoints /\ home \in [Links -> 0..started']
  <2>1. started \in 0..MaxEndpoints /\ MaxEndpoints \in Nat
        /\ home \in [Links -> 0..started]
    BY <1>1, ConnectionsAssumption DEF QueueInv
  <2>2. 0..started \subseteq 0..started'
    BY <1>1, <2>1
  <2>3. QED
    BY <1>1, <2>1, <2>2
<1>4. \A l \in Links : serving[l] # "none" => link'[l] \in {"open", "closed"}
  BY <1>1 DEF QueueInv, LinkOn
<1>5. QueueInv'
  BY <1>1, <1>2, <1>3, <1>4 DEF QueueInv
<1>6. ClientsInv'
  <2>1. connects \subseteq Links /\ IsFiniteSet(Links)
    BY <1>1, LinksAre DEF ClientsInv, LinkInv
  <2>2. 0 \in 0..Cardinality(connects)
    BY <2>1, FS_Subset, FS_CardinalityType
  <2>3. QED
    BY <1>1, <1>2, <2>2 DEF ClientsInv, HadClient
<1>7. EventsPaired' /\ DisconnectNeverFails'
  BY <1>1 DEF EventsPaired, DisconnectNeverFails
<1>8. QED
  BY <1>5, <1>6, <1>7 DEF ServerInv

LEMMA StopKeeps == ASSUME ServerInv, LinkOn, stop_endpoint PROVE ServerInv'
<1>1. /\ QueueInv /\ ClientsInv /\ EventsPaired /\ DisconnectNeverFails
      /\ endpoint' = 0 /\ Leave(clients) /\ kicked' = kicked \cup clients
      /\ queue' = <<>>
      /\ UNCHANGED <<home, serving, watchedS, brokenS, idSent, id, client_id_gen,
                     started, connects, losses>>
  BY DEF ServerInv, stop_endpoint, unchangedByServer, serverTasks, history
<1>2. losses' = [l \in Links |-> IF l \in {} THEN losses[l] + 1 ELSE losses[l]]
  BY <1>1, LossesSame DEF ClientsInv
<1>3. Counted({}, clients)
  BY <1>1, <1>2 DEF Counted
<1>4. {} \cup clients = clients
  OBVIOUS
<1>5. ClientsInv' /\ EventsPaired' /\ DisconnectNeverFails'
  BY <1>1, <1>3, <1>4, LeaveClients
<1>6. queue' \in Seq(Msg) /\ Len(queue') = 0
  BY <1>1, EmptySeq
<1>7. clients' = {}
  BY <1>1 DEF Leave
<1>8. \A l \in Links : serving[l] # "none" => link'[l] \in {"open", "closed"}
  BY <1>1 DEF QueueInv, LinkOn
<1>9. QueueInv'
  BY <1>1, <1>6, <1>7, <1>8 DEF QueueInv
<1>10. QED
  BY <1>5, <1>9 DEF ServerInv

(* A connection taken from the queue is new, and gets an id above all.     *)
LEMMA TakenConnection ==
  ASSUME QueueInv, queue # <<>>, Head(queue).kind = "connected",
         queue' = Tail(queue), NEW l, l = Head(queue).link
  PROVE  /\ l \in Links /\ serving[l] = "announced" /\ l \notin ending /\ endpoint # 0
         /\ queue' \in Seq(Msg)
         /\ \A i \in 1..Len(queue') : queue'[i].kind = "connected" =>
              serving[queue'[i].link] = "announced" /\ queue'[i].link \notin ending
              /\ queue'[i].link # l
         /\ \A i, j \in 1..Len(queue') :
              i # j /\ queue'[i].kind = "connected" /\ queue'[j].kind = "connected"
                => queue'[i].link # queue'[j].link
<1>1. queue \in Seq(Msg) /\ endpoint # 0
  BY DEF QueueInv
<1>2. /\ queue' \in Seq(Msg) /\ Len(queue) \in Nat /\ Len(queue') = Len(queue) - 1
      /\ Head(queue) = queue[1] /\ 1 \in 1..Len(queue) /\ Head(queue) \in Msg
      /\ \A i \in 1..Len(queue') : queue'[i] = queue[i + 1]
  BY <1>1, MessageTaken
<1>3. l \in Links /\ l = queue[1].link /\ queue[1].kind = "connected"
  BY <1>2 DEF Msg
<1>4. serving[l] = "announced" /\ l \notin ending
  BY <1>2, <1>3 DEF QueueInv
<1>5. \A i \in 1..Len(queue') : i + 1 \in 1..Len(queue) /\ i + 1 # 1
  BY <1>2
<1>6. ASSUME NEW i \in 1..Len(queue'), queue'[i].kind = "connected"
      PROVE  /\ serving[queue'[i].link] = "announced" /\ queue'[i].link \notin ending
             /\ queue'[i].link # l
  <2>1. PICK k \in 1..Len(queue) : k = i + 1 /\ k # 1 /\ queue'[i] = queue[k]
    BY <1>2, <1>5
  <2>2. queue[k].kind = "connected"
    BY <1>6, <2>1
  <2>3. QED
    BY <1>2, <1>3, <2>1, <2>2 DEF QueueInv
<1>7. ASSUME NEW i \in 1..Len(queue'), NEW j \in 1..Len(queue'), i # j,
             queue'[i].kind = "connected", queue'[j].kind = "connected"
      PROVE  queue'[i].link # queue'[j].link
  <2>1. PICK k \in 1..Len(queue) : k = i + 1 /\ queue'[i] = queue[k]
    BY <1>2, <1>5
  <2>2. PICK m \in 1..Len(queue) : m = j + 1 /\ queue'[j] = queue[m]
    BY <1>2, <1>5
  <2>3. k # m
    BY <1>2, <1>7, <2>1, <2>2
  <2>4. QED
    BY <1>7, <2>1, <2>2, <2>3 DEF QueueInv
<1>8. QED
  BY <1>1, <1>2, <1>3, <1>4, <1>6, <1>7

LEMMA TakenEnd ==
  ASSUME QueueInv, queue # <<>>, Head(queue).kind # "connected", queue' = Tail(queue)
  PROVE  /\ endpoint # 0 /\ queue' \in Seq(Msg) /\ Head(queue).link \in Links
         /\ \A i \in 1..Len(queue') : queue'[i].kind = "connected" =>
              serving[queue'[i].link] = "announced" /\ queue'[i].link \notin ending
         /\ \A i, j \in 1..Len(queue') :
              i # j /\ queue'[i].kind = "connected" /\ queue'[j].kind = "connected"
                => queue'[i].link # queue'[j].link
<1>1. queue \in Seq(Msg) /\ endpoint # 0
  BY DEF QueueInv
<1>2. /\ queue' \in Seq(Msg) /\ Len(queue) \in Nat /\ Len(queue') = Len(queue) - 1
      /\ Head(queue) \in Msg
      /\ \A i \in 1..Len(queue') : queue'[i] = queue[i + 1]
  BY <1>1, MessageTaken
<1>3. \A i \in 1..Len(queue') : i + 1 \in 1..Len(queue)
  BY <1>2
<1>4. ASSUME NEW i \in 1..Len(queue'), queue'[i].kind = "connected"
      PROVE  serving[queue'[i].link] = "announced" /\ queue'[i].link \notin ending
  <2>1. PICK k \in 1..Len(queue) : queue'[i] = queue[k]
    BY <1>2, <1>3
  <2>2. queue[k].kind = "connected"
    BY <1>4, <2>1
  <2>3. QED
    BY <2>1, <2>2 DEF QueueInv
<1>5. ASSUME NEW i \in 1..Len(queue'), NEW j \in 1..Len(queue'), i # j,
             queue'[i].kind = "connected", queue'[j].kind = "connected"
      PROVE  queue'[i].link # queue'[j].link
  <2>1. PICK k \in 1..Len(queue) : k = i + 1 /\ queue'[i] = queue[k]
    BY <1>2, <1>3
  <2>2. PICK m \in 1..Len(queue) : m = j + 1 /\ queue'[j] = queue[m]
    BY <1>2, <1>3
  <2>3. k # m
    BY <1>2, <1>5, <2>1, <2>2
  <2>4. QED
    BY <1>5, <2>1, <2>2, <2>3 DEF QueueInv
<1>6. Head(queue).link \in Links
  BY <1>2 DEF Msg
<1>7. QED
  BY <1>1, <1>2, <1>4, <1>5, <1>6

LEMMA ReadEndKeeps ==
  ASSUME ServerInv, LinkOn, ReadQueue, Head(queue).kind # "connected"
  PROVE  ServerInv'
<1>1. /\ QueueInv /\ ClientsInv /\ EventsPaired /\ DisconnectNeverFails
      /\ queue # <<>> /\ queue' = Tail(queue)
      /\ UNCHANGED <<home, serving, watchedS, brokenS, idSent, endpoint, started, id,
                     client_id_gen, connects, kicked>>
  BY DEF ServerInv, ReadQueue, unchangedByServer
<1>2. PICK l \in Links : l = Head(queue).link
  BY <1>1, TakenEnd
<1>3. /\ endpoint # 0 /\ queue' \in Seq(Msg)
      /\ \A i \in 1..Len(queue') : queue'[i].kind = "connected" =>
           serving[queue'[i].link] = "announced" /\ queue'[i].link \notin ending
      /\ \A i, j \in 1..Len(queue') :
           i # j /\ queue'[i].kind = "connected" /\ queue'[j].kind = "connected"
             => queue'[i].link # queue'[j].link
  BY <1>1, TakenEnd
<1>4. \A k \in Links : serving[k] # "none" => link'[k] \in {"open", "closed"}
  BY <1>1 DEF QueueInv, LinkOn
<1>5. CASE l \in clients
  <2>1. Leave({l}) /\ losses' = [losses EXCEPT ![l] = @ + 1]
    BY <1>2, <1>5 DEF ReadQueue, StillThere
  <2>2. losses' = [k \in Links |-> IF k \in {l} THEN losses[k] + 1 ELSE losses[k]]
    BY <1>1, <2>1 DEF ClientsInv
  <2>3. Counted({l}, {})
    BY <1>1, <1>5, <2>2 DEF Counted
  <2>4. {l} \cup {} = {l}
    OBVIOUS
  <2>5. ClientsInv' /\ EventsPaired' /\ DisconnectNeverFails'
    BY <1>1, <2>1, <2>3, <2>4, LeaveClients
  <2>6. serving[l] = "serving" /\ ending' = ending \cup {l}
    BY <1>1, <1>5, <2>1 DEF DisconnectNeverFails, Leave
  <2>7. \A i \in 1..Len(queue') : queue'[i].kind = "connected" =>
          serving'[queue'[i].link] = "announced" /\ queue'[i].link \notin ending'
    BY <1>1, <1>3, <2>6
  <2>8. QueueInv'
    BY <1>1, <1>3, <1>4, <2>7 DEF QueueInv
  <2>9. QED
    BY <2>5, <2>8 DEF ServerInv
<1>6. CASE l \notin clients
  <2>1. UNCHANGED <<clients, ending, losses>>
    BY <1>2, <1>6 DEF ReadQueue, StillThere
  <2>2. QueueInv'
    BY <1>1, <1>3, <1>4, <2>1 DEF QueueInv
  <2>3. ClientsInv' /\ EventsPaired' /\ DisconnectNeverFails'
    BY <1>1, <2>1 DEF ClientsInv, EventsPaired, DisconnectNeverFails, HadClient
  <2>4. QED
    BY <2>2, <2>3 DEF ServerInv
<1>7. QED
  BY <1>5, <1>6

LEMMA AcceptKeeps ==
  ASSUME LinkInv, ServerInv, LinkOn, ReadQueue, Head(queue).kind = "connected",
         ~(Cardinality(opened_channels) > CtrlSize)
  PROVE  /\ ServerInv' /\ connects \subseteq connects'
         /\ \A k \in connects : id'[k] = id[k]
<1>1. /\ QueueInv /\ ClientsInv /\ EventsPaired /\ DisconnectNeverFails
      /\ queue # <<>> /\ queue' = Tail(queue)
      /\ UNCHANGED <<home, watchedS, brokenS, endpoint, started, ending, losses, kicked>>
  BY DEF ServerInv, ReadQueue, unchangedByServer, HandleConnection
<1>2. PICK l \in Links : l = Head(queue).link
  BY <1>1, TakenConnection
<1>3. /\ serving[l] = "announced" /\ l \notin ending /\ endpoint # 0
      /\ queue' \in Seq(Msg)
      /\ \A i \in 1..Len(queue') : queue'[i].kind = "connected" =>
           serving[queue'[i].link] = "announced" /\ queue'[i].link \notin ending
           /\ queue'[i].link # l
      /\ \A i, j \in 1..Len(queue') :
           i # j /\ queue'[i].kind = "connected" /\ queue'[j].kind = "connected"
             => queue'[i].link # queue'[j].link
  BY <1>1, <1>2, TakenConnection
<1>4. /\ client_id_gen' = client_id_gen + 1
      /\ id' = [id EXCEPT ![l] = client_id_gen + 1]
      /\ clients' = clients \cup {l} /\ connects' = connects \cup {l}
      /\ serving' = [serving EXCEPT ![l] = "serving"]
      /\ idSent' \subseteq idSent \cup {l}
  BY <1>2 DEF ReadQueue, HandleConnection, NextId
<1>5. l \notin connects /\ l \notin clients /\ ~HadClient(l)
  BY <1>1, <1>3 DEF ClientsInv, DisconnectNeverFails, HadClient
<1>6. /\ serving \in [Links -> Servings] /\ id \in [Links -> 0..MaxLinks]
      /\ connects \subseteq Links /\ clients \subseteq Links
      /\ losses \in [Links -> Nat] /\ kicked \subseteq connects
  BY <1>1 DEF QueueInv, ClientsInv
<1>7. /\ serving' \in [Links -> Servings]
      /\ \A k \in Links : serving'[k] = IF k = l THEN "serving" ELSE serving[k]
  BY <1>4, <1>6 DEF Servings
<1>8. /\ Cardinality(connects') = Cardinality(connects) + 1
      /\ Cardinality(connects') <= MaxLinks /\ Cardinality(connects) \in Nat
      /\ MaxLinks \in Nat
  <2>1. IsFiniteSet(Links) /\ Cardinality(Links) = MaxLinks /\ MaxLinks \in Nat
    BY LinksAre DEF LinkInv
  <2>2. IsFiniteSet(connects) /\ Cardinality(connects) \in Nat
    BY <1>6, <2>1, FS_Subset, FS_CardinalityType
  <2>3. PICK C : C = connects \cup {l}
    OBVIOUS
  <2>4. Cardinality(C) = Cardinality(connects) + 1
    BY <1>5, <2>2, <2>3, FS_AddElement
  <2>5. Cardinality(C) <= Cardinality(Links)
    BY <1>6, <2>1, <2>3, FS_Subset
  <2>6. QED
    BY <1>4, <2>1, <2>2, <2>3, <2>4, <2>5
<1>9. client_id_gen \in Nat /\ client_id_gen <= Cardinality(connects)
  BY <1>1, <1>8 DEF ClientsInv
<1>10. /\ id' \in [Links -> 0..MaxLinks] /\ client_id_gen' \in 0..Cardinality(connects')
       /\ \A k \in Links : id'[k] = IF k = l THEN client_id_gen + 1 ELSE id[k]
  BY <1>4, <1>6, <1>8, <1>9
<1>11. \A k \in clients : id[k] <= client_id_gen /\ id[k] \in Nat
  BY <1>1, <1>6 DEF ClientsInv
<1>12. \A k \in clients' : id'[k] <= client_id_gen'
  BY <1>4, <1>6, <1>9, <1>10, <1>11
<1>13. \A k, m \in clients' : id'[k] = id'[m] => k = m
  <2>1. \A k, m \in clients : id[k] = id[m] => k = m
    BY <1>1 DEF ClientsInv
  <2>2. \A k \in clients : id'[k] = id[k] /\ id'[k] # id'[l]
    BY <1>5, <1>6, <1>9, <1>10, <1>11
  <2>3. QED
    BY <1>4, <2>1, <2>2
<1>14. \A k \in Links : HadClient(k) => HadClient(k)'
  BY <1>7 DEF HadClient
<1>15. HadClient(l)'
  BY <1>7 DEF HadClient
<1>16. ClientsInv'
  <2>1. clients' \cup ending' \cup connects' \subseteq Links
    BY <1>1, <1>4 DEF ClientsInv
  <2>2. kicked' \cup idSent' \subseteq connects'
    BY <1>1, <1>4 DEF ClientsInv
  <2>3. \A k \in connects' : HadClient(k)'
    BY <1>1, <1>4, <1>6, <1>14, <1>15 DEF ClientsInv
  <2>4. \A k \in ending' : serving'[k] # "none"
    BY <1>1, <1>7 DEF ClientsInv
  <2>5. clients' \cap ending' = {}
    BY <1>1, <1>3, <1>4 DEF ClientsInv
  <2>6. watchedS' \cup brokenS' \subseteq {k \in Links : HadClient(k)'}
    BY <1>1, <1>14 DEF ClientsInv
  <2>7. QED
    BY <1>1, <1>6, <1>10, <1>12, <1>13, <2>1, <2>2, <2>3, <2>4, <2>5, <2>6
       DEF ClientsInv
<1>17. QueueInv'
  <2>1. \A i \in 1..Len(queue') : queue'[i].link \in Links
    <3>1. \A i \in 1..Len(queue') : queue'[i] \in Msg
      BY <1>3, ElementOfSeq
    <3>2. QED
      BY <3>1 DEF Msg
  <2>2. \A i \in 1..Len(queue') : queue'[i].kind = "connected" =>
          serving'[queue'[i].link] = "announced" /\ queue'[i].link \notin ending'
    BY <1>1, <1>3, <1>7, <2>1
  <2>3. \A k \in Links : serving'[k] # "none" => link'[k] \in {"open", "closed"}
    BY <1>1, <1>3, <1>7 DEF QueueInv, LinkOn
  <2>4. QED
    BY <1>1, <1>3, <1>7, <2>2, <2>3 DEF QueueInv
<1>18. EventsPaired'
  <2>1. losses[l] = 0
    BY <1>1, <1>5, <1>6 DEF EventsPaired
  <2>2. l \notin kicked
    BY <1>5, <1>6
  <2>3. QED
    BY <1>1, <1>4, <2>1, <2>2 DEF EventsPaired
<1>19. DisconnectNeverFails'
  BY <1>1, <1>4, <1>6, <1>7 DEF DisconnectNeverFails
<1>20. \A k \in connects : id'[k] = id[k]
  BY <1>5, <1>6, <1>10
<1>21. QED
  BY <1>4, <1>16, <1>17, <1>18, <1>19, <1>20 DEF ServerInv

LEMMA RefuseKeeps ==
  ASSUME ServerInv, LinkOn, ReadQueue, Head(queue).kind = "connected",
         Cardinality(opened_channels) > CtrlSize
  PROVE  ServerInv' /\ UNCHANGED <<connects, id>>
<1>1. /\ QueueInv /\ ClientsInv /\ EventsPaired /\ DisconnectNeverFails
      /\ queue # <<>> /\ queue' = Tail(queue)
      /\ UNCHANGED <<home, serving, watchedS, brokenS, idSent, endpoint, started, id,
                     client_id_gen, clients, connects, losses, kicked>>
  BY DEF ServerInv, ReadQueue, unchangedByServer, HandleConnection
<1>2. PICK l \in Links : l = Head(queue).link
  BY <1>1, TakenConnection
<1>3. /\ serving[l] = "announced" /\ endpoint # 0 /\ queue' \in Seq(Msg)
      /\ \A i \in 1..Len(queue') : queue'[i].kind = "connected" =>
           serving[queue'[i].link] = "announced" /\ queue'[i].link \notin ending
           /\ queue'[i].link # l
      /\ \A i, j \in 1..Len(queue') :
           i # j /\ queue'[i].kind = "connected" /\ queue'[j].kind = "connected"
             => queue'[i].link # queue'[j].link
  BY <1>1, <1>2, TakenConnection
<1>4. ending' = ending \cup {l}
  BY <1>2 DEF ReadQueue, HandleConnection
<1>5. \A k \in Links : serving[k] # "none" => link'[k] \in {"open", "closed"}
  BY <1>1 DEF QueueInv, LinkOn
<1>6. QueueInv'
  BY <1>1, <1>3, <1>4, <1>5 DEF QueueInv
<1>7. l \notin clients
  BY <1>1, <1>3 DEF DisconnectNeverFails
<1>8. ClientsInv'
  BY <1>1, <1>3, <1>4, <1>7 DEF ClientsInv, HadClient
<1>9. EventsPaired' /\ DisconnectNeverFails'
  BY <1>1 DEF EventsPaired, DisconnectNeverFails
<1>10. QED
  BY <1>1, <1>6, <1>8, <1>9 DEF ServerInv

LEMMA ReadQueueKeeps ==
  ASSUME LinkInv, ServerInv, LinkOn, ReadQueue
  PROVE  ServerInv' /\ connects \subseteq connects' /\ \A k \in connects : id'[k] = id[k]
<1>1. CASE Head(queue).kind # "connected"
  <2>1. UNCHANGED <<connects, id>>
    BY <1>1 DEF ReadQueue
  <2>2. QED
    BY <1>1, <2>1, ReadEndKeeps
<1>2. CASE Head(queue).kind = "connected" /\ Cardinality(opened_channels) > CtrlSize
  <2>1. ServerInv' /\ UNCHANGED <<connects, id>>
    BY <1>2, RefuseKeeps
  <2>2. QED
    BY <2>1
<1>3. CASE Head(queue).kind = "connected" /\ ~(Cardinality(opened_channels) > CtrlSize)
  BY <1>3, AcceptKeeps
<1>4. QED
  BY <1>1, <1>2, <1>3

LEMMA ServerKeeps ==
  ASSUME LinkInv, ServerInv, LinkOn, ServerSteps
  PROVE  ServerInv' /\ connects \subseteq connects' /\ \A k \in connects : id'[k] = id[k]
<1>1. CASE ReadQueue
  BY <1>1, ReadQueueKeeps
<1>2. CASE ReadBrokenS
  <2>1. ServerInv'
    BY <1>2, ReadBrokenSKeeps
  <2>2. UNCHANGED <<connects, id>>
    BY <1>2 DEF ReadBrokenS
  <2>3. QED
    BY <2>1, <2>2
<1>3. CASE start_endpoint
  <2>1. ServerInv'
    BY <1>3, StartKeeps
  <2>2. UNCHANGED <<connects, id>>
    BY <1>3 DEF start_endpoint, history
  <2>3. QED
    BY <2>1, <2>2
<1>4. CASE stop_endpoint
  <2>1. ServerInv'
    BY <1>4, StopKeeps
  <2>2. UNCHANGED <<connects, id>>
    BY <1>4 DEF stop_endpoint
  <2>3. QED
    BY <2>1, <2>2
<1>5. CASE disconnect_all_clients \/ \E l \in Tried : disconnect_client(l)
  <2>1. PICK T \in SUBSET clients :
          /\ Leave(T) /\ kicked' = kicked \cup T
          /\ UNCHANGED <<home, serving, watchedS, brokenS, idSent, endpoint, started,
                         id, client_id_gen, queue, connects, losses>>
    <3>1. CASE disconnect_all_clients
      BY <3>1 DEF disconnect_all_clients, unchangedByServer, serverTasks
    <3>2. ASSUME NEW l \in Tried, disconnect_client(l)
          PROVE  \E T \in SUBSET clients :
                   /\ Leave(T) /\ kicked' = kicked \cup T
                   /\ UNCHANGED <<home, serving, watchedS, brokenS, idSent, endpoint,
                                  started, id, client_id_gen, queue, connects, losses>>
      <4>1. /\ {l} \in SUBSET clients /\ Leave({l}) /\ kicked' = kicked \cup {l}
            /\ UNCHANGED <<home, serving, watchedS, brokenS, idSent, endpoint, started,
                           id, client_id_gen, queue, connects, losses>>
        BY <3>2 DEF disconnect_client, unchangedByServer, serverTasks
      <4>2. QED
        BY <4>1
    <3>3. QED
      BY <1>5, <3>1, <3>2
  <2>2. ServerInv'
    BY <2>1, KickedKeeps
  <2>3. QED
    BY <2>1, <2>2
<1>6. CASE \/ open_channel \/ (\E ch \in Ids : close_channel(ch))
           \/ \E l \in Tried : SpawnTask(l)
  <2>1. UNCHANGED <<home, serving, watchedS, brokenS, idSent, endpointVars, queue,
                    history>>
    BY <1>6 DEF open_channel, close_channel, SpawnTask, unchangedByServer,
                unchangedByServerTasks
  <2>2. ServerInv'
    BY <2>1, ServerUnmoved
  <2>3. QED
    BY <2>1, <2>2 DEF history, endpointVars
<1>7. ASSUME NEW l \in Tried,
             \/ Handshake(l) \/ Refused(l) \/ EndS(l) \/ NoticeClosedS(l) \/ BreaksS(l)
      PROVE  ServerInv' /\ UNCHANGED <<connects, id>>
  <2>1. l \in Links
    BY DEF Tried
  <2>2. ServerInv'
    BY <1>7, <2>1, HandshakeKeeps, RefusedKeeps, EndKeeps, NoticeKeeps, BreaksKeeps
  <2>3. UNCHANGED <<connects, id>>
    BY <1>7 DEF Handshake, Refused, EndS, NoticeClosedS, BreaksS,
                unchangedByServerTasks, history, endpointVars
  <2>4. QED
    BY <2>2, <2>3
<1>8. QED
  BY <1>1, <1>2, <1>3, <1>4, <1>5, <1>6, <1>7 DEF ServerSteps

----------------------------------------------------------------------------
(* The tables of channels.                                                 *)

LEMMA LeastId == ASSUME NEW S, S \subseteq Nat, S # {} PROVE Min(S) \in S
<1>1. PICK x \in S : \A y \in S : ~ (<<y, x>> \in OpToRel(<, Nat))
  BY NatLessThanWellFounded, WFMin
<1>2. \A y \in S : ~ (y < x)
  BY <1>1, Zenon DEF OpToRel
<1>3. \A y \in S : x =< y
  BY <1>2
<1>4. QED
  BY <1>3 DEF Min

(* The requests a new client starts with.                                  *)
LEMMA AsSequence ==
  ASSUME NEW S, S \subseteq Ids
  PROVE  SetToSeq(S) \in Seq(Ids) /\ Len(SetToSeq(S)) = Cardinality(S)
<1>1. IsFiniteSet(S)
  BY ConnectionsAssumption, FS_Subset
<1>2. Cardinality(S) \in Nat /\ ExistsBijection(1..Cardinality(S), S)
  BY <1>1, FS_CardinalityType
<1>3. PICK n \in Nat : n = Cardinality(S)
  BY <1>2
<1>4. \E f \in [1..n -> S] : IsInjective(f)
  <2>1. PICK f : f \in Bijection(1..n, S)
    BY <1>2, <1>3 DEF ExistsBijection
  <2>2. f \in [1..n -> S] /\ IsInjective(f)
    BY <2>1 DEF Bijection, Injection
  <2>3. QED
    BY <2>2
<1>5. SetToSeq(S) \in [1..n -> S]
  BY <1>3, <1>4 DEF SetToSeq
<1>6. PICK s \in [1..n -> S] : s = SetToSeq(S)
  BY <1>5
<1>7. s \in [1..n -> Ids]
  BY <1>6
<1>8. s \in Seq(Ids) /\ Len(s) = n
  BY <1>3, <1>7, LenProperties
<1>9. QED
  BY <1>3, <1>6, <1>8

TablesAgree == TablesInv /\ ChannelsAgree
LEMMA TablesUnmoved ==
  ASSUME TablesAgree, clients' \subseteq clients,
         UNCHANGED <<tableVars, requests, alive>>
  PROVE  TablesAgree'
  BY DEF TablesAgree, TablesInv, ChannelsAgree, tableVars

LEMMA NumbersOfIds == Ids \subseteq Nat /\ CtrlSize \in Nat /\ CtrlSize # 0
  BY ConnectionsAssumption

LEMMA StartAgrees ==
  ASSUME TablesAgree, clients = {}, start_endpoint
  PROVE  TablesAgree'
<1>1. UNCHANGED <<slots, clients, requests, alive>> /\ torn' = FALSE
  BY DEF start_endpoint, serverTasks
<1>2. PICK config \in SUBSET Ids :
        /\ opened_channels' = config /\ available_channel_ids' = Ids \ config
        /\ default_channel' = IF config = {} THEN {} ELSE {Min(config)}
  BY DEF start_endpoint
<1>3. default_channel' \subseteq config
  BY <1>2, LeastId, NumbersOfIds
<1>4. QED
  BY <1>1, <1>2, <1>3 DEF TablesAgree, TablesInv, ChannelsAgree

LEMMA StopAgrees ==
  ASSUME TablesAgree, stop_endpoint
  PROVE  TablesAgree'
<1>1. /\ UNCHANGED <<slots, requests, alive>> /\ torn' = FALSE
      /\ opened_channels' = {} /\ available_channel_ids' = Ids
      /\ default_channel' = {} /\ clients' = {}
  BY DEF stop_endpoint, serverTasks, Leave
<1>2. QED
  BY <1>1 DEF TablesAgree, TablesInv, ChannelsAgree

LEMMA CreateTyped ==
  ASSUME TablesInv, NEW S \in SUBSET Links, NEW ch \in Ids, Create(S, ch),
         \A l \in S : ~Full(l)
  PROVE  /\ slots' \in [Links -> SUBSET Ids] /\ alive' \in [Links -> SUBSET Ids]
         /\ requests' \in [Links -> Seq(Ids)]
         /\ \A l \in Links : Len(requests'[l]) <= CtrlSize
         /\ \A l \in Links : slots'[l] = IF l \in S THEN slots[l] \cup {ch} ELSE slots[l]
<1>1. /\ slots \in [Links -> SUBSET Ids] /\ alive \in [Links -> SUBSET Ids]
      /\ requests \in [Links -> Seq(Ids)]
      /\ \A l \in Links : Len(requests[l]) <= CtrlSize
  BY DEF TablesInv
<1>2. slots' \in [Links -> SUBSET Ids] /\ alive' \in [Links -> SUBSET Ids]
  BY <1>1 DEF Create
<1>3. \A l \in Links : requests'[l] = IF l \in S THEN Append(requests[l], ch)
                                                 ELSE requests[l]
  BY DEF Create
<1>4. ASSUME NEW l \in Links
      PROVE  requests'[l] \in Seq(Ids) /\ Len(requests'[l]) <= CtrlSize
  <2>1. requests[l] \in Seq(Ids)
    BY <1>1
  <2>2. CASE l \in S
    <3>1. /\ Append(requests[l], ch) \in Seq(Ids) /\ Len(requests[l]) \in Nat
          /\ Len(Append(requests[l], ch)) = Len(requests[l]) + 1
      BY <2>1, AppendProperties, LenProperties
    <3>2. Len(requests[l]) < CtrlSize
      BY <2>2, <3>1, NumbersOfIds DEF Full
    <3>3. PICK r : r = Append(requests[l], ch)
      OBVIOUS
    <3>4. r \in Seq(Ids) /\ Len(r) <= CtrlSize
      BY <3>1, <3>2, <3>3, NumbersOfIds
    <3>5. requests'[l] = r
      BY <1>3, <2>2, <3>3
    <3>6. QED
      BY <3>4, <3>5
  <2>3. CASE l \notin S
    BY <1>1, <1>3, <2>3
  <2>4. QED
    BY <2>2, <2>3
<1>5. requests' \in [Links -> Seq(Ids)]
  BY <1>4 DEF Create
<1>6. \A l \in Links : slots'[l] = IF l \in S THEN slots[l] \cup {ch} ELSE slots[l]
  BY DEF Create
<1>7. QED
  BY <1>2, <1>4, <1>5, <1>6

LEMMA OpenAgrees ==
  ASSUME TablesAgree, clients \subseteq Links, open_channel
  PROVE  TablesAgree'
<1>1. /\ TablesInv /\ ChannelsAgree /\ UNCHANGED clients
      /\ available_channel_ids # {} /\ available_channel_ids \subseteq Ids
  BY DEF TablesAgree, TablesInv, open_channel, endpointVars
<1>2. PICK ch \in available_channel_ids : ch = Min(available_channel_ids)
  BY <1>1, LeastId, NumbersOfIds
<1>3. ch \in Ids
  BY <1>1
<1>4. CASE /\ \A l \in clients : ~Full(l)
           /\ Create(clients, ch)
           /\ opened_channels' = opened_channels \cup {ch}
           /\ available_channel_ids' = available_channel_ids \ {ch}
           /\ default_channel' = IF default_channel = {} THEN {ch} ELSE default_channel
           /\ UNCHANGED torn
  <2>1. /\ slots' \in [Links -> SUBSET Ids] /\ alive' \in [Links -> SUBSET Ids]
        /\ requests' \in [Links -> Seq(Ids)]
        /\ \A l \in Links : Len(requests'[l]) <= CtrlSize
        /\ \A l \in Links :
             slots'[l] = IF l \in clients THEN slots[l] \cup {ch} ELSE slots[l]
    BY <1>1, <1>3, <1>4, CreateTyped
  <2>2. TablesInv'
    BY <1>1, <1>3, <1>4, <2>1 DEF TablesInv
  <2>3. ~torn => /\ available_channel_ids' = Ids \ opened_channels'
                 /\ \A l \in clients : slots'[l] = opened_channels'
    BY <1>1, <1>4, <2>1 DEF ChannelsAgree
  <2>4. default_channel' \subseteq opened_channels'
    BY <1>1, <1>4 DEF ChannelsAgree
  <2>5. QED
    BY <1>1, <1>4, <2>2, <2>3, <2>4 DEF TablesAgree, ChannelsAgree
<1>5. ASSUME NEW S \in SUBSET (clients \ {l \in clients : Full(l)}), Create(S, ch),
             torn' = TRUE,
             UNCHANGED <<opened_channels, available_channel_ids, default_channel>>
      PROVE  TablesAgree'
  <2>1. S \in SUBSET Links /\ \A l \in S : ~Full(l)
    OBVIOUS
  <2>2. /\ slots' \in [Links -> SUBSET Ids] /\ alive' \in [Links -> SUBSET Ids]
        /\ requests' \in [Links -> Seq(Ids)]
        /\ \A l \in Links : Len(requests'[l]) <= CtrlSize
    BY <1>1, <1>3, <1>5, <2>1, CreateTyped
  <2>3. TablesInv'
    BY <1>1, <1>5, <2>2 DEF TablesInv
  <2>4. QED
    BY <1>1, <1>5, <2>3 DEF TablesAgree, ChannelsAgree
<1>6. QED
  BY <1>2, <1>4, <1>5 DEF open_channel

LEMMA ShutTyped ==
  ASSUME TablesInv, NEW S \in SUBSET Links, NEW ch, Shut(S, ch)
  PROVE  /\ slots' \in [Links -> SUBSET Ids] /\ alive' \in [Links -> SUBSET Ids]
         /\ \A l \in Links : slots'[l] = IF l \in S THEN slots[l] \ {ch} ELSE slots[l]
<1>1. slots \in [Links -> SUBSET Ids] /\ alive \in [Links -> SUBSET Ids]
  BY DEF TablesInv
<1>2. slots' \in [Links -> SUBSET Ids] /\ alive' \in [Links -> SUBSET Ids]
  BY <1>1 DEF Shut
<1>3. \A l \in Links : slots'[l] = IF l \in S THEN slots[l] \ {ch} ELSE slots[l]
  BY DEF Shut
<1>4. QED
  BY <1>2, <1>3

LEMMA CloseAgrees ==
  ASSUME TablesAgree, clients \subseteq Links, NEW ch \in Ids, close_channel(ch)
  PROVE  TablesAgree'
<1>1. /\ TablesInv /\ ChannelsAgree /\ UNCHANGED <<clients, requests>>
      /\ opened_channels' = opened_channels \ {ch}
      /\ default_channel' = default_channel \ {ch}
  BY DEF TablesAgree, close_channel, endpointVars, DefaultAfter
<1>2. default_channel' \subseteq opened_channels'
  BY <1>1 DEF ChannelsAgree
<1>3. CASE /\ Shut(clients, ch) /\ UNCHANGED torn
           /\ available_channel_ids' = available_channel_ids \cup {ch}
  <2>1. /\ slots' \in [Links -> SUBSET Ids] /\ alive' \in [Links -> SUBSET Ids]
        /\ \A l \in Links :
             slots'[l] = IF l \in clients THEN slots[l] \ {ch} ELSE slots[l]
    BY <1>1, <1>3, ShutTyped
  <2>2. TablesInv'
    BY <1>1, <1>3, <2>1 DEF TablesInv
  <2>3. ~torn => /\ available_channel_ids' = Ids \ opened_channels'
                 /\ \A l \in clients : slots'[l] = opened_channels'
    BY <1>1, <1>3, <2>1 DEF ChannelsAgree
  <2>4. QED
    BY <1>1, <1>2, <1>3, <2>2, <2>3 DEF TablesAgree, ChannelsAgree
<1>4. ASSUME NEW S \in SUBSET clients, Shut(S, ch), torn' = TRUE,
             UNCHANGED available_channel_ids
      PROVE  TablesAgree'
  <2>1. slots' \in [Links -> SUBSET Ids] /\ alive' \in [Links -> SUBSET Ids]
    BY <1>1, <1>4, ShutTyped
  <2>2. TablesInv'
    BY <1>1, <1>4, <2>1 DEF TablesInv
  <2>3. QED
    BY <1>1, <1>2, <1>4, <2>2 DEF TablesAgree, ChannelsAgree
<1>5. CASE \E l \in {m \in clients : ch \notin slots[m] \cap alive[m]} :
             \E S \in SUBSET (clients \ {m \in clients : ch \notin slots[m] \cap alive[m]}) :
               Shut(S \cup {l}, ch) /\ torn' = TRUE /\ UNCHANGED available_channel_ids
  <2>1. PICK T \in SUBSET clients : Shut(T, ch) /\ torn' = TRUE
                                    /\ UNCHANGED available_channel_ids
    BY <1>5
  <2>2. QED
    BY <1>4, <2>1
<1>6. QED
  BY <1>3, <1>5 DEF close_channel

LEMMA ReadAgrees ==
  ASSUME TablesAgree, QueueInv, ClientsInv, ReadQueue
  PROVE  TablesAgree'
<1>1. /\ TablesInv /\ ChannelsAgree
      /\ UNCHANGED <<opened_channels, available_channel_ids, default_channel, torn>>
  BY DEF TablesAgree, ReadQueue
<1>2. CASE Head(queue).kind = "connected" /\ ~(Cardinality(opened_channels) > CtrlSize)
  <2>1. PICK l : l = Head(queue).link
    OBVIOUS
  <2>2. /\ clients' = clients \cup {l} /\ slots' = [slots EXCEPT ![l] = opened_channels]
        /\ alive' = [alive EXCEPT ![l] = opened_channels]
        /\ requests' = [requests EXCEPT ![l] = SetToSeq(opened_channels)]
    BY <1>2, <2>1 DEF ReadQueue, HandleConnection, Welcome
  <2>3. l \in Links /\ clients \subseteq Links
    BY <1>2, <2>1, TakenConnection DEF ReadQueue, ClientsInv
  <2>4. opened_channels \subseteq Ids
    BY <1>1 DEF TablesInv
  <2>5. PICK s : s = SetToSeq(opened_channels)
    OBVIOUS
  <2>6. s \in Seq(Ids) /\ Len(s) <= CtrlSize
    <3>1. s \in Seq(Ids) /\ Len(s) = Cardinality(opened_channels)
      BY <2>4, <2>5, AsSequence
    <3>2. Len(s) \in Nat
      BY <3>1, LenProperties
    <3>3. QED
      BY <1>2, <3>1, <3>2, NumbersOfIds
  <2>7. TablesInv'
    BY <1>1, <2>2, <2>3, <2>4, <2>5, <2>6 DEF TablesInv
  <2>8. \A m \in Links : slots'[m] = IF m = l THEN opened_channels ELSE slots[m]
    BY <1>1, <2>2 DEF TablesInv
  <2>9. QED
    BY <1>1, <2>2, <2>3, <2>7, <2>8 DEF TablesAgree, ChannelsAgree
<1>3. CASE ~(Head(queue).kind = "connected" /\ ~(Cardinality(opened_channels) > CtrlSize))
  <2>1. clients' \subseteq clients /\ UNCHANGED <<slots, alive, requests>>
    BY <1>3 DEF ReadQueue, HandleConnection, Leave
  <2>2. QED
    BY <1>1, <2>1, TablesUnmoved DEF tableVars
<1>4. QED
  BY <1>2, <1>3

LEMMA SpawnAgrees ==
  ASSUME TablesAgree, NEW l \in Links, SpawnTask(l)
  PROVE  TablesAgree'
<1>1. /\ TablesInv /\ ChannelsAgree /\ UNCHANGED <<tableVars, clients>>
      /\ requests[l] # <<>>
  BY DEF TablesAgree, SpawnTask, unchangedByServerTasks, endpointVars
<1>2. /\ requests \in [Links -> Seq(Ids)] /\ alive \in [Links -> SUBSET Ids]
      /\ \A m \in Links : Len(requests[m]) <= CtrlSize
  BY <1>1 DEF TablesInv
<1>3. PICK s : s = Tail(requests[l])
  OBVIOUS
<1>4. s \in Seq(Ids) /\ Len(s) <= CtrlSize
  <2>1. requests[l] \in Seq(Ids) /\ Len(requests[l]) \in Nat
    BY <1>2, LenProperties
  <2>2. s \in Seq(Ids) /\ Len(s) = Len(requests[l]) - 1
    BY <1>1, <1>3, <2>1, HeadTailProperties
  <2>3. QED
    BY <1>2, <2>1, <2>2, NumbersOfIds
<1>5. requests' = [requests EXCEPT ![l] = s]
  BY <1>3 DEF SpawnTask
<1>6. /\ requests' \in [Links -> Seq(Ids)]
      /\ \A m \in Links : Len(requests'[m]) <= CtrlSize
  BY <1>2, <1>4, <1>5
<1>7. alive' \in [Links -> SUBSET Ids]
  <2>1. PICK h : h = Head(requests[l])
    OBVIOUS
  <2>2. CASE UNCHANGED alive
    BY <1>2, <2>2
  <2>3. CASE alive' = [alive EXCEPT ![l] = @ \ {h}]
    BY <1>2, <2>3
  <2>4. QED
    BY <2>1, <2>2, <2>3 DEF SpawnTask
<1>8. QED
  BY <1>1, <1>6, <1>7 DEF TablesAgree, TablesInv, ChannelsAgree, tableVars

LEMMA EndAgrees ==
  ASSUME TablesAgree, NEW l \in Links, EndS(l)
  PROVE  TablesAgree'
<1>1. /\ TablesInv /\ ChannelsAgree /\ UNCHANGED <<tableVars, clients>>
      /\ requests' = [requests EXCEPT ![l] = <<>>] /\ alive' = [alive EXCEPT ![l] = {}]
  BY DEF TablesAgree, EndS, unchangedByServerTasks, endpointVars
<1>2. <<>> \in Seq(Ids) /\ Len(<<>>) = 0
  BY EmptySeq
<1>3. /\ requests' \in [Links -> Seq(Ids)] /\ alive' \in [Links -> SUBSET Ids]
      /\ \A m \in Links : Len(requests'[m]) <= CtrlSize
  BY <1>1, <1>2, NumbersOfIds DEF TablesInv
<1>4. QED
  BY <1>1, <1>3 DEF TablesAgree, TablesInv, ChannelsAgree, tableVars

LEMMA TablesStay ==
  ASSUME TablesAgree, ServerInv, ServerSteps
  PROVE  TablesAgree'
<1>1. QueueInv /\ ClientsInv /\ clients \subseteq Links
  BY DEF ServerInv, ClientsInv
<1>2. CASE start_endpoint
  <2>1. clients = {}
    BY <1>1, <1>2 DEF QueueInv, start_endpoint
  <2>2. QED
    BY <1>2, <2>1, StartAgrees
<1>3. CASE stop_endpoint
  BY <1>3, StopAgrees
<1>4. CASE open_channel
  BY <1>1, <1>4, OpenAgrees
<1>5. CASE ReadQueue
  BY <1>1, <1>5, ReadAgrees
<1>6. CASE disconnect_all_clients \/ ReadBrokenS \/ \E l \in Tried : disconnect_client(l)
  <2>1. clients' \subseteq clients /\ UNCHANGED <<tableVars, requests, alive>>
    BY <1>6 DEF disconnect_all_clients, ReadBrokenS, disconnect_client, Leave,
                serverTasks
  <2>2. QED
    BY <2>1, TablesUnmoved
<1>7. ASSUME NEW ch \in Ids, close_channel(ch) PROVE TablesAgree'
  BY <1>1, <1>7, CloseAgrees
<1>8. ASSUME NEW l \in Tried, BreaksS(l) \/ Refused(l) \/ NoticeClosedS(l) \/ Handshake(l)
      PROVE  TablesAgree'
  <2>1. UNCHANGED <<clients, tableVars, requests, alive>>
    BY <1>8 DEF BreaksS, Refused, NoticeClosedS, Handshake, unchangedByServerTasks,
                endpointVars
  <2>2. QED
    BY <2>1, TablesUnmoved
<1>9. ASSUME NEW l \in Tried, SpawnTask(l) \/ EndS(l) PROVE TablesAgree'
  BY <1>9, SpawnAgrees, EndAgrees DEF Tried
<1>10. QED
  BY <1>2, <1>3, <1>4, <1>5, <1>6, <1>7, <1>8, <1>9 DEF ServerSteps

----------------------------------------------------------------------------
(* The invariant.                                                          *)

LEMMA InitHolds == ASSUME Init PROVE IInv
<1>1. /\ cast \in Casts /\ cast.own \in Nat /\ cast.turns \in Nat /\ MaxLinks \in Nat
      /\ Own = 1..cast.own /\ Others \subseteq Links
  BY LinksAre DEF Init
<1>2. Tried = {} /\ link \in [Links -> LinkStates]
  BY DEF Init, Tried, LinkStates
<1>3. LinkInv
  <2>1. 0 \in 0..cast.own /\ 1..0 = {} /\ 0 \in 0..cast.turns
    BY <1>1
  <2>2. QED
    BY <1>1, <1>2, <2>1 DEF Init, LinkInv
<1>4. /\ <<>> \in Seq(Conn) /\ Len(<<>>) = 0
      /\ <<>> \in Seq({"Connected", "Failed", "Closed"})
      /\ <<>> \in Seq(Msg) /\ <<>> \in Seq(Ids)
  BY EmptySeq
<1>5. ClientInv
  <2>1. conns \in Seq(Conn) /\ default \in 0..Len(conns)
    BY <1>4 DEF Init
  <2>2. /\ dial \in [Links -> Dials]
        /\ \A l \in Links : dial[l] = "none"
    BY DEF Init, Dials
  <2>3. news \in [Links -> Seq({"Connected", "Failed", "Closed"})]
    BY <1>4 DEF Init
  <2>4. QED
    BY <1>1, <2>1, <2>2, <2>3 DEF Init, ClientInv
<1>6. QueueInv
  <2>1. MaxEndpoints \in Nat
    BY ConnectionsAssumption
  <2>2. serving \in [Links -> Servings] /\ \A l \in Links : serving[l] = "none"
    BY DEF Init, Servings
  <2>3. queue \in Seq(Msg) /\ Len(queue) = 0
    BY <1>4 DEF Init
  <2>4. QED
    BY <2>1, <2>2, <2>3 DEF Init, QueueInv
<1>7. ClientsInv
  <2>1. Cardinality({}) = 0
    BY FS_EmptySet
  <2>2. id \in [Links -> 0..MaxLinks] /\ losses \in [Links -> Nat]
    BY <1>1 DEF Init
  <2>3. QED
    BY <2>1, <2>2 DEF Init, ClientsInv
<1>8. EventsPaired /\ DisconnectNeverFails
  BY DEF Init, EventsPaired, DisconnectNeverFails
<1>9. TablesInv /\ ChannelsAgree
  <2>1. requests \in [Links -> Seq(Ids)] /\ \A l \in Links : Len(requests[l]) <= CtrlSize
    BY <1>4, NumbersOfIds DEF Init
  <2>2. slots \in [Links -> SUBSET Ids] /\ alive \in [Links -> SUBSET Ids]
    BY DEF Init
  <2>3. QED
    BY <2>1, <2>2 DEF Init, TablesInv, ChannelsAgree
<1>10. ToldInv
  <2>1. \A l \in Links : Len(news[l]) = 0
    BY <1>4 DEF Init
  <2>2. Locals = {}
    BY <1>4 DEF Init, Locals
  <2>3. QED
    BY <2>1, <2>2 DEF ToldInv
<1>11. QED
  BY <1>3, <1>5, <1>6, <1>7, <1>8, <1>9, <1>10 DEF IInv, ServerInv

LEMMA NextHolds == ASSUME IInv, Next PROVE IInv'
<1>1. /\ LinkInv /\ ClientInv /\ ServerInv /\ TablesAgree /\ ToldInv
  BY DEF IInv, TablesAgree
<1>2. /\ LinkInv' /\ LinkOn /\ cast' = cast
      /\ ClientSteps \/ LinkSteps \/ ServerSteps
  BY <1>1, Steps, LinkStays
<1>3. CASE ClientSteps
  <2>1. ClientInv' /\ ToldInv'
    BY <1>2, <1>3, ClientKeeps
  <2>2. UNCHANGED <<home, serverTasks, tableVars, endpointVars, queue, history>>
    BY <1>3, ClientFrame
  <2>3. ServerInv'
    BY <1>1, <1>2, <2>2, ServerUnmoved DEF serverTasks
  <2>4. TablesAgree'
    BY <1>1, <2>2, TablesUnmoved DEF serverTasks, endpointVars
  <2>5. QED
    BY <1>2, <2>1, <2>3, <2>4 DEF IInv, TablesAgree
<1>4. CASE LinkSteps
  <2>1. UNCHANGED <<clientVars, clientTasks, home, serverTasks, tableVars,
                    endpointVars, queue, history, revived>>
    BY <1>4, LinkFrame
  <2>2. ClientInv'
    BY <1>1, <1>2, <2>1, ClientUnmoved
  <2>3. ToldInv'
    BY <1>1, <2>1, ToldUnmoved DEF history, endpointVars
  <2>4. ServerInv'
    BY <1>1, <1>2, <2>1, ServerUnmoved DEF serverTasks
  <2>5. TablesAgree'
    BY <1>1, <2>1, TablesUnmoved DEF serverTasks, endpointVars
  <2>6. QED
    BY <1>2, <2>2, <2>3, <2>4, <2>5 DEF IInv, TablesAgree
<1>5. CASE ServerSteps
  <2>1. UNCHANGED <<clientVars, clientTasks, revived>>
    BY <1>5, ServerFrame
  <2>2. ClientInv'
    BY <1>1, <1>2, <2>1, ClientUnmoved
  <2>3. ServerInv' /\ connects \subseteq connects' /\ \A k \in connects : id'[k] = id[k]
    BY <1>1, <1>2, <1>5, ServerKeeps
  <2>4. ToldInv'
    BY <1>1, <2>1, <2>3, ToldUnmoved
  <2>5. TablesAgree'
    BY <1>1, <1>5, TablesStay
  <2>6. QED
    BY <1>2, <2>2, <2>3, <2>4, <2>5 DEF IInv, TablesAgree
<1>6. QED
  BY <1>2, <1>3, <1>4, <1>5

LEMMA Unmoved == ASSUME IInv, UNCHANGED vars PROVE IInv'
<1>1. UNCHANGED <<conns, default, closeSent, dropped, dial, news, brokenC, deaf, running,
                  watchedC, link, home, serving, watchedS, brokenS, requests, alive,
                  idSent, opened_channels, available_channel_ids, default_channel,
                  slots, torn>>
  BY DEF vars, clientVars, clientTasks, serverTasks, tableVars
<1>2. UNCHANGED <<endpoint, started, id, client_id_gen, clients, ending, connects,
                  losses, kicked, queue, revived, turns, cast>>
  BY DEF vars, endpointVars, history
<1>3. LinkInv' /\ LinkOn
  BY <1>1, <1>2 DEF IInv, LinkInv, LinkOn, Tried, Own
<1>4. ClientInv'
  BY <1>1, <1>2, ClientUnmoved DEF IInv, clientVars, clientTasks
<1>5. ServerInv'
  BY <1>1, <1>2, <1>3, ServerUnmoved DEF IInv, endpointVars, history
<1>6. TablesInv' /\ ChannelsAgree'
  BY <1>1, <1>2 DEF IInv, TablesInv, ChannelsAgree
<1>7. ToldInv'
  BY <1>1, <1>2 DEF IInv, ToldInv, Locals
<1>8. QED
  BY <1>3, <1>4, <1>5, <1>6, <1>7 DEF IInv

LEMMA Inductively == Spec => []IInv
<1>1. Init => IInv
  BY InitHolds
<1>2. IInv /\ [Next]_vars => IInv'
  BY NextHolds, Unmoved
<1>3. QED
  BY <1>1, <1>2, PTL DEF Spec

----------------------------------------------------------------------------
(* The theorems.                                                           *)

LEMMA TypesHold == ASSUME IInv PROVE TypeOK
<1>1. LinkInv /\ ClientInv /\ QueueInv /\ ClientsInv /\ EventsPaired /\ TablesInv
  BY DEF IInv, ServerInv
<1>2. /\ \A k \in Locals : conns[k] \in [state : States, link : Own,
                                         client_id : 0..MaxLinks]
      /\ default \in 0..Len(conns)
  BY <1>1, LocalsAre DEF Conn, ClientInv
<1>3. \A l \in Links : ToSet(news[l]) \subseteq {"Connected", "Failed", "Closed"}
  <2>1. SUFFICES ASSUME NEW l \in Links
                 PROVE  ToSet(news[l]) \subseteq {"Connected", "Failed", "Closed"}
    OBVIOUS
  <2>2. PICK s \in Seq(Words) : s = news[l]
    BY <1>1 DEF ClientInv, Words
  <2>3. DOMAIN s = 1..Len(s) /\ \A i \in 1..Len(s) : s[i] \in Words
    BY LenProperties, ElementOfSeq
  <2>4. ToSet(s) \subseteq Words
    BY <2>3 DEF ToSet
  <2>5. QED
    BY <2>2, <2>4 DEF Words
<1>4. /\ brokenC \cup closeSent \cup deaf \cup running \cup watchedC \cup revived \subseteq Own
      /\ dropped \subseteq Links
  BY <1>1 DEF ClientInv
<1>5. connects \subseteq Tried /\ ending \subseteq Tried
  <2>1. connects \cup ending \subseteq Links
    BY <1>1 DEF ClientsInv
  <2>2. \A l \in connects \cup ending : serving[l] # "none"
    BY <1>1 DEF ClientsInv, HadClient
  <2>3. \A l \in connects \cup ending : link[l] # "none"
    BY <1>1, <2>1, <2>2 DEF QueueInv
  <2>4. QED
    BY <2>1, <2>3 DEF Tried
<1>6. watchedS \cup brokenS \subseteq Tried
  <2>1. \A l \in watchedS \cup brokenS : l \in Links /\ serving[l] # "none"
    BY <1>1 DEF ClientsInv, HadClient
  <2>2. QED
    BY <1>1, <2>1 DEF QueueInv, Tried
<1>7. clients \subseteq connects /\ kicked \cup idSent \subseteq connects
  BY <1>1 DEF ClientsInv, EventsPaired
<1>8. client_id_gen \in 0..MaxLinks
  <2>1. IsFiniteSet(Links) /\ Cardinality(Links) = MaxLinks /\ MaxLinks \in Nat
    BY <1>1, LinksAre DEF LinkInv
  <2>2. IsFiniteSet(connects) /\ Cardinality(connects) <= MaxLinks
        /\ Cardinality(connects) \in Nat
    BY <1>1, <2>1, FS_Subset, FS_CardinalityType DEF ClientsInv
  <2>3. client_id_gen \in 0..Cardinality(connects)
    BY <1>1 DEF ClientsInv
  <2>4. QED
    BY <2>1, <2>2, <2>3
<1>9. \A i \in DOMAIN queue : queue[i] \in [kind : {"connected", "closed"}, link : Links]
  <2>1. queue \in Seq(Msg)
    BY <1>1 DEF QueueInv
  <2>2. DOMAIN queue = 1..Len(queue) /\ \A i \in 1..Len(queue) : queue[i] \in Msg
    BY <2>1, LenProperties, ElementOfSeq
  <2>3. QED
    BY <2>2 DEF Msg
<1>10. \A l \in Links : requests[l] \in Seq(Ids) /\ Len(requests[l]) <= CtrlSize
  BY <1>1 DEF TablesInv
<1>11. link \in [Links -> {"none", "dialing", "open", "closed"}]
       /\ dial \in [Links -> {"none", "dialing", "failed", "awaiting", "over"}]
  BY <1>1 DEF LinkInv, LinkStates, ClientInv, Dials
<1>12. /\ endpoint \in {0, started} /\ started \in 0..MaxEndpoints
       /\ home \in [Links -> 0..started] /\ id \in [Links -> 0..MaxLinks]
       /\ serving \in [Links -> {"none", "announced", "refused", "serving", "ended"}]
       /\ losses \in [Links -> Nat]
  BY <1>1 DEF QueueInv, ClientsInv, Servings
<1>13. /\ opened_channels \subseteq Ids /\ available_channel_ids \subseteq Ids
       /\ default_channel \subseteq Ids /\ torn \in BOOLEAN
       /\ slots \in [Links -> SUBSET Ids] /\ alive \in [Links -> SUBSET Ids]
  BY <1>1 DEF TablesInv
<1>14. cast \in Casts /\ turns \in 0..cast.turns
  BY <1>1 DEF LinkInv
<1>15. /\ clients \cup ending \cup watchedS \cup brokenS \cup idSent \subseteq Tried
       /\ connects \cup kicked \subseteq Tried
  BY <1>5, <1>6, <1>7
<1>16. QED
  BY <1>2, <1>3, <1>4, <1>8, <1>9, <1>10, <1>11, <1>12, <1>13, <1>14, <1>15 DEF TypeOK

(* Every variable of the two ends keeps its type, whatever is connected,   *)
(* lost, disconnected, opened or closed in whatever order.                 *)
THEOREM TypeCorrect == Spec => []TypeOK
<1>1. IInv => TypeOK
  BY TypesHold
<1>2. QED
  BY <1>1, Inductively, PTL

(* A program that counts the events of update_sync_server has the clients  *)
(* of the endpoint: each is lost once at most, after its connection, and   *)
(* not when the program itself disconnected it.                            *)
THEOREM EventsAlwaysPaired == Spec => []EventsPaired
<1>1. IInv => EventsPaired
  BY DEF IInv, ServerInv
<1>2. QED
  BY <1>1, Inductively, PTL

(* disconnect_all_clients and stop_endpoint never find a client they       *)
(* cannot tell to close.                                                   *)
THEOREM DisconnectAlwaysSucceeds == Spec => []DisconnectNeverFails
<1>1. IInv => DisconnectNeverFails
  BY DEF IInv, ServerInv
<1>2. QED
  BY <1>1, Inductively, PTL

(* The channel tables of the endpoint and of its clients agree until an    *)
(* open_channel or close_channel stops half-way.                           *)
THEOREM ChannelsAlwaysAgree == Spec => []ChannelsAgree
<1>1. IInv => ChannelsAgree
  BY DEF IInv
<1>2. QED
  BY <1>1, Inductively, PTL

(* A connected client has the id the endpoint gave to its link, and no two *)
(* clients of the endpoint have the same.                                  *)
THEOREM IdsAlwaysAgree == Spec => []IdsAgree
<1>1. IInv => IdsAgree
  BY DEF IInv, ServerInv, ClientsInv, ToldInv, IdsAgree
<1>2. QED
  BY <1>1, Inductively, PTL
=============================================================================
