--------------------------- MODULE SessionsProofs ---------------------------
(***************************************************************************)
(* Theorems about Sessions, for any number of connections, ids, messages   *)
(* and places in the buffers: who serves whom, what a stream carries, and  *)
(* in which order.                                                         *)
(***************************************************************************)
EXTENDS Sessions, SequenceTheorems, TLAPS

----------------------------------------------------------------------------
(* What a thread relies on in a turn of its loop.                          *)

Serving == {"read", "answer", "chestfile", "udmheader", "udmfile", "send", "sending",
            "PlayerUpdate", "RequestUdm", "ReqChestReg", "RequestSeed"}
Transfer == {"udmheader", "udmfile"}

(* The stream a thread has found is one of its id, and a stream nobody     *)
(* greeted on is empty.                                                    *)
TurnInv ==
  \A c \in Conns :
    /\ pc[c] \in {"none", "refused"} <=> idOf[c] = Absent
    /\ idOf[c] = Absent => wire[c] = <<>>
    /\ pc[c] \in Serving => str[c] \in Conns /\ idOf[str[c]] = idOf[c]
    /\ pc[c] # "sending" => todo[c] = {}

(* Who is inside a lock is where the lock is taken.                        *)
LockInv ==
  /\ \A c \in Conns : pc[c] = "sending" <=> clientsLock = c
  /\ \A s, c \in Conns : streamLock[s] = c <=> pc[c] \in Transfer /\ str[c] = s

(* A session's stream greeted with its id.  While a thread goes through    *)
(* the map, nobody changes it.                                             *)
MapInv ==
  /\ \A i \in Ids : clients[i] # Absent => idOf[clients[i].conn] = i
  /\ \A c \in Conns : \A to \in todo[c] :
       /\ clients[to.id] # Absent /\ clients[to.id].ready
       /\ to.conn = IF to.id = idOf[c] THEN str[c] ELSE clients[to.id].conn

SessInv == TypeOK /\ TurnInv /\ LockInv /\ MapInv

----------------------------------------------------------------------------
(* The variables by their owners.                                          *)
MapTypes ==
  /\ clients \in [Ids -> [conn : Conns, ready : BOOLEAN] \cup {Absent}]
  /\ clientsLock \in Conns \cup {Free}
  /\ idOf \in [Conns -> Ids \cup {Absent}] /\ doubled \in SUBSET Ids
  /\ updated \in SUBSET Conns /\ early \in SUBSET Conns
ThreadTypes ==
  /\ pc \in [Conns -> PCs] /\ str \in [Conns -> Conns \cup {Absent}]
  /\ msg \in [Conns -> Message \cup {None}]
  /\ todo \in [Conns -> SUBSET [id : Ids, conn : Conns]]
  /\ leaving \in [Conns -> BOOLEAN]
StreamTypes ==
  /\ streamLock \in [Conns -> Conns \cup {Free}]
  /\ wire \in [Conns -> Seq(Message \cup {Unit(a) : a \in Answers})]
  /\ unread \in [Conns -> 0..Room] /\ torn \in [Conns -> BOOLEAN]
  /\ blocking \in [Conns -> BOOLEAN]
ClientTypes ==
  /\ inbox \in [Conns -> Seq(Message)] /\ open \in [Conns -> BOOLEAN]
  /\ sent \in 0..MaxMsgs

LEMMA TypesByOwner == TypeOK <=> MapTypes /\ ThreadTypes /\ StreamTypes /\ ClientTypes
BY DEF TypeOK, MapTypes, ThreadTypes, StreamTypes, ClientTypes

LEMMA SamePlaces ==
  ASSUME UNCHANGED <<clients, clientsLock, idOf, historyVars>>, MapTypes
  PROVE  MapTypes'
BY DEF MapTypes, historyVars

LEMMA SameThreads == ASSUME UNCHANGED threadVars, ThreadTypes PROVE ThreadTypes'
BY DEF ThreadTypes, threadVars

LEMMA SameStreams == ASSUME UNCHANGED streamVars, StreamTypes PROVE StreamTypes'
BY DEF StreamTypes, streamVars

LEMMA SameClients == ASSUME UNCHANGED clientVars, ClientTypes PROVE ClientTypes'
BY DEF ClientTypes, clientVars

LEMMA InitSessInv == Init => SessInv
<1> SUFFICES ASSUME Init
             PROVE  SessInv
  OBVIOUS
<1>0. SessionsAssumption
  BY SessionsAssumption
<1>1. /\ clients = [i \in Ids |-> Absent] /\ clientsLock = Free
      /\ idOf = [c \in Conns |-> Absent]
      /\ doubled = {} /\ updated = {} /\ early = {}
      /\ pc = [c \in Conns |-> "none"] /\ str = [c \in Conns |-> Absent]
      /\ msg = [c \in Conns |-> None] /\ todo = [c \in Conns |-> {}]
      /\ leaving = [c \in Conns |-> FALSE]
      /\ streamLock = [c \in Conns |-> Free]
      /\ wire = [c \in Conns |-> <<>>] /\ unread = [c \in Conns |-> 0]
      /\ torn = [c \in Conns |-> FALSE] /\ blocking = [c \in Conns |-> FALSE]
      /\ inbox = [c \in Conns |-> <<>>] /\ open = [c \in Conns |-> TRUE]
      /\ sent = 0
  BY DEF Init
<1>2. MapTypes
  BY <1>1 DEF MapTypes
<1>3. ThreadTypes
  <2>1. "none" \in PCs
    BY DEF PCs
  <2> QED
    BY <1>1, <2>1 DEF ThreadTypes
<1>4. StreamTypes
  <2>1. Room \in Nat
    BY <1>0 DEF SessionsAssumption
  <2>2. <<>> \in Seq(Message \cup {Unit(a) : a \in Answers})
    OBVIOUS
  <2> HIDE DEF Unit, Message
  <2> QED
    BY <1>1, <2>1, <2>2 DEF StreamTypes
<1>5. ClientTypes
  <2>1. MaxMsgs \in Nat
    BY <1>0 DEF SessionsAssumption
  <2> QED
    BY <1>1, <2>1 DEF ClientTypes
<1>6. TurnInv
  BY <1>1 DEF TurnInv, Serving
<1>7. LockInv
  BY <1>0, <1>1 DEF LockInv, Transfer, SessionsAssumption
<1>8. MapInv
  BY <1>1 DEF MapInv
<1> QED
  BY <1>2, <1>3, <1>4, <1>5, <1>6, <1>7, <1>8, TypesByOwner DEF SessInv

----------------------------------------------------------------------------
(* Writing.                                                                *)

Units == Message \cup {Unit(a) : a \in Answers}
Written(s, u) ==
  /\ open[s] /\ ~torn[s] /\ u.kind \in Recorded
  /\ wire' = [wire EXCEPT ![s] = Append(@, u)] /\ UNCHANGED torn
Unwritten(s) ==
  /\ UNCHANGED wire
  /\ UNCHANGED torn \/ (open[s] /\ torn' = [torn EXCEPT ![s] = TRUE])

LEMMA WriteIs ==
  ASSUME StreamTypes, NEW s \in Conns, NEW u, Write(s, u)
  PROVE  /\ Written(s, u) \/ Unwritten(s)
         /\ unread' \in [Conns -> 0..Room] /\ torn' \in [Conns -> BOOLEAN]
<1>1. Room \in Nat
  BY SessionsAssumption DEF SessionsAssumption
<1>2. CASE /\ Fits(s) /\ unread' = [unread EXCEPT ![s] = @ + 1]
           /\ wire' = IF torn[s] \/ u.kind \notin Recorded THEN wire
                      ELSE [wire EXCEPT ![s] = Append(@, u)]
           /\ UNCHANGED torn
  <2>1. unread' \in [Conns -> 0..Room] /\ torn' \in [Conns -> BOOLEAN]
    BY <1>1, <1>2 DEF StreamTypes, Fits
  <2>2. CASE torn[s] \/ u.kind \notin Recorded
    BY <1>2, <2>1, <2>2 DEF Unwritten
  <2>3. CASE ~(torn[s] \/ u.kind \notin Recorded)
    BY <1>2, <2>1, <2>3 DEF Written, Fits
  <2> QED
    BY <2>2, <2>3
<1>3. CASE /\ ~Fits(s)
           /\ \/ UNCHANGED torn
              \/ open[s] /\ torn' = [torn EXCEPT ![s] = TRUE]
           /\ UNCHANGED <<unread, wire>>
  BY <1>3 DEF StreamTypes, Unwritten
<1> QED
  BY <1>2, <1>3 DEF Write

LEMMA WrittenIs ==
  ASSUME StreamTypes, NEW s \in Conns, NEW u \in Units, Written(s, u)
  PROVE  /\ wire' \in [Conns -> Seq(Units)]
         /\ \A x \in Conns \ {s} : wire'[x] = wire[x]
         /\ Len(wire'[s]) = Len(wire[s]) + 1 /\ Len(wire[s]) \in Nat
         /\ \A k \in 1..Len(wire[s]) : wire'[s][k] = wire[s][k]
         /\ wire'[s][Len(wire[s]) + 1] = u
<1>1. wire \in [Conns -> Seq(Units)]
  BY DEF StreamTypes, Units
<1>2. wire' = [wire EXCEPT ![s] = Append(wire[s], u)]
  BY DEF Written
<1>3. wire[s] \in Seq(Units)
  BY <1>1
<1> HIDE DEF Units
<1>4. /\ Append(wire[s], u) \in Seq(Units)
      /\ Len(Append(wire[s], u)) = Len(wire[s]) + 1
      /\ \A k \in 1..Len(wire[s]) : Append(wire[s], u)[k] = wire[s][k]
      /\ Append(wire[s], u)[Len(wire[s]) + 1] = u
  BY <1>3, AppendProperties
<1>5. Len(wire[s]) \in Nat
  BY <1>3, LenProperties
<1>6. wire'[s] = Append(wire[s], u) /\ \A x \in Conns \ {s} : wire'[x] = wire[x]
  BY <1>1, <1>2
<1> QED
  BY <1>1, <1>2, <1>4, <1>5, <1>6

(* A write keeps the types of the streams, and writes on none but its own. *)
LEMMA WriteKeepsTypes ==
  ASSUME StreamTypes, NEW s \in Conns, NEW u, u.kind \in Recorded => u \in Units,
         Write(s, u), streamLock' \in [Conns -> Conns \cup {Free}],
         blocking' \in [Conns -> BOOLEAN]
  PROVE  /\ StreamTypes'
         /\ \A x \in Conns \ {s} : wire'[x] = wire[x]
<1>1. CASE Written(s, u)
  BY <1>1, WriteIs, WrittenIs DEF StreamTypes, Written, Units
<1>2. CASE Unwritten(s)
  BY <1>2, WriteIs DEF StreamTypes, Unwritten
<1> QED
  BY <1>1, <1>2, WriteIs

----------------------------------------------------------------------------
(* The steps, one lemma for each.                                          *)

LEMMA SessHas ==
  ASSUME SessInv
  PROVE  MapTypes /\ ThreadTypes /\ StreamTypes /\ ClientTypes /\ TurnInv /\ LockInv /\ MapInv
BY TypesByOwner DEF SessInv

LEMMA SessFrom ==
  ASSUME MapTypes', ThreadTypes', StreamTypes', ClientTypes', TurnInv', LockInv', MapInv'
  PROVE  SessInv'
BY DEF SessInv, TypeOK, MapTypes, ThreadTypes, StreamTypes, ClientTypes

(* A thread that goes on, within its turn or to its end.                   *)
LEMMA PlaceMoves ==
  ASSUME SessInv, NEW c \in Conns, NEW l \in PCs, pc' = [pc EXCEPT ![c] = l],
         UNCHANGED <<str, todo, idOf, clientsLock, streamLock>>,
         pc[c] \notin {"none", "refused"}, l \notin {"none", "refused"},
         l \in Serving => pc[c] \in Serving,
         pc[c] # "sending", l # "sending",
         pc[c] \in Transfer <=> l \in Transfer,
         \A x \in Conns : idOf[x] = Absent => wire'[x] = <<>>
  PROVE  TurnInv' /\ LockInv'
<1>1. ThreadTypes /\ TurnInv /\ LockInv
  BY SessHas
<1>2. pc'[c] = l /\ \A d \in Conns \ {c} : pc'[d] = pc[d]
  BY <1>1 DEF ThreadTypes
<1>3. TurnInv'
  <2> SUFFICES ASSUME NEW d \in Conns
               PROVE  /\ pc'[d] \in {"none", "refused"} <=> idOf[d] = Absent
                      /\ idOf[d] = Absent => wire'[d] = <<>>
                      /\ pc'[d] \in Serving => str[d] \in Conns /\ idOf[str[d]] = idOf[d]
                      /\ pc'[d] # "sending" => todo[d] = {}
    BY DEF TurnInv
  <2>1. /\ pc[d] \in {"none", "refused"} <=> idOf[d] = Absent
        /\ pc[d] \in Serving => str[d] \in Conns /\ idOf[str[d]] = idOf[d]
        /\ pc[d] # "sending" => todo[d] = {}
    BY <1>1 DEF TurnInv
  <2>2. CASE d = c
    BY <1>2, <2>1, <2>2
  <2>3. CASE d # c
    BY <1>2, <2>1, <2>3
  <2> QED
    BY <2>2, <2>3
<1>4. LockInv'
  <2>1. \A d \in Conns : /\ pc'[d] = "sending" <=> pc[d] = "sending"
                         /\ pc'[d] \in Transfer <=> pc[d] \in Transfer
    BY <1>2
  <2> QED
    BY <1>1, <2>1 DEF LockInv
<1> QED
  BY <1>3, <1>4

(* Nobody is in the map when it is not locked.                             *)
LEMMA NobodyInside ==
  ASSUME SessInv, ClientsFree
  PROVE  \A c \in Conns : pc[c] # "sending" /\ todo[c] = {}
BY SessHas, SessionsAssumption, ZenonT(60) DEF LockInv, TurnInv, ClientsFree, SessionsAssumption

LEMMA ClientKeeps ==
  ASSUME SessInv, NEW c \in Conns, Client(c)
  PROVE  SessInv'
<1>1. UNCHANGED <<threadVars, mapVars, streamLock, wire, torn, blocking>>
  BY DEF Client, ClientSend, ClientRead, ClientClose, streamVars
<1>2. /\ MapTypes /\ ThreadTypes /\ StreamTypes /\ ClientTypes
      /\ TurnInv /\ LockInv /\ MapInv
  BY SessHas
<1>3. MapTypes' /\ ThreadTypes'
  BY <1>1, <1>2, SamePlaces, SameThreads DEF mapVars
<1>4. TurnInv' /\ LockInv' /\ MapInv'
  BY <1>1, <1>2 DEF TurnInv, LockInv, MapInv, threadVars, mapVars
<1>5. CASE ClientSend(c)
  <2>1. PICK kind \in Requests :
          inbox' = [inbox EXCEPT ![c] = Append(@, [kind |-> kind, n |-> sent + 1])]
    BY <1>5 DEF ClientSend
  <2>2. sent < MaxMsgs /\ sent' = sent + 1 /\ UNCHANGED <<streamVars, open>>
    BY <1>5 DEF ClientSend
  <2>3. MaxMsgs \in Nat /\ sent \in 0..MaxMsgs
    BY <1>2, SessionsAssumption DEF ClientTypes, SessionsAssumption
  <2>4. [kind |-> kind, n |-> sent + 1] \in Message
    BY <2>2, <2>3 DEF Message
  <2>5. inbox \in [Conns -> Seq(Message)]
    BY <1>2 DEF ClientTypes
  <2> HIDE DEF Message
  <2>6. Append(inbox[c], [kind |-> kind, n |-> sent + 1]) \in Seq(Message)
    BY <2>4, <2>5, AppendProperties
  <2>7. ClientTypes'
    BY <1>2, <2>1, <2>2, <2>3, <2>5, <2>6 DEF ClientTypes
  <2>8. StreamTypes'
    BY <1>2, <2>2, SameStreams
  <2> QED
    BY <1>3, <1>4, <2>7, <2>8, SessFrom
<1>6. CASE ClientRead(c)
  <2>1. /\ unread[c] > 0 /\ unread' = [unread EXCEPT ![c] = @ - 1]
        /\ UNCHANGED clientVars
    BY <1>6 DEF ClientRead
  <2>2. unread' \in [Conns -> 0..Room]
    BY <1>2, <2>1, SessionsAssumption DEF StreamTypes, SessionsAssumption
  <2>3. StreamTypes'
    BY <1>1, <1>2, <2>2 DEF StreamTypes
  <2> QED
    BY <1>2, <1>3, <1>4, <2>1, <2>3, SameClients, SessFrom
<1>7. CASE ClientClose(c)
  <2>1. open' = [open EXCEPT ![c] = FALSE] /\ UNCHANGED <<streamVars, inbox, sent>>
    BY <1>7 DEF ClientClose
  <2>2. ClientTypes'
    BY <1>2, <2>1 DEF ClientTypes
  <2> QED
    BY <1>2, <1>3, <1>4, <2>1, <2>2, SameStreams, SessFrom
<1> QED
  BY <1>5, <1>6, <1>7 DEF Client

LEMMA AcceptKeeps ==
  ASSUME SessInv, NEW c \in Conns, NEW i \in Ids, Accept(c, i)
  PROVE  SessInv'
<1>1. /\ pc[c] = "none" /\ ClientsFree
      /\ idOf' = [idOf EXCEPT ![c] = i]
      /\ clients' = [clients EXCEPT ![i] = [conn |-> c, ready |-> FALSE]]
      /\ pc' = [pc EXCEPT ![c] = "lookup"]
      /\ doubled' = IF \E d \in Conns : idOf[d] = i /\ Running(d)
                      THEN doubled \cup {i} ELSE doubled
      /\ UNCHANGED <<clientsLock, str, msg, todo, leaving, updated, early,
                     streamVars, clientVars>>
  BY DEF Accept
<1>2. /\ MapTypes /\ ThreadTypes /\ StreamTypes /\ ClientTypes
      /\ TurnInv /\ LockInv /\ MapInv
  BY SessHas
<1>3. StreamTypes' /\ ClientTypes' /\ UNCHANGED <<streamLock, wire>>
  BY <1>1, <1>2, SameStreams, SameClients DEF streamVars
<1>4. /\ idOf[c] = Absent /\ i # Absent /\ idOf'[c] = i /\ pc'[c] = "lookup"
      /\ \A d \in Conns \ {c} : idOf'[d] = idOf[d] /\ pc'[d] = pc[d]
  BY <1>1, <1>2, SessionsAssumption
     DEF TurnInv, MapTypes, ThreadTypes, SessionsAssumption
<1>5. /\ clients'[i] = [conn |-> c, ready |-> FALSE]
      /\ \A j \in Ids \ {i} : clients'[j] = clients[j]
  BY <1>1, <1>2 DEF MapTypes
<1>6. MapTypes'
  <2>1. [conn |-> c, ready |-> FALSE] \in [conn : Conns, ready : BOOLEAN]
    OBVIOUS
  <2>2. clients' \in [Ids -> [conn : Conns, ready : BOOLEAN] \cup {Absent}]
    BY <1>1, <1>2, <2>1 DEF MapTypes
  <2> QED
    BY <1>1, <1>2, <2>2 DEF MapTypes
<1>7. ThreadTypes'
  <2>1. "lookup" \in PCs
    BY DEF PCs
  <2> QED
    BY <1>1, <1>2, <2>1 DEF ThreadTypes
<1>8. TurnInv'
  <2> SUFFICES ASSUME NEW d \in Conns
               PROVE  /\ pc'[d] \in {"none", "refused"} <=> idOf'[d] = Absent
                      /\ idOf'[d] = Absent => wire'[d] = <<>>
                      /\ pc'[d] \in Serving => str'[d] \in Conns /\ idOf'[str'[d]] = idOf'[d]
                      /\ pc'[d] # "sending" => todo'[d] = {}
    BY DEF TurnInv
  <2>1. CASE d = c
    BY <1>1, <1>4, <2>1, NobodyInside DEF Serving
  <2>2. CASE d # c
    <3>1. /\ pc[d] \in {"none", "refused"} <=> idOf[d] = Absent
          /\ idOf[d] = Absent => wire[d] = <<>>
          /\ pc[d] \in Serving => str[d] \in Conns /\ idOf[str[d]] = idOf[d]
          /\ todo[d] = {}
      BY <1>1, <1>2, NobodyInside DEF TurnInv
    <3>2. pc[d] \in Serving => str[d] # c
      BY <1>4, <3>1 DEF Serving
    <3> QED
      BY <1>1, <1>3, <1>4, <2>2, <3>1, <3>2
  <2> QED
    BY <2>1, <2>2
<1>9. LockInv'
  <2>1. \A d \in Conns : /\ pc'[d] = "sending" <=> pc[d] = "sending"
                         /\ pc'[d] \in Transfer <=> pc[d] \in Transfer
    BY <1>1, <1>4 DEF Transfer
  <2> QED
    BY <1>1, <1>2, <1>3, <2>1 DEF LockInv
<1>10. MapInv'
  <2>1. ASSUME NEW j \in Ids, clients'[j] # Absent
        PROVE  idOf'[clients'[j].conn] = j
    <3>1. CASE j = i
      BY <1>4, <1>5, <3>1
    <3>2. CASE j # i
      <4>1. clients[j] # Absent /\ idOf[clients[j].conn] = j /\ clients'[j] = clients[j]
        BY <1>2, <1>5, <2>1, <3>2 DEF MapInv
      <4>2. clients[j].conn \in Conns
        BY <1>2, <4>1 DEF MapTypes
      <4>3. clients[j].conn # c
        BY <1>4, <4>1, SessionsAssumption DEF SessionsAssumption
      <4> QED
        BY <1>4, <4>1, <4>2, <4>3
    <3> QED
      BY <3>1, <3>2
  <2>2. \A d \in Conns : todo'[d] = {}
    BY <1>1, NobodyInside
  <2> QED
    BY <2>1, <2>2 DEF MapInv
<1> QED
  BY <1>3, <1>6, <1>7, <1>8, <1>9, <1>10, SessFrom

LEMMA RefuseKeeps ==
  ASSUME SessInv, NEW c \in Conns, Refuse(c)
  PROVE  SessInv'
<1>1. /\ pc[c] = "none" /\ pc' = [pc EXCEPT ![c] = "refused"]
      /\ UNCHANGED <<str, msg, todo, leaving, mapVars, streamVars, clientVars>>
  BY DEF Refuse
<1>2. /\ MapTypes /\ ThreadTypes /\ StreamTypes /\ ClientTypes
      /\ TurnInv /\ LockInv /\ MapInv
  BY SessHas
<1>3. /\ StreamTypes' /\ ClientTypes' /\ MapTypes'
      /\ UNCHANGED <<clients, clientsLock, idOf, historyVars, streamLock, wire>>
  BY <1>1, <1>2, SameStreams, SameClients, SamePlaces DEF streamVars, mapVars
<1>4. "refused" \in PCs
  BY DEF PCs
<1>5. ThreadTypes'
  BY <1>1, <1>2, <1>4 DEF ThreadTypes
<1>6. pc'[c] = "refused" /\ \A d \in Conns \ {c} : pc'[d] = pc[d]
  BY <1>1, <1>2 DEF ThreadTypes
<1>7. \A d \in Conns : /\ pc'[d] = "sending" <=> pc[d] = "sending"
                       /\ pc'[d] \in Transfer <=> pc[d] \in Transfer
                       /\ pc'[d] \in Serving <=> pc[d] \in Serving
                       /\ pc'[d] \in {"none", "refused"} <=> pc[d] \in {"none", "refused"}
  BY <1>1, <1>6 DEF Transfer, Serving
<1>8. TurnInv'
  BY <1>1, <1>2, <1>3, <1>7 DEF TurnInv
<1>9. LockInv'
  BY <1>1, <1>2, <1>3, <1>7 DEF LockInv
<1>10. MapInv'
  BY <1>1, <1>2, <1>3 DEF MapInv
<1> QED
  BY <1>3, <1>5, <1>8, <1>9, <1>10, SessFrom

LEMMA LookupKeeps ==
  ASSUME SessInv, NEW c \in Conns, Lookup(c)
  PROVE  SessInv'
<1> DEFINE found == clients[idOf[c]].conn
<1>1. /\ pc[c] = "lookup" /\ clients[idOf[c]] # Absent
      /\ str' = [str EXCEPT ![c] = found] /\ pc' = [pc EXCEPT ![c] = "read"]
      /\ UNCHANGED <<msg, todo, leaving, mapVars, streamVars, clientVars>>
  BY DEF Lookup, Goto
<1>2. /\ MapTypes /\ ThreadTypes /\ StreamTypes /\ ClientTypes
      /\ TurnInv /\ LockInv /\ MapInv
  BY SessHas
<1>3. /\ StreamTypes' /\ ClientTypes' /\ MapTypes'
      /\ UNCHANGED <<clients, clientsLock, idOf, historyVars, streamLock, wire>>
  BY <1>1, <1>2, SameStreams, SameClients, SamePlaces DEF streamVars, mapVars
<1>4. idOf[c] \in Ids /\ found \in Conns /\ idOf[found] = idOf[c]
  <2>1. idOf[c] \in Ids
    BY <1>1, <1>2 DEF TurnInv, MapTypes
  <2>2. found \in Conns
    BY <1>1, <1>2, <2>1 DEF MapTypes
  <2> QED
    BY <1>1, <1>2, <2>1, <2>2 DEF MapInv
<1> HIDE DEF found
<1>5. /\ pc'[c] = "read" /\ str'[c] = found
      /\ \A d \in Conns \ {c} : pc'[d] = pc[d] /\ str'[d] = str[d]
  BY <1>1, <1>2 DEF ThreadTypes
<1>6. ThreadTypes'
  <2>1. "read" \in PCs
    BY DEF PCs
  <2> QED
    BY <1>1, <1>2, <1>4, <2>1 DEF ThreadTypes
<1>7. TurnInv'
  BY <1>1, <1>2, <1>3, <1>4, <1>5 DEF TurnInv, Serving
<1>8. LockInv'
  <2>1. /\ pc'[c] # "sending" /\ pc'[c] \notin Transfer
        /\ pc[c] # "sending" /\ pc[c] \notin Transfer
    BY <1>1, <1>5 DEF Transfer
  <2> QED
    BY <1>2, <1>3, <1>5, <2>1 DEF LockInv
<1>9. MapInv'
  <2>1. todo[c] = {}
    BY <1>1, <1>2 DEF TurnInv
  <2> QED
    BY <1>1, <1>2, <1>3, <1>5, <2>1 DEF MapInv
<1> QED
  BY <1>3, <1>6, <1>7, <1>8, <1>9, SessFrom

LEMMA ReadKeeps ==
  ASSUME SessInv, NEW c \in Conns, Read(c)
  PROVE  SessInv'
<1>1. /\ pc[c] = "read" /\ UNCHANGED <<str, todo, mapVars, streamVars, open, sent>>
  BY DEF Read
<1>2. /\ MapTypes /\ ThreadTypes /\ StreamTypes /\ ClientTypes
      /\ TurnInv /\ LockInv /\ MapInv
  BY SessHas
<1>3. /\ StreamTypes' /\ MapTypes'
      /\ UNCHANGED <<clients, clientsLock, idOf, historyVars, streamLock, wire>>
  BY <1>1, <1>2, SameStreams, SamePlaces DEF streamVars, mapVars
<1>4. str[c] \in Conns
  BY <1>1, <1>2 DEF TurnInv, Serving
<1>5. inbox[str[c]] \in Seq(Message) /\ inbox \in [Conns -> Seq(Message)]
  BY <1>2, <1>4 DEF ClientTypes
<1>6. PICK l : /\ pc' = [pc EXCEPT ![c] = l]
               /\ l \in {"send", "PlayerUpdate", "RequestUdm", "ReqChestReg", "RequestSeed"}
               /\ l \in PCs
               /\ msg' \in [Conns -> Message \cup {None}]
               /\ leaving' \in [Conns -> BOOLEAN] /\ inbox' \in [Conns -> Seq(Message)]
  <2>1. CASE inbox[str[c]] # <<>>
    <3>1. /\ msg' = [msg EXCEPT ![c] = Head(inbox[str[c]])]
          /\ inbox' = [inbox EXCEPT ![str[c]] = Tail(@)]
          /\ leaving' = [leaving EXCEPT ![c] = (msg'[c].kind = "Disconnect")]
          /\ pc' = [pc EXCEPT ![c] = IF msg'[c].kind \in {"Edit", "Disconnect"}
                                       THEN "send" ELSE msg'[c].kind]
      BY <2>1 DEF Read, Goto
    <3>2. Head(inbox[str[c]]) \in Message /\ Tail(inbox[str[c]]) \in Seq(Message)
      BY <1>5, <2>1, HeadTailProperties
    <3>3. msg' \in [Conns -> Message \cup {None}] /\ msg'[c] \in Message
      BY <1>2, <3>1, <3>2 DEF ThreadTypes
    <3>4. leaving' \in [Conns -> BOOLEAN]
      BY <1>2, <3>1 DEF ThreadTypes
    <3>5. inbox' \in [Conns -> Seq(Message)]
      BY <1>5, <3>1, <3>2
    <3>6. msg'[c].kind \in Requests
      BY <3>3 DEF Message
    <3> DEFINE l == IF msg'[c].kind \in {"Edit", "Disconnect"} THEN "send" ELSE msg'[c].kind
    <3>7. /\ l \in {"send", "PlayerUpdate", "RequestUdm", "ReqChestReg", "RequestSeed"}
          /\ l \in PCs
      BY <3>6, SessionsAssumption DEF SessionsAssumption, PCs
    <3>8. pc' = [pc EXCEPT ![c] = l]
      BY <3>1
    <3> HIDE DEF l
    <3> QED
      BY <3>3, <3>4, <3>5, <3>7, <3>8
  <2>2. CASE inbox[str[c]] = <<>>
    <3>1. /\ msg' = [msg EXCEPT ![c] = None] /\ UNCHANGED inbox
          /\ leaving' = [leaving EXCEPT ![c] = EndOfFile(str[c])]
          /\ pc' = [pc EXCEPT ![c] = "send"]
      BY <2>2 DEF Read, Goto
    <3>2. msg' \in [Conns -> Message \cup {None}]
      BY <1>2, <3>1 DEF ThreadTypes
    <3>3. leaving' \in [Conns -> BOOLEAN]
      <4>1. EndOfFile(str[c]) \in BOOLEAN
        BY DEF EndOfFile
      <4> QED
        BY <1>2, <3>1, <4>1 DEF ThreadTypes
    <3>4. "send" \in PCs
      BY DEF PCs
    <3> QED
      BY <1>5, <3>1, <3>2, <3>3, <3>4
  <2> QED
    BY <2>1, <2>2
<1>7. ThreadTypes'
  BY <1>1, <1>2, <1>6 DEF ThreadTypes
<1>8. ClientTypes'
  BY <1>1, <1>2, <1>6 DEF ClientTypes
<1>9. TurnInv' /\ LockInv'
  <2>1. /\ pc[c] \notin {"none", "refused"} /\ l \notin {"none", "refused"}
        /\ pc[c] \in Serving /\ pc[c] # "sending" /\ l # "sending"
        /\ pc[c] \notin Transfer /\ l \notin Transfer
    BY <1>1, <1>6 DEF Serving, Transfer
  <2>2. \A x \in Conns : idOf[x] = Absent => wire'[x] = <<>>
    BY <1>2, <1>3 DEF TurnInv
  <2> QED
    BY <1>1, <1>3, <1>6, <2>1, <2>2, PlaceMoves
<1>10. MapInv'
  BY <1>1, <1>2, <1>3 DEF MapInv
<1> QED
  BY <1>3, <1>7, <1>8, <1>9, <1>10, SessFrom

LEMMA PlayerUpdateKeeps ==
  ASSUME SessInv, NEW c \in Conns, PlayerUpdate(c)
  PROVE  SessInv'
<1> DEFINE i == idOf[c]
<1>1. /\ pc[c] = "PlayerUpdate" /\ ClientsFree
      /\ UNCHANGED <<str, msg, todo, leaving, clientsLock, idOf, doubled,
                     streamVars, clientVars>>
      /\ \/ /\ pc' = [pc EXCEPT ![c] = "dead"]
            /\ UNCHANGED <<clients, updated, early>>
         \/ /\ clients[i] # Absent /\ clients' = [clients EXCEPT ![i].ready = TRUE]
            /\ pc' = [pc EXCEPT ![c] = "answer"]
            /\ updated' = updated \cup {str[c]}
            /\ early' = early \cup ({clients[i].conn} \ updated')
  BY DEF PlayerUpdate, Goto
<1>2. /\ MapTypes /\ ThreadTypes /\ StreamTypes /\ ClientTypes
      /\ TurnInv /\ LockInv /\ MapInv
  BY SessHas
<1>3. StreamTypes' /\ ClientTypes' /\ UNCHANGED <<streamLock, wire>>
  BY <1>1, <1>2, SameStreams, SameClients DEF streamVars
<1>4. i \in Ids
  BY <1>1, <1>2 DEF TurnInv, MapTypes
<1>5. /\ clients' \in [Ids -> [conn : Conns, ready : BOOLEAN] \cup {Absent}]
      /\ \A j \in Ids : clients'[j] # Absent =>
           clients[j] # Absent /\ clients'[j].conn = clients[j].conn
  <2>1. CASE UNCHANGED clients
    BY <1>2, <2>1 DEF MapTypes
  <2>2. CASE clients[i] # Absent /\ clients' = [clients EXCEPT ![i].ready = TRUE]
    <3>1. clients[i] \in [conn : Conns, ready : BOOLEAN]
      BY <1>2, <1>4, <2>2 DEF MapTypes
    <3>2. /\ [clients[i] EXCEPT !.ready = TRUE] \in [conn : Conns, ready : BOOLEAN]
          /\ [clients[i] EXCEPT !.ready = TRUE].conn = clients[i].conn
      BY <3>1
    <3>3. clients' = [clients EXCEPT ![i] = [clients[i] EXCEPT !.ready = TRUE]]
      BY <1>2, <1>4, <2>2 DEF MapTypes
    <3> HIDE DEF i
    <3> QED
      BY <1>2, <1>4, <2>2, <3>2, <3>3 DEF MapTypes
  <2> QED
    BY <1>1, <2>1, <2>2
<1>6. MapTypes'
  <2>1. str[c] \in Conns
    BY <1>1, <1>2 DEF TurnInv, Serving
  <2>2. clients[i] # Absent => clients[i].conn \in Conns
    BY <1>2, <1>4 DEF MapTypes
  <2>3. updated' \in SUBSET Conns /\ early' \in SUBSET Conns
    BY <1>1, <1>2, <2>1, <2>2 DEF MapTypes
  <2> QED
    BY <1>1, <1>2, <1>5, <2>3 DEF MapTypes
<1>7. PICK l \in PCs : pc' = [pc EXCEPT ![c] = l] /\ l \in {"dead", "answer"}
  <2>1. {"dead", "answer"} \subseteq PCs
    BY DEF PCs
  <2> QED
    BY <1>1, <2>1
<1>8. ThreadTypes'
  BY <1>1, <1>2, <1>7 DEF ThreadTypes
<1>9. TurnInv' /\ LockInv'
  <2>1. /\ pc[c] \notin {"none", "refused"} /\ l \notin {"none", "refused"}
        /\ pc[c] \in Serving /\ pc[c] # "sending" /\ l # "sending"
        /\ pc[c] \notin Transfer /\ l \notin Transfer
    BY <1>1, <1>7 DEF Serving, Transfer
  <2>2. \A x \in Conns : idOf[x] = Absent => wire'[x] = <<>>
    BY <1>2, <1>3 DEF TurnInv
  <2> QED
    BY <1>1, <1>3, <1>7, <2>1, <2>2, PlaceMoves
<1>10. MapInv'
  <2>1. \A d \in Conns : todo'[d] = {}
    BY <1>1, NobodyInside
  <2> QED
    BY <1>1, <1>2, <1>5, <2>1 DEF MapInv
<1> QED
  BY <1>3, <1>6, <1>8, <1>9, <1>10, SessFrom

(* The answers to a single client, outside of a transfer.                  *)
Answers1 == {"ChestReg", "ChestFile", "Seed", "TimeUpdate"}
Answering == {"answer", "ReqChestReg", "chestfile", "RequestSeed"}
AnswerStep(c) == SendTime(c) \/ SendChestHeader(c) \/ SendChestFile(c) \/ SendSeed(c)

LEMMA AnswerIs ==
  ASSUME NEW c \in Conns, AnswerStep(c)
  PROVE  \E kind \in Answers1, l \in PCs :
           /\ pc[c] \in Answering /\ StreamFree(str[c]) /\ Write(str[c], Unit(kind))
           /\ l \in {"send", "chestfile", "dead"} /\ pc' = [pc EXCEPT ![c] = l]
           /\ UNCHANGED <<str, msg, todo, leaving, mapVars, streamLock, blocking,
                          clientVars>>
<1>1. {"send", "chestfile", "dead"} \subseteq PCs
  BY DEF PCs
<1>2. CASE SendTime(c)
  BY <1>1, <1>2 DEF SendTime, Answer, Goto, Answers1, Answering
<1>3. CASE SendChestHeader(c)
  BY <1>1, <1>3 DEF SendChestHeader, Answer, Goto, Answers1, Answering
<1>4. CASE SendChestFile(c)
  BY <1>1, <1>4 DEF SendChestFile, Answer, Goto, Answers1, Answering
<1>5. CASE SendSeed(c)
  <2> DEFINE l == IF Fits(str[c]) THEN "send" ELSE "dead"
  <2>1. l \in PCs /\ l \in {"send", "chestfile", "dead"}
    BY <1>1
  <2>2. /\ pc[c] \in Answering /\ StreamFree(str[c]) /\ Write(str[c], Unit("Seed"))
        /\ "Seed" \in Answers1 /\ pc' = [pc EXCEPT ![c] = l]
        /\ UNCHANGED <<str, msg, todo, leaving, mapVars, streamLock, blocking,
                       clientVars>>
    BY <1>5 DEF SendSeed, Goto, Answers1, Answering
  <2> HIDE DEF l
  <2> QED
    BY <2>1, <2>2
<1> QED
  BY <1>2, <1>3, <1>4, <1>5 DEF AnswerStep

LEMMA AnswerKeeps ==
  ASSUME SessInv, NEW c \in Conns, AnswerStep(c)
  PROVE  SessInv'
<1>1. PICK kind \in Answers1, l \in PCs :
        /\ pc[c] \in Answering /\ StreamFree(str[c]) /\ Write(str[c], Unit(kind))
        /\ l \in {"send", "chestfile", "dead"} /\ pc' = [pc EXCEPT ![c] = l]
        /\ UNCHANGED <<str, msg, todo, leaving, mapVars, streamLock, blocking,
                       clientVars>>
  BY AnswerIs
<1>2. /\ MapTypes /\ ThreadTypes /\ StreamTypes /\ ClientTypes
      /\ TurnInv /\ LockInv /\ MapInv
  BY SessHas
<1>3. /\ ClientTypes' /\ MapTypes'
      /\ UNCHANGED <<clients, clientsLock, idOf, historyVars>>
  BY <1>1, <1>2, SameClients, SamePlaces DEF mapVars
<1>4. str[c] \in Conns /\ idOf[str[c]] = idOf[c] /\ idOf[c] # Absent
  BY <1>1, <1>2 DEF TurnInv, Serving, Answering
<1>5. Unit(kind) \in Units
  BY DEF Units, Answers1, Answers
<1>6. StreamTypes' /\ \A x \in Conns \ {str[c]} : wire'[x] = wire[x]
  BY <1>1, <1>2, <1>4, <1>5, WriteKeepsTypes DEF StreamTypes
<1>7. ThreadTypes'
  BY <1>1, <1>2 DEF ThreadTypes
<1>8. TurnInv' /\ LockInv'
  <2>1. /\ pc[c] \notin {"none", "refused"} /\ l \notin {"none", "refused"}
        /\ pc[c] \in Serving /\ pc[c] # "sending" /\ l # "sending"
        /\ pc[c] \notin Transfer /\ l \notin Transfer
    BY <1>1 DEF Serving, Transfer, Answering
  <2>2. \A x \in Conns : idOf[x] = Absent => wire'[x] = <<>>
    BY <1>2, <1>4, <1>6 DEF TurnInv
  <2> QED
    BY <1>1, <1>3, <2>1, <2>2, PlaceMoves
<1>9. MapInv'
  BY <1>1, <1>2, <1>3 DEF MapInv
<1> QED
  BY <1>3, <1>6, <1>7, <1>8, <1>9, SessFrom

LEMMA BeginUdmKeeps ==
  ASSUME SessInv, NEW c \in Conns, BeginUdm(c)
  PROVE  SessInv'
<1> DEFINE s == str[c]
<1>1. /\ pc[c] = "RequestUdm" /\ StreamFree(s)
      /\ streamLock' = [streamLock EXCEPT ![s] = c]
      /\ blocking' = [blocking EXCEPT ![s] = TRUE]
      /\ pc' = [pc EXCEPT ![c] = "udmheader"]
      /\ UNCHANGED <<str, msg, todo, leaving, mapVars, wire, unread, torn, clientVars>>
  BY DEF BeginUdm, Goto
<1>2. /\ MapTypes /\ ThreadTypes /\ StreamTypes /\ ClientTypes
      /\ TurnInv /\ LockInv /\ MapInv
  BY SessHas
<1>3. /\ ClientTypes' /\ MapTypes'
      /\ UNCHANGED <<clients, clientsLock, idOf, historyVars>>
  BY <1>1, <1>2, SameClients, SamePlaces DEF mapVars
<1>4. s \in Conns
  BY <1>1, <1>2 DEF TurnInv, Serving
<1>5. StreamTypes'
  BY <1>1, <1>2, <1>4 DEF StreamTypes
<1>6. ThreadTypes'
  <2>1. "udmheader" \in PCs
    BY DEF PCs
  <2> QED
    BY <1>1, <1>2, <2>1 DEF ThreadTypes
<1>7. /\ pc'[c] = "udmheader" /\ streamLock'[s] = c /\ streamLock[s] = Free
      /\ \A d \in Conns \ {c} : pc'[d] = pc[d]
      /\ \A x \in Conns \ {s} : streamLock'[x] = streamLock[x]
  BY <1>1, <1>2, <1>4 DEF ThreadTypes, StreamTypes, StreamFree
<1>8. TurnInv'
  BY <1>1, <1>2, <1>3, <1>7 DEF TurnInv, Serving
<1>9. LockInv'
  <2>1. \A d \in Conns : pc'[d] = "sending" <=> pc[d] = "sending"
    BY <1>1, <1>7
  <2>2. ASSUME NEW x \in Conns, NEW d \in Conns
        PROVE  streamLock'[x] = d <=> pc'[d] \in Transfer /\ str[d] = x
    <3>1. streamLock[x] = d <=> pc[d] \in Transfer /\ str[d] = x
      BY <1>2 DEF LockInv
    <3>2. Free # d /\ pc[c] \notin Transfer /\ "udmheader" \in Transfer
      BY <1>1, SessionsAssumption DEF SessionsAssumption, Transfer
    <3>3. CASE x = s
      BY <1>7, <3>1, <3>2, <3>3
    <3>4. CASE x # s
      BY <1>7, <3>1, <3>2, <3>4
    <3> QED
      BY <3>3, <3>4
  <2> QED
    BY <1>1, <1>2, <1>3, <2>1, <2>2 DEF LockInv
<1>10. MapInv'
  BY <1>1, <1>2, <1>3 DEF MapInv
<1> QED
  BY <1>3, <1>5, <1>6, <1>8, <1>9, <1>10, SessFrom

LEMMA UdmHeaderKeeps ==
  ASSUME SessInv, NEW c \in Conns, SendUdmHeader(c)
  PROVE  SessInv'
<1>1. /\ pc[c] = "udmheader" /\ Write(str[c], Unit("Udm"))
      /\ pc' = [pc EXCEPT ![c] = "udmfile"]
      /\ UNCHANGED <<str, msg, todo, leaving, mapVars, streamLock, blocking, clientVars>>
  BY DEF SendUdmHeader, Goto
<1>2. /\ MapTypes /\ ThreadTypes /\ StreamTypes /\ ClientTypes
      /\ TurnInv /\ LockInv /\ MapInv
  BY SessHas
<1>3. /\ ClientTypes' /\ MapTypes'
      /\ UNCHANGED <<clients, clientsLock, idOf, historyVars>>
  BY <1>1, <1>2, SameClients, SamePlaces DEF mapVars
<1>4. str[c] \in Conns /\ idOf[str[c]] = idOf[c] /\ idOf[c] # Absent
  BY <1>1, <1>2 DEF TurnInv, Serving
<1>5. Unit("Udm") \in Units
  BY DEF Units, Answers
<1>6. StreamTypes' /\ \A x \in Conns \ {str[c]} : wire'[x] = wire[x]
  BY <1>1, <1>2, <1>4, <1>5, WriteKeepsTypes DEF StreamTypes
<1>7. "udmfile" \in PCs
  BY DEF PCs
<1>8. ThreadTypes'
  BY <1>1, <1>2, <1>7 DEF ThreadTypes
<1>9. TurnInv' /\ LockInv'
  <2>1. \A x \in Conns : idOf[x] = Absent => wire'[x] = <<>>
    BY <1>2, <1>4, <1>6 DEF TurnInv
  <2>2. pc[c] \in Serving /\ (pc[c] \in Transfer <=> "udmfile" \in Transfer)
    BY <1>1 DEF Serving, Transfer
  <2> QED
    BY <1>1, <1>3, <1>7, <2>1, <2>2, PlaceMoves
<1>10. MapInv'
  BY <1>1, <1>2, <1>3 DEF MapInv
<1> QED
  BY <1>3, <1>6, <1>8, <1>9, <1>10, SessFrom

(* The end of a transfer, with the file written or without it.             *)
LEMMA TransferEnds ==
  ASSUME SessInv, NEW c \in Conns, NEW l \in {"send", "dead"}, pc[c] \in Transfer,
         pc' = [pc EXCEPT ![c] = l],
         streamLock' = [streamLock EXCEPT ![str[c]] = Free],
         blocking' \in [Conns -> BOOLEAN],
         UNCHANGED <<str, msg, todo, leaving, mapVars, clientVars>>,
         Write(str[c], Unit("UdmFile")) \/ UNCHANGED <<wire, unread, torn>>
  PROVE  SessInv'
<1> DEFINE s == str[c]
<1>2. /\ MapTypes /\ ThreadTypes /\ StreamTypes /\ ClientTypes
      /\ TurnInv /\ LockInv /\ MapInv
  BY SessHas
<1>3. /\ ClientTypes' /\ MapTypes'
      /\ UNCHANGED <<clients, clientsLock, idOf, historyVars>>
  BY <1>2, SameClients, SamePlaces DEF mapVars
<1>4. s \in Conns /\ idOf[s] = idOf[c] /\ idOf[c] # Absent
  BY <1>2 DEF TurnInv, Serving, Transfer
<1>5. StreamTypes' /\ \A x \in Conns \ {s} : wire'[x] = wire[x]
  <2>1. streamLock' \in [Conns -> Conns \cup {Free}]
    BY <1>2, <1>4 DEF StreamTypes
  <2>2. Unit("UdmFile") \in Units
    BY DEF Units, Answers
  <2>3. CASE Write(s, Unit("UdmFile"))
    BY <1>2, <1>4, <2>1, <2>2, <2>3, WriteKeepsTypes
  <2>4. CASE UNCHANGED <<wire, unread, torn>>
    BY <1>2, <2>1, <2>4 DEF StreamTypes
  <2> QED
    BY <2>3, <2>4
<1>6. ThreadTypes'
  <2>1. l \in PCs
    BY DEF PCs
  <2> QED
    BY <1>2, <2>1 DEF ThreadTypes
<1>7. /\ pc'[c] = l /\ streamLock'[s] = Free
      /\ \A d \in Conns \ {c} : pc'[d] = pc[d]
      /\ \A x \in Conns \ {s} : streamLock'[x] = streamLock[x]
  BY <1>2, <1>4 DEF ThreadTypes, StreamTypes
<1>8. TurnInv'
  <2> SUFFICES ASSUME NEW d \in Conns
               PROVE  /\ pc'[d] \in {"none", "refused"} <=> idOf[d] = Absent
                      /\ idOf[d] = Absent => wire'[d] = <<>>
                      /\ pc'[d] \in Serving => str[d] \in Conns /\ idOf[str[d]] = idOf[d]
                      /\ pc'[d] # "sending" => todo[d] = {}
    BY <1>3 DEF TurnInv
  <2>1. /\ pc[d] \in {"none", "refused"} <=> idOf[d] = Absent
        /\ idOf[d] = Absent => wire[d] = <<>>
        /\ pc[d] \in Serving => str[d] \in Conns /\ idOf[str[d]] = idOf[d]
        /\ pc[d] # "sending" => todo[d] = {}
    BY <1>2 DEF TurnInv
  <2>2. idOf[d] = Absent => wire'[d] = <<>>
    BY <1>4, <1>5, <2>1
  <2>3. CASE d = c
    BY <1>4, <1>7, <2>1, <2>2, <2>3 DEF Transfer, Serving
  <2>4. CASE d # c
    BY <1>7, <2>1, <2>2, <2>4
  <2> QED
    BY <2>3, <2>4
<1>9. LockInv'
  <2>1. \A d \in Conns : pc'[d] = "sending" <=> pc[d] = "sending"
    BY <1>7 DEF Transfer
  <2>2. ASSUME NEW x \in Conns, NEW d \in Conns
        PROVE  streamLock'[x] = d <=> pc'[d] \in Transfer /\ str[d] = x
    <3>1. /\ streamLock[x] = d <=> pc[d] \in Transfer /\ str[d] = x
          /\ streamLock[x] = c <=> str[c] = x
      BY <1>2 DEF LockInv
    <3>2. Free # d /\ l \notin Transfer
      BY SessionsAssumption DEF SessionsAssumption, Transfer
    <3>3. CASE x = s
      BY <1>7, <3>1, <3>2, <3>3
    <3>4. CASE x # s
      BY <1>7, <3>1, <3>2, <3>4
    <3> QED
      BY <3>3, <3>4
  <2> QED
    BY <1>2, <1>3, <2>1, <2>2 DEF LockInv
<1>10. MapInv'
  BY <1>2, <1>3 DEF MapInv
<1> QED
  BY <1>3, <1>5, <1>6, <1>8, <1>9, <1>10, SessFrom

LEMMA UdmEndsKeep ==
  ASSUME SessInv, NEW c \in Conns, SendUdmFile(c) \/ UdmFails(c)
  PROVE  SessInv'
<1>1. blocking \in [Conns -> BOOLEAN]
  BY SessHas DEF StreamTypes
<1>2. CASE SendUdmFile(c)
  <2>1. blocking' \in [Conns -> BOOLEAN]
    BY <1>1, <1>2 DEF SendUdmFile
  <2> QED
    BY <1>2, <2>1, TransferEnds DEF SendUdmFile, Goto, Transfer
<1>3. CASE UdmFails(c)
  BY <1>1, <1>3, TransferEnds DEF UdmFails, Goto, Transfer
<1> QED
  BY <1>2, <1>3

LEMMA RecipientsAre ==
  ASSUME SessInv, NEW c \in Conns, pc[c] \in Serving
  PROVE  /\ Recipients(c) \subseteq [id : Ids, conn : Conns]
         /\ \A to \in Recipients(c) :
              /\ clients[to.id] # Absent /\ clients[to.id].ready
              /\ to.conn = IF to.id = idOf[c] THEN str[c] ELSE clients[to.id].conn
<1>1. MapTypes /\ TurnInv
  BY SessHas
<1>2. str[c] \in Conns
  BY <1>1 DEF TurnInv
<1>3. SUFFICES ASSUME NEW i \in Ids, clients[i] # Absent, clients[i].ready
               PROVE  /\ Session(c, i) \in [id : Ids, conn : Conns]
                      /\ Session(c, i).id = i
                      /\ Session(c, i).conn =
                           IF i = idOf[c] THEN str[c] ELSE clients[i].conn
  BY DEF Recipients
<1>4. clients[i].conn \in Conns
  BY <1>1, <1>3 DEF MapTypes
<1> QED
  BY <1>2, <1>4 DEF Session

LEMMA BeginSendKeeps ==
  ASSUME SessInv, NEW c \in Conns, BeginSend(c)
  PROVE  SessInv'
<1>1. /\ pc[c] = "send" /\ ClientsFree /\ clientsLock' = c
      /\ todo' = [todo EXCEPT ![c] = Recipients(c)]
      /\ pc' = [pc EXCEPT ![c] = "sending"]
      /\ UNCHANGED <<str, msg, leaving, clients, idOf, historyVars, streamVars,
                     clientVars>>
  BY DEF BeginSend, Goto
<1>2. /\ MapTypes /\ ThreadTypes /\ StreamTypes /\ ClientTypes
      /\ TurnInv /\ LockInv /\ MapInv
  BY SessHas
<1>3. StreamTypes' /\ ClientTypes' /\ UNCHANGED <<streamLock, wire>>
  BY <1>1, <1>2, SameStreams, SameClients DEF streamVars
<1>4. MapTypes'
  BY <1>1, <1>2 DEF MapTypes, historyVars
<1>5. pc[c] \in Serving
  BY <1>1 DEF Serving
<1>6. ThreadTypes'
  <2>1. "sending" \in PCs
    BY DEF PCs
  <2>2. Recipients(c) \subseteq [id : Ids, conn : Conns]
    BY <1>5, RecipientsAre
  <2> QED
    BY <1>1, <1>2, <2>1, <2>2 DEF ThreadTypes
<1>7. /\ pc'[c] = "sending" /\ todo'[c] = Recipients(c)
      /\ \A d \in Conns \ {c} : pc'[d] = pc[d] /\ todo'[d] = todo[d]
      /\ \A d \in Conns : pc[d] # "sending" /\ todo[d] = {}
  BY <1>1, <1>2, NobodyInside DEF ThreadTypes
<1>8. TurnInv'
  BY <1>1, <1>2, <1>3, <1>5, <1>7 DEF TurnInv, Serving
<1>9. LockInv'
  <2>1. \A d \in Conns : /\ pc'[d] = "sending" <=> c = d
                         /\ pc'[d] \in Transfer <=> pc[d] \in Transfer
    BY <1>1, <1>7 DEF Transfer
  <2> QED
    BY <1>1, <1>2, <1>3, <2>1 DEF LockInv
<1>10. MapInv'
  <2>1. \A d \in Conns : \A to \in todo'[d] : d = c /\ to \in Recipients(c)
    BY <1>7
  <2> QED
    BY <1>1, <1>2, <1>5, <2>1, RecipientsAre DEF MapInv
<1> QED
  BY <1>3, <1>4, <1>6, <1>8, <1>9, <1>10, SessFrom

LEMMA SendToKeeps ==
  ASSUME SessInv, NEW c \in Conns, NEW to \in todo[c], SendTo(c, to)
  PROVE  SessInv'
<1>1. /\ pc[c] = "sending" /\ Deliver(c, to)
      /\ todo' = [todo EXCEPT ![c] = @ \ {to}]
      /\ UNCHANGED <<pc, str, msg, leaving, mapVars, streamLock, blocking, clientVars>>
  BY DEF SendTo
<1>2. /\ MapTypes /\ ThreadTypes /\ StreamTypes /\ ClientTypes
      /\ TurnInv /\ LockInv /\ MapInv
  BY SessHas
<1>3. /\ ClientTypes' /\ MapTypes'
      /\ UNCHANGED <<clients, clientsLock, idOf, historyVars>>
  BY <1>1, <1>2, SameClients, SamePlaces DEF mapVars
<1>4. to.conn \in Conns /\ to.id \in Ids
  BY <1>2 DEF ThreadTypes
<1>5. idOf[to.conn] # Absent
  <2>1. /\ clients[to.id] # Absent
        /\ to.conn = IF to.id = idOf[c] THEN str[c] ELSE clients[to.id].conn
    BY <1>2 DEF MapInv
  <2>2. idOf[str[c]] = idOf[c]
    BY <1>1, <1>2 DEF TurnInv, Serving
  <2>3. idOf[clients[to.id].conn] = to.id
    BY <1>2, <1>4, <2>1 DEF MapInv
  <2> QED
    BY <1>4, <2>1, <2>2, <2>3, SessionsAssumption DEF SessionsAssumption
<1>6. StreamTypes' /\ \A x \in Conns \ {to.conn} : wire'[x] = wire[x]
  <2>1. CASE Write(to.conn, msg[c])
    <3>1. msg[c].kind \in Recorded => msg[c] \in Units
      <4>1. msg[c] \in Message \/ msg[c] = None
        BY <1>2 DEF ThreadTypes
      <4>2. None.kind \notin Recorded
        BY SessionsAssumption DEF SessionsAssumption, None, Unit
      <4> QED
        BY <4>1, <4>2 DEF Units
    <3> QED
      BY <1>1, <1>2, <1>4, <2>1, <3>1, WriteKeepsTypes DEF StreamTypes
  <2>2. CASE UNCHANGED <<wire, unread, torn>>
    BY <1>1, <1>2, <2>2 DEF StreamTypes
  <2> QED
    BY <1>1, <2>1, <2>2 DEF Deliver
<1>7. ThreadTypes'
  BY <1>1, <1>2 DEF ThreadTypes
<1>8. todo'[c] \subseteq todo[c] /\ \A d \in Conns \ {c} : todo'[d] = todo[d]
  BY <1>1, <1>2 DEF ThreadTypes
<1>9. TurnInv'
  <2>1. \A x \in Conns : idOf[x] = Absent => wire'[x] = <<>>
    BY <1>2, <1>5, <1>6 DEF TurnInv
  <2> QED
    BY <1>1, <1>2, <1>3, <1>8, <2>1 DEF TurnInv
<1>10. LockInv'
  BY <1>1, <1>2, <1>3 DEF LockInv
<1>11. MapInv'
  <2>1. \A d \in Conns : todo'[d] \subseteq todo[d]
    BY <1>8
  <2> QED
    BY <1>1, <1>2, <1>3, <2>1 DEF MapInv
<1> QED
  BY <1>3, <1>6, <1>7, <1>9, <1>10, <1>11, SessFrom

LEMMA EndSendKeeps ==
  ASSUME SessInv, NEW c \in Conns, EndSend(c)
  PROVE  SessInv'
<1>1. /\ pc[c] = "sending" /\ todo[c] = {} /\ clientsLock' = Free
      /\ msg' = [msg EXCEPT ![c] = None] /\ str' = [str EXCEPT ![c] = Absent]
      /\ pc' = [pc EXCEPT ![c] = IF leaving[c] THEN "remove" ELSE "lookup"]
      /\ UNCHANGED <<todo, leaving, clients, idOf, historyVars, streamVars, clientVars>>
  BY DEF EndSend, Goto
<1>2. /\ MapTypes /\ ThreadTypes /\ StreamTypes /\ ClientTypes
      /\ TurnInv /\ LockInv /\ MapInv
  BY SessHas
<1>3. StreamTypes' /\ ClientTypes' /\ UNCHANGED <<streamLock, wire>>
  BY <1>1, <1>2, SameStreams, SameClients DEF streamVars
<1>4. MapTypes'
  BY <1>1, <1>2 DEF MapTypes, historyVars
<1>5. PICK l \in PCs : pc' = [pc EXCEPT ![c] = l] /\ l \in {"remove", "lookup"}
  <2>1. {"remove", "lookup"} \subseteq PCs
    BY DEF PCs
  <2> QED
    BY <1>1, <2>1
<1>6. ThreadTypes'
  BY <1>1, <1>2, <1>5 DEF ThreadTypes
<1>7. /\ pc'[c] = l /\ str'[c] = Absent
      /\ \A d \in Conns \ {c} : pc'[d] = pc[d] /\ str'[d] = str[d]
  BY <1>1, <1>2, <1>5 DEF ThreadTypes
<1>8. TurnInv'
  BY <1>1, <1>2, <1>3, <1>5, <1>7 DEF TurnInv, Serving
<1>9. LockInv'
  <2>1. clientsLock = c /\ \A d \in Conns : Free # d
    BY <1>1, <1>2, SessionsAssumption DEF LockInv, SessionsAssumption
  <2>2. l # "sending" /\ l \notin Transfer /\ pc[c] \notin Transfer
    BY <1>1, <1>5 DEF Transfer
  <2>3. \A d \in Conns : pc'[d] = "sending" <=> clientsLock' = d
    BY <1>1, <1>2, <1>7, <2>1, <2>2 DEF LockInv
  <2>4. \A s, d \in Conns : streamLock'[s] = d <=> pc'[d] \in Transfer /\ str'[d] = s
    BY <1>2, <1>3, <1>7, <2>2 DEF LockInv
  <2> QED
    BY <2>3, <2>4 DEF LockInv
<1>10. MapInv'
  BY <1>1, <1>2, <1>7 DEF MapInv
<1> QED
  BY <1>3, <1>4, <1>6, <1>8, <1>9, <1>10, SessFrom

LEMMA RemoveKeeps ==
  ASSUME SessInv, NEW c \in Conns, Remove(c)
  PROVE  SessInv'
<1>1. /\ pc[c] = "remove" /\ ClientsFree
      /\ clients' = [clients EXCEPT ![idOf[c]] = Absent]
      /\ pc' = [pc EXCEPT ![c] = "done"]
      /\ UNCHANGED <<str, msg, todo, leaving, clientsLock, idOf, historyVars,
                     streamVars, clientVars>>
  BY DEF Remove, Goto
<1>2. /\ MapTypes /\ ThreadTypes /\ StreamTypes /\ ClientTypes
      /\ TurnInv /\ LockInv /\ MapInv
  BY SessHas
<1>3. StreamTypes' /\ ClientTypes' /\ UNCHANGED <<streamLock, wire>>
  BY <1>1, <1>2, SameStreams, SameClients DEF streamVars
<1>4. /\ MapTypes'
      /\ \A j \in Ids : clients'[j] # Absent => clients'[j] = clients[j]
  BY <1>1, <1>2 DEF MapTypes, historyVars
<1>5. "done" \in PCs
  BY DEF PCs
<1>6. ThreadTypes'
  BY <1>1, <1>2, <1>5 DEF ThreadTypes
<1>7. TurnInv' /\ LockInv'
  <2>1. \A x \in Conns : idOf[x] = Absent => wire'[x] = <<>>
    BY <1>2, <1>3 DEF TurnInv
  <2>2. "done" \notin Serving /\ (pc[c] \in Transfer <=> "done" \in Transfer)
    BY <1>1 DEF Serving, Transfer
  <2> QED
    BY <1>1, <1>3, <1>5, <2>1, <2>2, PlaceMoves
<1>8. MapInv'
  <2>1. \A d \in Conns : todo'[d] = {}
    BY <1>1, NobodyInside
  <2>2. \A j \in Ids : clients'[j] # Absent => idOf'[clients'[j].conn] = j
    BY <1>1, <1>2, <1>4 DEF MapInv
  <2> QED
    BY <2>1, <2>2 DEF MapInv
<1> QED
  BY <1>3, <1>4, <1>6, <1>7, <1>8, SessFrom

----------------------------------------------------------------------------
(* A step is one of these.                                                 *)

LEMMA StepIs ==
  ASSUME Next
  PROVE  \E c \in Conns :
           \/ Client(c) \/ (\E i \in Ids : Accept(c, i)) \/ Refuse(c)
           \/ Lookup(c) \/ Read(c) \/ PlayerUpdate(c) \/ AnswerStep(c)
           \/ BeginUdm(c) \/ SendUdmHeader(c) \/ SendUdmFile(c) \/ UdmFails(c)
           \/ BeginSend(c) \/ (\E to \in todo[c] : SendTo(c, to))
           \/ EndSend(c) \/ Remove(c)
BY DEF Next, MapStep, StreamStep, OwnStep, AcceptLoop, AnswerStep

LEMMA StepKeepsSess ==
  ASSUME SessInv, [Next]_vars
  PROVE  SessInv'
<1>1. CASE Next
  BY <1>1, StepIs, ClientKeeps, AcceptKeeps, RefuseKeeps, LookupKeeps, ReadKeeps,
     PlayerUpdateKeeps, AnswerKeeps, BeginUdmKeeps, UdmHeaderKeeps, UdmEndsKeep,
     BeginSendKeeps, SendToKeeps, EndSendKeeps, RemoveKeeps
<1>2. CASE UNCHANGED vars
  <2>1. UNCHANGED <<threadVars, mapVars, streamVars, clientVars>>
    BY <1>2 DEF vars
  <2>2. MapTypes' /\ ThreadTypes' /\ StreamTypes' /\ ClientTypes'
    BY <2>1, SessHas, SamePlaces, SameThreads, SameStreams, SameClients DEF mapVars
  <2>3. TurnInv' /\ LockInv' /\ MapInv'
    BY <2>1, SessHas
       DEF TurnInv, LockInv, MapInv, threadVars, mapVars, streamVars
  <2> QED
    BY <2>2, <2>3, SessFrom
<1> QED
  BY <1>1, <1>2

LEMMA SessAlways == Spec => []SessInv
BY InitSessInv, StepKeepsSess, PTL DEF Spec

(* Every variable keeps its type, and a lock has one holder.               *)
THEOREM TypeCorrect == Spec => []TypeOK
<1>1. SessInv => TypeOK
  BY DEF SessInv
<1> QED
  BY <1>1, SessAlways, PTL

----------------------------------------------------------------------------
(* Sessions and their threads.                                             *)

Twins ==
  \A c, d \in Conns :
    c # d /\ Running(c) /\ Running(d) /\ idOf[c] = idOf[d] => idOf[c] \in doubled
TwinInv == Twins /\ OnlyTwinsLoseSession

(* A step that opens no session and closes none.                           *)
LEMMA QuietKeepsTwins ==
  ASSUME TwinInv, UNCHANGED <<idOf, doubled>>,
         \A c \in Conns : Running(c)' => Running(c),
         \A c \in Conns : clients[idOf[c]] # Absent => clients'[idOf[c]] # Absent
  PROVE  TwinInv'
BY DEF TwinInv, Twins, OnlyTwinsLoseSession

LEMMA RunsOn ==
  ASSUME SessInv, NEW c \in Conns, NEW l, pc' = [pc EXCEPT ![c] = l],
         Running(c) \/ l \in {"refused", "done", "dead"}
  PROVE  \A d \in Conns : Running(d)' => Running(d)
<1>1. /\ pc'[c] = l /\ \A d \in Conns \ {c} : pc'[d] = pc[d]
  BY SessHas DEF ThreadTypes
<1> QED
  BY <1>1 DEF Running

LEMMA RunningHasId ==
  ASSUME SessInv, NEW c \in Conns, Running(c)
  PROVE  idOf[c] \in Ids
BY SessHas DEF TurnInv, MapTypes, Running

LEMMA StepKeepsTwins ==
  ASSUME SessInv, TwinInv, [Next]_vars
  PROVE  TwinInv'
<1>1. MapTypes /\ ThreadTypes /\ TurnInv
  BY SessHas
<1>2. ASSUME NEW c \in Conns, NEW i \in Ids, Accept(c, i)
      PROVE  TwinInv'
  <2>1. /\ pc[c] = "none" /\ idOf' = [idOf EXCEPT ![c] = i]
        /\ clients' = [clients EXCEPT ![i] = [conn |-> c, ready |-> FALSE]]
        /\ pc' = [pc EXCEPT ![c] = "lookup"]
        /\ doubled' = IF \E d \in Conns : idOf[d] = i /\ Running(d)
                        THEN doubled \cup {i} ELSE doubled
    BY <1>2 DEF Accept
  <2>0. /\ idOf'[c] = i
        /\ \A d \in Conns \ {c} : idOf'[d] = idOf[d] /\ pc'[d] = pc[d]
    <3>1. idOf' = [idOf EXCEPT ![c] = i] /\ pc' = [pc EXCEPT ![c] = "lookup"]
      BY <2>1
    <3> QED
      BY <1>1, <3>1 DEF MapTypes, ThreadTypes
  <2>2. /\ idOf'[c] = i
        /\ \A d \in Conns \ {c} : idOf'[d] = idOf[d] /\ (Running(d)' => Running(d))
    BY <2>0 DEF Running
  <2>3. doubled \subseteq doubled' /\ [conn |-> c, ready |-> FALSE] # Absent
    <3>1. [conn |-> c, ready |-> FALSE] \in [conn : Conns, ready : BOOLEAN]
      OBVIOUS
    <3>2. [conn |-> c, ready |-> FALSE] # Absent
      BY <3>1, SessionsAssumption DEF SessionsAssumption
    <3>3. doubled \subseteq doubled'
      BY <2>1, Zenon
    <3> QED
      BY <3>2, <3>3
  <2>4. Twins'
    <3> SUFFICES ASSUME NEW d \in Conns, NEW e \in Conns, d # e,
                        Running(d)', Running(e)', idOf'[d] = idOf'[e]
                 PROVE  idOf'[d] \in doubled'
      BY DEF Twins
    <3>1. CASE d # c /\ e # c
      BY <2>2, <2>3, <3>1 DEF TwinInv, Twins
    <3>2. CASE d = c
      BY <2>1, <2>2, <3>2
    <3>3. CASE e = c
      BY <2>1, <2>2, <3>3
    <3> QED
      BY <3>1, <3>2, <3>3
  <2>5. OnlyTwinsLoseSession'
    <3> SUFFICES ASSUME NEW d \in Conns, Running(d)', idOf'[d] \notin doubled'
                 PROVE  clients'[idOf'[d]] # Absent
      BY DEF OnlyTwinsLoseSession
    <3>1. CASE idOf'[d] = i
      BY <1>1, <2>1, <2>3, <3>1 DEF MapTypes
    <3>2. CASE idOf'[d] # i
      <4>1. d # c /\ idOf'[d] = idOf[d] /\ Running(d)
        BY <2>2, <3>2
      <4>2. clients[idOf[d]] # Absent /\ idOf[d] \in Ids
        BY <2>3, <4>1, RunningHasId DEF TwinInv, OnlyTwinsLoseSession
      <4> QED
        BY <1>1, <2>1, <3>2, <4>1, <4>2 DEF MapTypes
    <3> QED
      BY <3>1, <3>2
  <2> QED
    BY <2>4, <2>5 DEF TwinInv
<1>3. ASSUME NEW c \in Conns, Remove(c)
      PROVE  TwinInv'
  <2>1. /\ pc[c] = "remove" /\ clients' = [clients EXCEPT ![idOf[c]] = Absent]
        /\ pc' = [pc EXCEPT ![c] = "done"] /\ UNCHANGED <<idOf, doubled>>
    BY <1>3 DEF Remove, Goto, historyVars
  <2>2. Running(c) /\ \A d \in Conns : Running(d)' => d # c /\ Running(d)
    BY <1>1, <2>1 DEF ThreadTypes, Running
  <2>3. Twins'
    BY <2>1, <2>2 DEF TwinInv, Twins
  <2>4. OnlyTwinsLoseSession'
    <3> SUFFICES ASSUME NEW d \in Conns, Running(d)', idOf[d] \notin doubled
                 PROVE  clients'[idOf[d]] # Absent
      BY <2>1 DEF OnlyTwinsLoseSession
    <3>1. idOf[d] # idOf[c]
      BY <2>2 DEF TwinInv, Twins
    <3>2. clients[idOf[d]] # Absent /\ idOf[d] \in Ids
      BY <2>2, RunningHasId DEF TwinInv, OnlyTwinsLoseSession
    <3> QED
      BY <1>1, <2>1, <3>1, <3>2 DEF MapTypes
  <2> QED
    BY <2>3, <2>4 DEF TwinInv
<1>4. ASSUME NEW c \in Conns, PlayerUpdate(c)
      PROVE  TwinInv'
  <2>1. /\ pc[c] = "PlayerUpdate" /\ UNCHANGED <<idOf, doubled>>
        /\ \/ pc' = [pc EXCEPT ![c] = "dead"] /\ UNCHANGED clients
           \/ /\ clients[idOf[c]] # Absent
              /\ clients' = [clients EXCEPT ![idOf[c]].ready = TRUE]
              /\ pc' = [pc EXCEPT ![c] = "answer"]
    BY <1>4 DEF PlayerUpdate, Goto
  <2>2. Running(c) /\ idOf[c] \in Ids
    BY <2>1, RunningHasId DEF Running
  <2>3. \A d \in Conns : Running(d)' => Running(d)
    BY <2>1, <2>2, RunsOn
  <2>4. \A d \in Conns : clients[idOf[d]] # Absent => clients'[idOf[d]] # Absent
    <3>1. CASE UNCHANGED clients
      BY <3>1
    <3>2. CASE /\ clients[idOf[c]] # Absent
               /\ clients' = [clients EXCEPT ![idOf[c]].ready = TRUE]
      <4>1. clients[idOf[c]] \in [conn : Conns, ready : BOOLEAN]
        BY <1>1, <2>2, <3>2 DEF MapTypes
      <4>2. [clients[idOf[c]] EXCEPT !.ready = TRUE] \in [conn : Conns, ready : BOOLEAN]
        BY <4>1
      <4>3. [clients[idOf[c]] EXCEPT !.ready = TRUE] # Absent
        BY <4>2, SessionsAssumption DEF SessionsAssumption
      <4> DEFINE now == [clients[idOf[c]] EXCEPT !.ready = TRUE]
      <4>4. clients' = [clients EXCEPT ![idOf[c]] = now]
        BY <1>1, <2>2, <3>2 DEF MapTypes
      <4> HIDE DEF now
      <4>5. now # Absent
        BY <4>3 DEF now
      <4>6. ASSUME NEW d \in Conns, clients[idOf[d]] # Absent
            PROVE  clients'[idOf[d]] # Absent
        <5>1. CASE idOf[d] = idOf[c]
          BY <1>1, <2>2, <4>4, <4>5, <5>1 DEF MapTypes
        <5>2. CASE idOf[d] # idOf[c]
          BY <1>1, <4>4, <4>6, <5>2 DEF MapTypes
        <5> QED
          BY <5>1, <5>2
      <4> QED
        BY <4>6
    <3> QED
      BY <2>1, <3>1, <3>2
  <2> QED
    BY <2>1, <2>3, <2>4, QuietKeepsTwins
<1>5. ASSUME NEW c \in Conns,
             \/ Client(c) \/ Refuse(c) \/ Lookup(c) \/ Read(c) \/ AnswerStep(c)
             \/ BeginUdm(c) \/ SendUdmHeader(c) \/ SendUdmFile(c) \/ UdmFails(c)
             \/ BeginSend(c) \/ (\E to \in todo[c] : SendTo(c, to)) \/ EndSend(c)
      PROVE  TwinInv'
  <2>1. UNCHANGED <<idOf, doubled, clients>> /\ \A d \in Conns : Running(d)' => Running(d)
    <3>1. CASE Client(c) \/ \E to \in todo[c] : SendTo(c, to)
      BY <3>1 DEF Client, ClientSend, ClientRead, ClientClose, SendTo, mapVars, historyVars,
         threadVars, Running
    <3>2. CASE Refuse(c)
      BY <3>2, RunsOn DEF Refuse, mapVars, historyVars
    <3>3. CASE AnswerStep(c)
      <4>1. PICK l : /\ pc' = [pc EXCEPT ![c] = l] /\ pc[c] \in Answering
                     /\ UNCHANGED mapVars
        BY <3>3, AnswerIs
      <4>2. Running(c)
        BY <4>1 DEF Running, Answering
      <4> QED
        BY <4>1, <4>2, RunsOn DEF mapVars, historyVars
    <3>4. CASE Lookup(c) \/ Read(c) \/ BeginUdm(c) \/ SendUdmHeader(c) \/ SendUdmFile(c)
               \/ UdmFails(c) \/ BeginSend(c) \/ EndSend(c)
      <4>1. /\ \E l : pc' = [pc EXCEPT ![c] = l]
            /\ pc[c] \in Serving \cup {"lookup"} /\ UNCHANGED <<idOf, doubled, clients>>
        BY <3>4 DEF Lookup, Read, BeginUdm, SendUdmHeader, SendUdmFile, UdmFails,
           BeginSend, EndSend, Goto, mapVars, historyVars, Serving
      <4>2. Running(c)
        BY <4>1 DEF Running, Serving
      <4> QED
        BY <4>1, <4>2, RunsOn
    <3> QED
      BY <1>5, <3>1, <3>2, <3>3, <3>4
  <2> QED
    BY <2>1, QuietKeepsTwins
<1>6. CASE UNCHANGED vars
  BY <1>6, QuietKeepsTwins DEF vars, mapVars, historyVars, threadVars, Running
<1>7. CASE Next
  BY <1>2, <1>3, <1>4, <1>5, <1>7, StepIs
<1> QED
  BY <1>6, <1>7

(* The unwrap of a session in PlayerUpdate, and a loop that finds none,    *)
(* are reached only by a client that connected again while its old         *)
(* connection was still served (main.rs, handle_client).                   *)
THEOREM SessionsLast == Spec => []OnlyTwinsLoseSession
<1>1. Init => TwinInv
  <2> SUFFICES ASSUME Init
               PROVE  \A c \in Conns : ~Running(c)
    BY DEF TwinInv, Twins, OnlyTwinsLoseSession
  <2> QED
    BY DEF Init, Running
<1>2. SessInv /\ TwinInv /\ [Next]_vars => TwinInv'
  BY StepKeepsTwins
<1>3. TwinInv => OnlyTwinsLoseSession
  BY DEF TwinInv
<1> QED
  BY <1>1, <1>2, <1>3, SessAlways, PTL DEF Spec
----------------------------------------------------------------------------
(* What a step leaves on the wires.                                        *)

LEMMA BroadcastsAfter ==
  ASSUME StreamTypes, NEW s \in Conns, NEW u \in Units, Written(s, u)
  PROVE  /\ \A x \in Conns \ {s} : Broadcasts(x)' = Broadcasts(x)
         /\ Broadcasts(s)' = IF u.kind \in Answers THEN Broadcasts(s)
                             ELSE Broadcasts(s) \cup {Len(wire[s]) + 1}
<1>1. /\ \A x \in Conns \ {s} : wire'[x] = wire[x]
      /\ Len(wire'[s]) = Len(wire[s]) + 1 /\ Len(wire[s]) \in Nat
      /\ \A k \in 1..Len(wire[s]) : wire'[s][k] = wire[s][k]
      /\ wire'[s][Len(wire[s]) + 1] = u
  BY WrittenIs
<1>2. \A k : k \in 1..Len(wire'[s]) <=> k \in 1..Len(wire[s]) \/ k = Len(wire[s]) + 1
  BY <1>1
<1>3. Len(wire[s]) + 1 \notin 1..Len(wire[s])
  BY <1>1
<1> QED
  BY <1>1, <1>2, <1>3 DEF Broadcasts

(* A session a thread still has to write to greeted with its own id.       *)
LEMMA ToIs ==
  ASSUME SessInv, NEW c \in Conns, NEW to \in todo[c]
  PROVE  /\ pc[c] = "sending" /\ to.id \in Ids /\ to.conn \in Conns
         /\ idOf[to.conn] = to.id /\ clients[to.id] # Absent /\ clients[to.id].ready
<1>1. MapTypes /\ ThreadTypes /\ TurnInv /\ MapInv
  BY SessHas
<1>2. pc[c] = "sending" /\ to \in [id : Ids, conn : Conns]
  BY <1>1 DEF ThreadTypes, TurnInv
<1>3. /\ clients[to.id] # Absent /\ clients[to.id].ready
      /\ to.conn = IF to.id = idOf[c] THEN str[c] ELSE clients[to.id].conn
  BY <1>1 DEF MapInv
<1>4. idOf[str[c]] = idOf[c]
  BY <1>1, <1>2 DEF TurnInv, Serving
<1>5. idOf[clients[to.id].conn] = to.id
  BY <1>1, <1>2, <1>3 DEF MapInv
<1> QED
  BY <1>2, <1>3, <1>4, <1>5

LEMMA SentIs ==
  ASSUME SessInv, NEW c \in Conns, NEW to \in todo[c], SendTo(c, to)
  PROVE  \/ UNCHANGED <<wire, torn>>
         \/ Unwritten(to.conn) /\ StreamFree(to.conn)
         \/ Written(to.conn, msg[c]) /\ msg[c] \in Message /\ StreamFree(to.conn)
<1>1. /\ Skipped(c, to) \/ StreamFree(to.conn)
      /\ Deliver(c, to)
  BY DEF SendTo
<1>2. to.conn \in Conns /\ StreamTypes /\ msg[c] \in Message \cup {None}
  BY ToIs, SessHas DEF ThreadTypes
<1>3. CASE Own(c, to) /\ msg[c].kind \in {"PlayerUpdate", "None"}
  BY <1>1, <1>3 DEF Deliver
<1>4. CASE ~(Own(c, to) /\ msg[c].kind \in {"PlayerUpdate", "None"})
  <2>1. Write(to.conn, msg[c]) /\ StreamFree(to.conn)
    BY <1>1, <1>4 DEF Deliver, Skipped
  <2>2. Written(to.conn, msg[c]) \/ Unwritten(to.conn)
    BY <1>2, <2>1, WriteIs
  <2>3. Written(to.conn, msg[c]) => msg[c] # None
    BY SessionsAssumption DEF Written, None, Unit, SessionsAssumption
  <2> QED
    BY <1>2, <2>1, <2>2, <2>3
<1> QED
  BY <1>3, <1>4

LEMMA AnswerOnWire ==
  ASSUME SessInv, NEW c \in Conns, AnswerStep(c) \/ SendUdmHeader(c) \/ SendUdmFile(c)
  PROVE  UNCHANGED wire \/ \E s \in Conns, a \in Answers : Written(s, Unit(a))
<1>1. StreamTypes /\ TurnInv
  BY SessHas
<1>2. PICK a \in Answers : Write(str[c], Unit(a)) /\ pc[c] \in Serving
  <2>1. CASE AnswerStep(c)
    BY <2>1, AnswerIs DEF Answering, Answers1, Answers, Serving
  <2>2. CASE SendUdmHeader(c) \/ SendUdmFile(c)
    BY <2>2 DEF SendUdmHeader, SendUdmFile, Answers, Serving
  <2> QED
    BY <2>1, <2>2
<1>3. str[c] \in Conns
  BY <1>1, <1>2 DEF TurnInv
<1> QED
  BY <1>1, <1>2, <1>3, WriteIs DEF Unwritten

(* A step leaves the wires alone, puts an answer on one, or a message.     *)
LEMMA WireMoves ==
  ASSUME SessInv, Next
  PROVE  \/ UNCHANGED wire
         \/ \E s \in Conns, a \in Answers : Written(s, Unit(a))
         \/ \E c \in Conns : \E to \in todo[c] :
              SendTo(c, to) /\ Written(to.conn, msg[c]) /\ msg[c] \in Message
<1>1. ASSUME NEW c \in Conns, NEW to \in todo[c], SendTo(c, to)
      PROVE  \/ UNCHANGED wire
             \/ Written(to.conn, msg[c]) /\ msg[c] \in Message
  BY <1>1, SentIs DEF Unwritten
<1>2. ASSUME NEW c \in Conns,
             \/ Client(c) \/ (\E i \in Ids : Accept(c, i)) \/ Refuse(c) \/ Lookup(c)
             \/ Read(c) \/ PlayerUpdate(c) \/ BeginUdm(c) \/ UdmFails(c)
             \/ BeginSend(c) \/ EndSend(c) \/ Remove(c)
      PROVE  UNCHANGED wire
  BY <1>2 DEF Client, ClientSend, ClientRead, ClientClose, Accept, Refuse, Lookup, Read,
     PlayerUpdate, BeginUdm, UdmFails, BeginSend, EndSend, Remove, streamVars
<1> QED
  BY <1>1, <1>2, AnswerOnWire, StepIs

----------------------------------------------------------------------------
(* Joining: nothing but answers before the session is ready, which it is   *)
(* after its own first PlayerUpdate, or after one of an older thread.      *)

Ready(i) == clients[i] # Absent /\ clients[i].ready
ReadyInv == \A i \in Ids : Ready(i) => clients[i].conn \in updated \cup early
JoinInv == JoinUndisturbed /\ ReadyInv

(* What a step leaves of the session of an id: the connection it had, or   *)
(* one that has just greeted.                                              *)
Stays(i) ==
  /\ clients[i] # Absent /\ clients'[i].conn = clients[i].conn
  /\ Ready(i)' => Ready(i) \/ clients'[i].conn \in (updated \cup early)'
Opens(i) ==
  /\ idOf[clients'[i].conn] = Absent /\ clients'[i].conn \in Conns
  /\ ~Ready(i)' /\ UNCHANGED wire

LEMMA HistoryGrows ==
  ASSUME [Next]_vars
  PROVE  updated \subseteq updated' /\ early \subseteq early'
<1>1. CASE \E c \in Conns : PlayerUpdate(c)
  BY <1>1 DEF PlayerUpdate
<1>2. CASE \E c \in Conns :
             \/ Client(c) \/ (\E i \in Ids : Accept(c, i)) \/ Refuse(c) \/ Lookup(c)
             \/ Read(c) \/ AnswerStep(c)
             \/ BeginUdm(c) \/ SendUdmHeader(c) \/ SendUdmFile(c) \/ UdmFails(c)
             \/ BeginSend(c) \/ (\E to \in todo[c] : SendTo(c, to)) \/ EndSend(c)
             \/ Remove(c)
  BY <1>2 DEF Client, ClientSend, ClientRead, ClientClose, Accept, Refuse, Lookup, Read,
     AnswerStep, Answer, SendTime, SendSeed, SendChestHeader, SendChestFile, BeginUdm,
     SendUdmHeader, SendUdmFile, UdmFails, BeginSend, SendTo, EndSend, Remove, mapVars,
     historyVars
<1>3. CASE UNCHANGED vars
  BY <1>3 DEF vars, mapVars, historyVars
<1>4. CASE Next
  BY <1>1, <1>2, <1>4, StepIs
<1> QED
  BY <1>3, <1>4

LEMMA SessionStaysOrOpens ==
  ASSUME SessInv, [Next]_vars, NEW i \in Ids, clients'[i] # Absent
  PROVE  Stays(i) \/ Opens(i)
<1>1. MapTypes /\ ThreadTypes /\ TurnInv
  BY SessHas
<1>2. clients'[i] = clients[i] => Stays(i)
  BY DEF Stays, Ready
<1>3. ASSUME NEW c \in Conns, NEW j \in Ids, Accept(c, j)
      PROVE  clients'[i] = clients[i] \/ Opens(i)
  <2>1. /\ pc[c] = "none" /\ UNCHANGED streamVars
        /\ clients' = [clients EXCEPT ![j] = [conn |-> c, ready |-> FALSE]]
    BY <1>3 DEF Accept
  <2>2. idOf[c] = Absent
    BY <1>1, <2>1 DEF TurnInv
  <2>3. CASE i = j
    <3>1. clients'[i] = [conn |-> c, ready |-> FALSE]
      BY <1>1, <2>1, <2>3 DEF MapTypes
    <3> QED
      BY <2>1, <2>2, <3>1 DEF Opens, Ready, streamVars
  <2>4. CASE i # j
    BY <1>1, <2>1, <2>4 DEF MapTypes
  <2> QED
    BY <2>3, <2>4
<1>4. ASSUME NEW c \in Conns, PlayerUpdate(c)
      PROVE  clients'[i] = clients[i] \/ Stays(i)
  <2>1. CASE UNCHANGED clients
    BY <2>1
  <2>2. CASE /\ clients[idOf[c]] # Absent
             /\ clients' = [clients EXCEPT ![idOf[c]].ready = TRUE]
             /\ updated' = updated \cup {str[c]}
             /\ early' = early \cup ({clients[idOf[c]].conn} \ updated')
    <3>1. CASE i = idOf[c]
      <4>1. clients[i] \in [conn : Conns, ready : BOOLEAN]
        BY <1>1, <2>2, <3>1 DEF MapTypes
      <4>2. clients'[i] = [clients[i] EXCEPT !.ready = TRUE]
        BY <1>1, <2>2, <3>1 DEF MapTypes
      <4>3. clients'[i].conn = clients[i].conn
        BY <4>1, <4>2
      <4>4. clients[i].conn \in updated' \cup early'
        BY <2>2, <3>1
      <4> QED
        BY <2>2, <3>1, <4>3, <4>4 DEF Stays
    <3>2. CASE i # idOf[c]
      BY <1>1, <2>2, <3>2 DEF MapTypes
    <3> QED
      BY <3>1, <3>2
  <2> QED
    BY <1>4, <2>1, <2>2 DEF PlayerUpdate
<1>5. ASSUME NEW c \in Conns, Remove(c)
      PROVE  clients'[i] = clients[i]
  BY <1>1, <1>5 DEF Remove, MapTypes
<1>6. ASSUME NEW c \in Conns,
             \/ Client(c) \/ Refuse(c) \/ Lookup(c) \/ Read(c) \/ AnswerStep(c)
             \/ BeginUdm(c) \/ SendUdmHeader(c) \/ SendUdmFile(c) \/ UdmFails(c)
             \/ BeginSend(c) \/ (\E to \in todo[c] : SendTo(c, to)) \/ EndSend(c)
      PROVE  UNCHANGED clients
  BY <1>6 DEF Client, ClientSend, ClientRead, ClientClose, Refuse, Lookup, Read,
     AnswerStep, Answer, SendTime, SendSeed, SendChestHeader, SendChestFile, BeginUdm,
     SendUdmHeader, SendUdmFile, UdmFails, BeginSend, SendTo, EndSend, mapVars
<1>7. CASE Next
  BY <1>2, <1>3, <1>4, <1>5, <1>6, <1>7, StepIs
<1>8. CASE UNCHANGED vars
  BY <1>2, <1>8 DEF vars, mapVars
<1> QED
  BY <1>7, <1>8

(* A stream gets a broadcast only from a thread that still has to write to *)
(* it.                                                                     *)
LEMMA BroadcastsReach ==
  ASSUME SessInv, [Next]_vars, NEW x \in Conns
  PROVE  \/ Broadcasts(x)' = Broadcasts(x)
         \/ \E c \in Conns : \E to \in todo[c] : x = to.conn
<1>1. StreamTypes
  BY SessHas
<1>2. CASE UNCHANGED wire
  BY <1>2 DEF Broadcasts
<1>3. ASSUME NEW s \in Conns, NEW a \in Answers, Written(s, Unit(a))
      PROVE  Broadcasts(x)' = Broadcasts(x)
  <2>1. Unit(a) \in Units /\ Unit(a).kind \in Answers
    BY DEF Units, Unit
  <2> QED
    BY <1>1, <1>3, <2>1, BroadcastsAfter
<1>4. ASSUME NEW c \in Conns, NEW to \in todo[c], Written(to.conn, msg[c]),
             msg[c] \in Message, x # to.conn
      PROVE  Broadcasts(x)' = Broadcasts(x)
  <2>1. msg[c] \in Units /\ to.conn \in Conns
    BY <1>4, ToIs DEF Units
  <2> QED
    BY <1>1, <1>4, <2>1, BroadcastsAfter
<1>5. CASE Next
  BY <1>2, <1>3, <1>4, <1>5, WireMoves
<1>6. CASE UNCHANGED vars
  BY <1>2, <1>6 DEF vars, streamVars
<1> QED
  BY <1>5, <1>6

LEMMA StepKeepsJoining ==
  ASSUME SessInv, JoinInv, [Next]_vars
  PROVE  JoinInv'
<1>1. MapTypes /\ StreamTypes /\ TurnInv /\ MapInv
  BY SessHas
<1>2. updated \cup early \subseteq updated' \cup early'
  BY HistoryGrows
<1>3. ASSUME NEW i \in Ids, NEW x \in Conns, x = clients[i].conn, Stays(i),
             Broadcasts(x)' # {}
      PROVE  x \in updated \cup early
  <2>1. clients[i] # Absent /\ idOf[x] = i
    BY <1>1, <1>3 DEF Stays, MapInv
  <2>2. CASE Broadcasts(x)' = Broadcasts(x)
    BY <1>3, <2>1, <2>2 DEF JoinInv, JoinUndisturbed
  <2>3. ASSUME NEW c \in Conns, NEW to \in todo[c], x = to.conn
        PROVE  x \in updated \cup early
    <3>1. idOf[to.conn] = to.id /\ clients[to.id].ready
      BY ToIs
    <3> QED
      BY <1>3, <2>1, <2>3, <3>1 DEF JoinInv, ReadyInv, Ready
  <2> QED
    BY <2>2, <2>3, BroadcastsReach
<1>4. ASSUME NEW i \in Ids, NEW x \in Conns, x = clients'[i].conn, Opens(i)
      PROVE  Broadcasts(x)' = {}
  <2>1. wire'[x] = <<>>
    BY <1>1, <1>4 DEF Opens, TurnInv
  <2>2. Len(wire'[x]) = 0
    BY <2>1
  <2> QED
    BY <2>2 DEF Broadcasts
<1>5. JoinUndisturbed'
  <2>1. clients' \in [Ids -> [conn : Conns, ready : BOOLEAN] \cup {Absent}]
    BY StepKeepsSess DEF SessInv, TypeOK
  <2> SUFFICES ASSUME NEW i \in Ids, NEW x \in Conns, clients'[i] # Absent,
                      x = clients'[i].conn, Broadcasts(x)' # {}
               PROVE  x \in updated' \cup early'
    <3>1. \A i \in Ids : clients'[i] # Absent => clients'[i].conn \in Conns
      BY <2>1
    <3> QED
      BY <3>1 DEF JoinUndisturbed, Broadcasts
  <2>2. CASE Stays(i)
    BY <1>2, <1>3, <2>2 DEF Stays
  <2>3. CASE Opens(i)
    BY <1>4, <2>3
  <2> QED
    BY <2>2, <2>3, SessionStaysOrOpens
<1>6. ReadyInv'
  <2> SUFFICES ASSUME NEW i \in Ids, Ready(i)'
               PROVE  clients'[i].conn \in updated' \cup early'
    BY DEF ReadyInv
  <2>1. clients'[i] # Absent
    BY DEF Ready
  <2>2. CASE Stays(i)
    BY <1>2, <2>2 DEF Stays, JoinInv, ReadyInv
  <2>3. CASE Opens(i)
    BY <2>3 DEF Opens
  <2> QED
    BY <2>1, <2>2, <2>3, SessionStaysOrOpens
<1> QED
  BY <1>5, <1>6 DEF JoinInv

(* A thread in a turn of its loop holds the stream of the session of its   *)
(* id, unless a second connection with that id came; so only then does a   *)
(* PlayerUpdate make the session of another connection ready.              *)
FoundOwn(c) ==
  pc[c] \in Serving /\ clients[idOf[c]] # Absent =>
    str[c] = clients[idOf[c]].conn \/ idOf[c] \in doubled
EarlyInv == EarlyOnlyByTwins /\ \A c \in Conns : FoundOwn(c)

(* A step that changes neither who serves whom nor the streams found.      *)
LEMMA QuietKeepsEarly ==
  ASSUME EarlyInv, UNCHANGED <<idOf, doubled, early, clients>>,
         \A c \in Conns : pc'[c] \in Serving => pc[c] \in Serving /\ str'[c] = str[c]
  PROVE  EarlyInv'
BY DEF EarlyInv, EarlyOnlyByTwins, FoundOwn

LEMMA StepKeepsEarly ==
  ASSUME SessInv, EarlyInv, [Next]_vars
  PROVE  EarlyInv'
<1>1. MapTypes /\ ThreadTypes /\ TurnInv
  BY SessHas
<1>2. ASSUME NEW c \in Conns, NEW i \in Ids, Accept(c, i)
      PROVE  EarlyInv'
  <2>1. /\ pc[c] = "none" /\ idOf' = [idOf EXCEPT ![c] = i]
        /\ clients' = [clients EXCEPT ![i] = [conn |-> c, ready |-> FALSE]]
        /\ pc' = [pc EXCEPT ![c] = "lookup"]
        /\ doubled' = IF \E d \in Conns : idOf[d] = i /\ Running(d)
                        THEN doubled \cup {i} ELSE doubled
        /\ UNCHANGED <<str, early>>
    BY <1>2 DEF Accept
  <2>2. /\ idOf[c] = Absent /\ pc'[c] = "lookup"
        /\ \A d \in Conns \ {c} : idOf'[d] = idOf[d] /\ pc'[d] = pc[d]
    BY <1>1, <2>1 DEF TurnInv, MapTypes, ThreadTypes
  <2>3. doubled \subseteq doubled' /\ Absent \notin doubled
    <3>1. doubled \subseteq doubled'
      BY <2>1, Zenon
    <3> QED
      BY <1>1, <3>1, SessionsAssumption DEF MapTypes, SessionsAssumption
  <2>4. EarlyOnlyByTwins'
    BY <2>1, <2>2, <2>3 DEF EarlyInv, EarlyOnlyByTwins
  <2>5. ASSUME NEW d \in Conns
        PROVE  FoundOwn(d)'
    <3>1. CASE d = c
      BY <2>2, <3>1 DEF FoundOwn, Serving
    <3>2. CASE d # c /\ pc[d] \notin Serving
      BY <2>2, <3>2 DEF FoundOwn
    <3>3. CASE d # c /\ pc[d] \in Serving /\ idOf[d] = i
      <4>1. Running(d)
        BY <3>3 DEF Running, Serving
      <4> QED
        BY <2>1, <2>2, <3>3, <4>1 DEF FoundOwn
    <3>4. CASE d # c /\ pc[d] \in Serving /\ idOf[d] # i
      <4>1. idOf[d] \in Ids
        BY <1>1, <3>4 DEF TurnInv, MapTypes, Serving
      <4>2. clients'[idOf[d]] = clients[idOf[d]]
        BY <1>1, <2>1, <3>4, <4>1 DEF MapTypes
      <4> QED
        BY <2>1, <2>2, <2>3, <3>4, <4>2 DEF EarlyInv, FoundOwn
    <3> QED
      BY <3>1, <3>2, <3>3, <3>4
  <2> QED
    BY <2>4, <2>5 DEF EarlyInv
<1>3. ASSUME NEW c \in Conns, PlayerUpdate(c)
      PROVE  EarlyInv'
  <2> DEFINE i == idOf[c]
  <2>1. /\ pc[c] = "PlayerUpdate" /\ UNCHANGED <<idOf, doubled, str>>
        /\ pc' = [pc EXCEPT ![c] = IF clients[i] = Absent THEN "dead" ELSE "answer"]
        /\ \/ UNCHANGED <<clients, early>>
           \/ /\ clients[i] # Absent /\ clients' = [clients EXCEPT ![i].ready = TRUE]
              /\ updated' = updated \cup {str[c]}
              /\ early' = early \cup ({clients[i].conn} \ updated')
    BY <1>3 DEF PlayerUpdate, Goto
  <2>2. i \in Ids /\ pc[c] \in Serving
    BY <1>1, <2>1 DEF TurnInv, MapTypes, Serving
  <2>3. \A d \in Conns : pc'[d] \in Serving => pc[d] \in Serving
    BY <1>1, <2>1, <2>2 DEF ThreadTypes
  <2>4. CASE UNCHANGED <<clients, early>>
    BY <2>1, <2>3, <2>4, QuietKeepsEarly
  <2>5. CASE /\ clients[i] # Absent /\ clients' = [clients EXCEPT ![i].ready = TRUE]
             /\ updated' = updated \cup {str[c]}
             /\ early' = early \cup ({clients[i].conn} \ updated')
    <3>1. clients[i] \in [conn : Conns, ready : BOOLEAN] /\ idOf[clients[i].conn] = i
      BY <2>2, <2>5, SessHas DEF MapTypes, MapInv
    <3>2. \A j \in Ids : clients'[j] # Absent =>
            clients[j] # Absent /\ clients'[j].conn = clients[j].conn
      <4>1. [clients[i] EXCEPT !.ready = TRUE].conn = clients[i].conn
        BY <3>1
      <4>2. clients' = [clients EXCEPT ![i] = [clients[i] EXCEPT !.ready = TRUE]]
        BY <1>1, <2>2, <2>5 DEF MapTypes
      <4> HIDE DEF i
      <4> QED
        BY <1>1, <2>2, <2>5, <4>1, <4>2 DEF MapTypes
    <3>3. EarlyOnlyByTwins'
      <4>1. clients[i].conn \in updated' \/ i \in doubled
        BY <2>2, <2>5 DEF EarlyInv, FoundOwn
      <4>2. \A x \in early' : x \in early \/ (idOf[x] = i /\ i \in doubled)
        BY <2>5, <3>1, <4>1
      <4> QED
        BY <2>1, <4>2 DEF EarlyInv, EarlyOnlyByTwins
    <3>4. \A d \in Conns : FoundOwn(d)'
      <4>1. \A d \in Conns : pc[d] \in Serving => idOf[d] \in Ids
        BY <1>1 DEF TurnInv, MapTypes, Serving
      <4> QED
        BY <2>1, <2>3, <3>2, <4>1 DEF EarlyInv, FoundOwn
    <3> QED
      BY <3>3, <3>4 DEF EarlyInv
  <2> QED
    BY <2>1, <2>4, <2>5
<1>4. ASSUME NEW c \in Conns, Remove(c)
      PROVE  EarlyInv'
  <2>1. /\ pc[c] = "remove" /\ clients' = [clients EXCEPT ![idOf[c]] = Absent]
        /\ pc' = [pc EXCEPT ![c] = "done"] /\ UNCHANGED <<idOf, doubled, early, str>>
    BY <1>4 DEF Remove, Goto, historyVars
  <2>2. \A d \in Conns : pc'[d] \in Serving => pc[d] \in Serving
    BY <1>1, <2>1 DEF ThreadTypes, Serving
  <2>3. ASSUME NEW d \in Conns
        PROVE  FoundOwn(d)'
    <3>1. CASE pc[d] \notin Serving
      BY <2>2, <3>1 DEF FoundOwn
    <3>2. CASE pc[d] \in Serving
      <4>1. idOf[d] \in Ids
        BY <1>1, <3>2 DEF TurnInv, MapTypes, Serving
      <4>2. clients'[idOf[d]] = clients[idOf[d]] \/ clients'[idOf[d]] = Absent
        BY <1>1, <2>1, <4>1 DEF MapTypes
      <4> QED
        BY <2>1, <3>2, <4>2 DEF EarlyInv, FoundOwn
    <3> QED
      BY <3>1, <3>2
  <2> QED
    BY <2>1, <2>3 DEF EarlyInv, EarlyOnlyByTwins
<1>5. ASSUME NEW c \in Conns, Lookup(c)
      PROVE  EarlyInv'
  <2>1. /\ clients[idOf[c]] # Absent
        /\ str' = [str EXCEPT ![c] = clients[idOf[c]].conn]
        /\ pc' = [pc EXCEPT ![c] = "read"] /\ UNCHANGED <<idOf, doubled, early, clients>>
    BY <1>5 DEF Lookup, Goto, mapVars, historyVars
  <2>2. \A d \in Conns : FoundOwn(d)'
    BY <1>1, <2>1 DEF EarlyInv, FoundOwn, ThreadTypes
  <2> QED
    BY <2>1, <2>2 DEF EarlyInv, EarlyOnlyByTwins
<1>6. ASSUME NEW c \in Conns, EndSend(c)
      PROVE  EarlyInv'
  <2>1. /\ pc' = [pc EXCEPT ![c] = IF leaving[c] THEN "remove" ELSE "lookup"]
        /\ str' = [str EXCEPT ![c] = Absent] /\ UNCHANGED <<idOf, doubled, early, clients>>
    BY <1>6 DEF EndSend, Goto, historyVars
  <2>2. \A d \in Conns : pc'[d] \in Serving => pc[d] \in Serving /\ str'[d] = str[d]
    BY <1>1, <2>1 DEF ThreadTypes, Serving
  <2> QED
    BY <2>1, <2>2, QuietKeepsEarly
<1>7. ASSUME NEW c \in Conns,
             \/ Client(c) \/ Refuse(c) \/ Read(c) \/ AnswerStep(c) \/ BeginUdm(c)
             \/ SendUdmHeader(c) \/ SendUdmFile(c) \/ UdmFails(c)
             \/ BeginSend(c) \/ (\E to \in todo[c] : SendTo(c, to))
      PROVE  EarlyInv'
  <2>1. UNCHANGED <<idOf, doubled, early, clients, str>>
    BY <1>7 DEF Client, ClientSend, ClientRead, ClientClose, Refuse, Read, AnswerStep,
       Answer, SendTime, SendSeed, SendChestHeader, SendChestFile, BeginUdm,
       SendUdmHeader, SendUdmFile, UdmFails, BeginSend, SendTo, mapVars, historyVars,
       threadVars
  <2>2. UNCHANGED pc \/ \E l : /\ pc' = [pc EXCEPT ![c] = l]
                               /\ pc[c] \in Serving \/ l = "refused"
    BY <1>7 DEF Client, ClientSend, ClientRead, ClientClose, Refuse, Read, AnswerStep,
       Answer, SendTime, SendSeed, SendChestHeader, SendChestFile, BeginUdm,
       SendUdmHeader, SendUdmFile, UdmFails, BeginSend, SendTo, Goto, threadVars, Serving
  <2>3. \A d \in Conns : pc'[d] \in Serving => pc[d] \in Serving
    BY <1>1, <2>2 DEF ThreadTypes, Serving
  <2> QED
    BY <2>1, <2>3, QuietKeepsEarly
<1>8. CASE UNCHANGED vars
  BY <1>8, QuietKeepsEarly DEF vars, mapVars, historyVars, threadVars
<1>9. CASE Next
  BY <1>2, <1>3, <1>4, <1>5, <1>6, <1>7, <1>9, StepIs
<1> QED
  BY <1>8, <1>9

----------------------------------------------------------------------------
(* Joining: the world file comes whole.                                    *)

(* A header is followed by its file; one that is last still belongs to a   *)
(* thread that can write the file, or to a client that has left.           *)
UdmAt(x) ==
  \A k \in 1..Len(wire[x]) : wire[x][k].kind = "Udm" =>
    /\ "Udm" \in Recorded
    /\ k < Len(wire[x]) => wire[x][k + 1].kind = "UdmFile"
    /\ k = Len(wire[x]) =>
         \/ ~open[x]
         \/ ~torn[x] /\ \E c \in Conns : pc[c] = "udmfile" /\ str[c] = x
UdmInv == \A x \in Conns : UdmAt(x)

(* A stream nobody writes to, and whose transfers go on.                   *)
LEMMA QuietUdm ==
  ASSUME SessInv, NEW x \in Conns, UdmAt(x), wire'[x] = wire[x], open'[x] => open[x],
         open'[x] => /\ torn'[x] => torn[x]
                     /\ \A c \in Conns : pc[c] = "udmfile" /\ str[c] = x =>
                                         pc'[c] = "udmfile" /\ str'[c] = x
  PROVE  UdmAt(x)'
BY DEF UdmAt

(* Nobody is in a transfer on a stream that is free.                       *)
LEMMA FreeOfTransfers ==
  ASSUME SessInv, NEW x \in Conns, StreamFree(x)
  PROVE  \A c \in Conns : ~(pc[c] \in Transfer /\ str[c] = x)
BY SessHas, SessionsAssumption DEF LockInv, StreamFree, SessionsAssumption

(* A write to a stream where no header waits for its file.                 *)
LEMMA WrittenUdm ==
  ASSUME SessInv, NEW x \in Conns, UdmAt(x), NEW u \in Units, Written(x, u),
         \/ u.kind = "UdmFile"
         \/ ~ \E c \in Conns : pc[c] = "udmfile" /\ str[c] = x,
         u.kind = "Udm" => \E c \in Conns : pc'[c] = "udmfile" /\ str'[c] = x
  PROVE  UdmAt(x)'
<1>1. /\ Len(wire'[x]) = Len(wire[x]) + 1 /\ Len(wire[x]) \in Nat
      /\ \A k \in 1..Len(wire[x]) : wire'[x][k] = wire[x][k]
      /\ wire'[x][Len(wire[x]) + 1] = u
  BY SessHas, WrittenIs
<1>2. open[x] /\ ~torn[x] /\ u.kind \in Recorded /\ UNCHANGED torn
  BY DEF Written
<1> SUFFICES ASSUME NEW k \in 1..Len(wire'[x]), wire'[x][k].kind = "Udm"
             PROVE  /\ "Udm" \in Recorded
                    /\ k < Len(wire'[x]) => wire'[x][k + 1].kind = "UdmFile"
                    /\ k = Len(wire'[x]) =>
                         \/ ~open'[x]
                         \/ ~torn'[x] /\ \E c \in Conns : pc'[c] = "udmfile" /\ str'[c] = x
  BY DEF UdmAt
<1>3. CASE k = Len(wire[x]) + 1
  BY <1>1, <1>2, <1>3
<1>4. CASE k < Len(wire[x])
  <2>1. k + 1 \in 1..Len(wire[x]) /\ k \in 1..Len(wire[x]) /\ k # Len(wire'[x])
    BY <1>1, <1>4
  <2> QED
    BY <1>1, <1>4, <2>1 DEF UdmAt
<1>5. CASE k = Len(wire[x])
  <2>1. k \in 1..Len(wire[x]) /\ wire[x][k].kind = "Udm"
    BY <1>1, <1>5
  <2>2. "Udm" \in Recorded /\ \E c \in Conns : pc[c] = "udmfile" /\ str[c] = x
    BY <1>2, <1>5, <2>1 DEF UdmAt
  <2>3. u.kind = "UdmFile"
    BY <2>2
  <2> QED
    BY <1>1, <1>5, <2>2, <2>3
<1> QED
  BY <1>1, <1>3, <1>4, <1>5

(* A write by a thread that found the stream free.                         *)
LEMMA FreeWriteUdm ==
  ASSUME SessInv, UdmInv, NEW s \in Conns, StreamFree(s),
         UNCHANGED open, NEW u \in Units, u.kind # "Udm",
         Written(s, u) \/ Unwritten(s),
         \A c \in Conns : pc[c] = "udmfile" => pc'[c] = "udmfile" /\ str'[c] = str[c]
  PROVE  UdmInv'
<1>1. ~ \E c \in Conns : pc[c] = "udmfile" /\ str[c] = s
  BY FreeOfTransfers DEF Transfer
<1>2. UdmAt(s)'
  <2>1. CASE Written(s, u)
    BY <1>1, <2>1, WrittenUdm DEF UdmInv
  <2>2. CASE Unwritten(s)
    <3>1. \A k \in 1..Len(wire[s]) : wire[s][k].kind = "Udm" =>
            /\ "Udm" \in Recorded
            /\ k < Len(wire[s]) => wire[s][k + 1].kind = "UdmFile"
            /\ k = Len(wire[s]) => ~open[s]
      BY <1>1 DEF UdmInv, UdmAt
    <3> QED
      BY <2>2, <3>1 DEF UdmAt, Unwritten
  <2> QED
    BY <2>1, <2>2
<1>3. ASSUME NEW x \in Conns \ {s}
      PROVE  UdmAt(x)'
  <2>1. wire'[x] = wire[x] /\ torn'[x] = torn[x]
    <3>1. StreamTypes
      BY SessHas
    <3>2. CASE Written(s, u)
      BY <3>1, <3>2, WrittenIs DEF Written
    <3>3. CASE Unwritten(s)
      BY <3>1, <3>3 DEF Unwritten, StreamTypes
    <3> QED
      BY <3>2, <3>3
  <2> QED
    BY <2>1, QuietUdm DEF UdmInv
<1> QED
  BY <1>2, <1>3 DEF UdmInv

LEMMA HeaderUdm ==
  ASSUME SessInv, UdmInv, NEW c \in Conns, NEW s \in Conns, s = str[c], SendUdmHeader(c)
  PROVE  UdmInv'
<1>1. /\ pc[c] = "udmheader" /\ Fits(s) /\ Write(s, Unit("Udm"))
      /\ pc' = [pc EXCEPT ![c] = "udmfile"]
      /\ UNCHANGED <<str, clientVars>>
  BY DEF SendUdmHeader, Goto
<1>2. StreamTypes /\ ThreadTypes /\ LockInv
  BY SessHas
<1>3. pc'[c] = "udmfile" /\ \A d \in Conns \ {c} : pc'[d] = pc[d]
  BY <1>1, <1>2 DEF ThreadTypes
<1>4. ~ \E d \in Conns : pc[d] = "udmfile" /\ str[d] = s
  BY <1>1, <1>2 DEF LockInv, Transfer
<1>5. UNCHANGED open /\ open[s] /\ UNCHANGED torn
  BY <1>1 DEF clientVars, Write, Fits
<1>6. Written(s, Unit("Udm")) \/ Unwritten(s)
  BY <1>1, <1>2, WriteIs
<1>7. Unit("Udm") \in Units /\ Unit("Udm").kind = "Udm"
  BY DEF Units, Answers, Unit
<1>8. UdmAt(s)'
  <2>1. CASE Written(s, Unit("Udm"))
    BY <1>1, <1>2, <1>3, <1>4, <1>7, <2>1, WrittenUdm DEF UdmInv
  <2>2. CASE Unwritten(s)
    BY <1>2, <1>4, <1>5, <2>2, QuietUdm DEF Unwritten, UdmInv
  <2> QED
    BY <1>6, <2>1, <2>2
<1>9. ASSUME NEW x \in Conns \ {s}
      PROVE  UdmAt(x)'
  <2>1. wire'[x] = wire[x]
    BY <1>2, <1>6, <1>7, WrittenIs DEF Unwritten
  <2> QED
    BY <1>1, <1>3, <1>5, <2>1, QuietUdm DEF UdmInv
<1> QED
  BY <1>2, <1>8, <1>9 DEF UdmInv

LEMMA FileUdm ==
  ASSUME SessInv, UdmInv, NEW c \in Conns, NEW s \in Conns, s = str[c], SendUdmFile(c)
  PROVE  UdmInv'
<1>1. /\ pc[c] = "udmfile" /\ Fits(s) /\ Write(s, Unit("UdmFile"))
      /\ pc' = [pc EXCEPT ![c] = "send"]
      /\ UNCHANGED <<str, clientVars>>
  BY DEF SendUdmFile, Goto
<1>2. StreamTypes /\ ThreadTypes
  BY SessHas
<1>3. \A d \in Conns \ {c} : pc'[d] = pc[d]
  BY <1>1, <1>2 DEF ThreadTypes
<1>5. /\ UNCHANGED open /\ open[s] /\ UNCHANGED torn
      /\ wire' = IF torn[s] \/ "UdmFile" \notin Recorded THEN wire
                 ELSE [wire EXCEPT ![s] = Append(@, Unit("UdmFile"))]
  BY <1>1 DEF clientVars, Write, Fits, Unit
<1>7. Unit("UdmFile") \in Units /\ Unit("UdmFile").kind = "UdmFile"
  BY DEF Units, Answers, Unit
<1>8. UdmAt(s)'
  <2>1. CASE ~(torn[s] \/ "UdmFile" \notin Recorded)
    <3>1. Written(s, Unit("UdmFile"))
      BY <1>5, <1>7, <2>1 DEF Written
    <3> QED
      BY <1>2, <1>7, <3>1, WrittenUdm DEF UdmInv
  <2>2. CASE torn[s] \/ "UdmFile" \notin Recorded
    <3>1. UNCHANGED wire
      BY <1>5, <2>2
    <3>2. \A k \in 1..Len(wire[s]) : wire[s][k].kind = "Udm" =>
            /\ "Udm" \in Recorded
            /\ k < Len(wire[s]) => wire[s][k + 1].kind = "UdmFile"
            /\ k # Len(wire[s])
      BY <1>2, <1>5, <2>2, SessionsAssumption DEF UdmInv, UdmAt, SessionsAssumption
    <3> QED
      BY <3>1, <3>2 DEF UdmAt
  <2> QED
    BY <2>1, <2>2
<1>9. ASSUME NEW x \in Conns \ {s}
      PROVE  UdmAt(x)'
  <2>1. wire'[x] = wire[x]
    BY <1>2, <1>5 DEF StreamTypes
  <2> QED
    BY <1>1, <1>3, <1>5, <2>1, QuietUdm DEF UdmInv
<1> QED
  BY <1>2, <1>8, <1>9 DEF UdmInv

LEMMA StepKeepsUdm ==
  ASSUME SessInv, UdmInv, [Next]_vars
  PROVE  UdmInv'
<1>1. ThreadTypes /\ StreamTypes /\ ClientTypes /\ TurnInv
  BY SessHas
<1>2. ASSUME NEW c \in Conns, AnswerStep(c)
      PROVE  UdmInv'
  <2>1. PICK kind \in Answers1, l \in PCs :
          /\ pc[c] \in Answering /\ StreamFree(str[c]) /\ Write(str[c], Unit(kind))
          /\ pc' = [pc EXCEPT ![c] = l] /\ UNCHANGED <<str, clientVars>>
    BY <1>2, AnswerIs
  <2>2. str[c] \in Conns
    BY <1>1, <2>1 DEF TurnInv, Serving, Answering
  <2>3. Unit(kind) \in Units /\ Unit(kind).kind # "Udm"
    BY DEF Units, Unit, Answers, Answers1
  <2>4. Written(str[c], Unit(kind)) \/ Unwritten(str[c])
    BY <1>1, <2>1, <2>2, WriteIs
  <2>5. \A d \in Conns : pc[d] = "udmfile" => pc'[d] = "udmfile" /\ str'[d] = str[d]
    BY <1>1, <2>1 DEF ThreadTypes, Answering
  <2> QED
    BY <2>1, <2>2, <2>3, <2>4, <2>5, FreeWriteUdm DEF clientVars
<1>3. ASSUME NEW c \in Conns, NEW to \in todo[c], SendTo(c, to)
      PROVE  UdmInv'
  <2>1. UNCHANGED <<pc, str, open>>
    BY <1>3 DEF SendTo, clientVars
  <2>2. CASE UNCHANGED <<wire, torn>>
    BY <2>1, <2>2, QuietUdm DEF UdmInv
  <2>3. CASE StreamFree(to.conn) /\ Unwritten(to.conn)
    <3>1. to.conn \in Conns /\ Unit("Seed") \in Units /\ Unit("Seed").kind # "Udm"
      BY ToIs DEF Units, Unit, Answers
    <3> QED
      BY <2>1, <2>3, <3>1, FreeWriteUdm
  <2>4. CASE StreamFree(to.conn) /\ Written(to.conn, msg[c]) /\ msg[c] \in Message
    <3>1. to.conn \in Conns /\ msg[c] \in Units /\ msg[c].kind # "Udm"
      BY <2>4, ToIs, SessionsAssumption DEF Units, Message, SessionsAssumption
    <3> QED
      BY <2>1, <2>4, <3>1, FreeWriteUdm
  <2> QED
    BY <1>3, <2>2, <2>3, <2>4, SentIs
<1>4. ASSUME NEW c \in Conns, SendUdmHeader(c) \/ SendUdmFile(c)
      PROVE  UdmInv'
  <2>1. pc[c] \in Serving
    BY <1>4 DEF SendUdmHeader, SendUdmFile, Serving
  <2>2. str[c] \in Conns
    BY <1>1, <2>1 DEF TurnInv
  <2> QED
    BY <1>4, <2>2, HeaderUdm, FileUdm
<1>5. ASSUME NEW c \in Conns, UdmFails(c)
      PROVE  UdmInv'
  <2>1. /\ pc' = [pc EXCEPT ![c] = "dead"] /\ ~open[str[c]]
        /\ UNCHANGED <<str, wire, torn, open>>
    BY <1>5 DEF UdmFails, Goto, clientVars
  <2>2. \A d \in Conns \ {c} : pc'[d] = pc[d]
    BY <1>1, <2>1 DEF ThreadTypes
  <2>3. ASSUME NEW x \in Conns
        PROVE  UdmAt(x)'
    BY <2>1, <2>2, QuietUdm DEF UdmInv
  <2> QED
    BY <2>3 DEF UdmInv
<1>6. ASSUME NEW c \in Conns, Client(c)
      PROVE  UdmInv'
  <2>1. UNCHANGED <<pc, str, wire, torn>>
    BY <1>6 DEF Client, ClientSend, ClientRead, ClientClose, threadVars, streamVars
  <2>2. \A x \in Conns : open'[x] => open[x]
    BY <1>1, <1>6 DEF Client, ClientSend, ClientRead, ClientClose, clientVars, ClientTypes
  <2> QED
    BY <2>1, <2>2, QuietUdm DEF UdmInv
<1>7. ASSUME NEW c \in Conns,
             \/ (\E i \in Ids : Accept(c, i)) \/ Refuse(c) \/ Lookup(c) \/ Read(c)
             \/ PlayerUpdate(c) \/ BeginUdm(c) \/ BeginSend(c) \/ EndSend(c) \/ Remove(c)
      PROVE  UdmInv'
  <2>1. /\ UNCHANGED <<wire, torn, open>> /\ pc[c] # "udmfile"
        /\ \E l : pc' = [pc EXCEPT ![c] = l]
        /\ \E l : str' = [str EXCEPT ![c] = l]
    <3>1. str = [str EXCEPT ![c] = str[c]]
      BY <1>1 DEF ThreadTypes
    <3>2. CASE \/ (\E i \in Ids : Accept(c, i)) \/ Refuse(c) \/ PlayerUpdate(c)
      BY <3>1, <3>2 DEF Accept, Refuse, PlayerUpdate, Goto, streamVars, clientVars
    <3>3. CASE Lookup(c) \/ Read(c) \/ BeginUdm(c)
      BY <3>1, <3>3 DEF Lookup, Read, BeginUdm, Goto, streamVars, clientVars
    <3>4. CASE BeginSend(c) \/ EndSend(c) \/ Remove(c)
      BY <3>1, <3>4 DEF BeginSend, EndSend, Remove, Goto, streamVars, clientVars
    <3> QED
      BY <1>7, <3>2, <3>3, <3>4
  <2>2. \A d \in Conns : pc[d] = "udmfile" => pc'[d] = "udmfile" /\ str'[d] = str[d]
    BY <1>1, <2>1 DEF ThreadTypes
  <2> QED
    BY <2>1, <2>2, QuietUdm DEF UdmInv
<1>8. CASE UNCHANGED vars
  BY <1>8, QuietUdm DEF UdmInv, vars, threadVars, streamVars, clientVars
<1>9. CASE Next
  BY <1>2, <1>3, <1>4, <1>5, <1>6, <1>7, <1>9, StepIs
<1> QED
  BY <1>8, <1>9

(* A client that joins gets the world file whole, and no broadcast before  *)
(* its own first PlayerUpdate, whatever the threads of the others do       *)
(* meanwhile; the exception is a session that the PlayerUpdate of an older *)
(* connection made ready, and it needs two threads that serve the id at    *)
(* once (main.rs:152-168, 267-270, 434-441).                               *)
THEOREM JoiningIsSafe == Spec => []JoinsWell
<1>1. Init => UdmInv /\ JoinInv /\ EarlyInv
  <2> SUFFICES ASSUME Init
               PROVE  UdmInv /\ JoinInv /\ EarlyInv
    OBVIOUS
  <2>1. \A x \in Conns : Len(wire[x]) = 0
    BY DEF Init
  <2>2. (\A i \in Ids : clients[i] = Absent) /\ early = {}
    BY DEF Init
  <2>3. \A c \in Conns : pc[c] \notin Serving
    BY DEF Init, Serving
  <2> QED
    BY <2>1, <2>2, <2>3
       DEF UdmInv, UdmAt, JoinInv, JoinUndisturbed, ReadyInv, Ready, EarlyInv,
           EarlyOnlyByTwins, FoundOwn
<1>2. SessInv /\ UdmInv /\ JoinInv /\ EarlyInv /\ [Next]_vars
        => UdmInv' /\ JoinInv' /\ EarlyInv'
  BY StepKeepsUdm, StepKeepsJoining, StepKeepsEarly
<1>3. SessInv /\ UdmInv /\ JoinInv /\ EarlyInv => JoinsWell
  <2> SUFFICES ASSUME SessInv, UdmInv, JoinInv, EarlyInv,
                      NEW c \in Conns, NEW k \in 1..Len(wire[c]), wire[c][k].kind = "Udm"
               PROVE  IF k < Len(wire[c]) THEN wire[c][k + 1].kind = "UdmFile"
                                          ELSE ~StreamFree(c) \/ ~open[c]
    BY DEF JoinsWell, UdmWhole, JoinInv, EarlyInv
  <2>1. CASE k < Len(wire[c])
    BY <2>1 DEF UdmInv, UdmAt
  <2>2. CASE ~(k < Len(wire[c]))
    <3>1. Len(wire[c]) \in Nat
      BY SessHas, LenProperties DEF StreamTypes
    <3>2. k = Len(wire[c])
      BY <2>2, <3>1
    <3>3. ~open[c] \/ \E d \in Conns : pc[d] = "udmfile" /\ str[d] = c
      BY <3>2 DEF UdmInv, UdmAt
    <3> QED
      BY <2>2, <3>3, FreeOfTransfers DEF Transfer
  <2> QED
    BY <2>1, <2>2
<1> QED
  BY <1>1, <1>2, <1>3, SessAlways, PTL DEF Spec

----------------------------------------------------------------------------
(* One order.                                                              *)

(* A message has one place to be: in an inbox, or with one thread.         *)
Numbered ==
  /\ \A s \in Conns : \A k \in 1..Len(inbox[s]) :
       /\ inbox[s][k].n <= sent
       /\ \A t \in Conns : \A l \in 1..Len(inbox[t]) :
            inbox[s][k].n = inbox[t][l].n => s = t /\ k = l
       /\ \A c \in Conns : msg[c].n # inbox[s][k].n
  /\ \A c \in Conns : msg[c].n <= sent
  /\ \A c, d \in Conns : msg[c] # None /\ msg[c].n = msg[d].n => c = d

(* A message on a wire is there once.  One that a thread still holds is    *)
(* being sent: it is the last on that wire, and the thread is done with it.*)
Heard ==
  \A x \in Conns : \A k \in Broadcasts(x) :
    /\ wire[x][k].n <= sent
    /\ \A s \in Conns : \A l \in 1..Len(inbox[s]) : wire[x][k].n # inbox[s][l].n
    /\ \A l \in Broadcasts(x) : wire[x][l].n = wire[x][k].n => l = k
    /\ \A c \in Conns : wire[x][k].n = msg[c].n =>
         /\ pc[c] = "sending"
         /\ \A l \in Broadcasts(x) : l <= k
         /\ \A to \in todo[c] : to.conn # x

OrderInv == Numbered /\ Heard /\ SameOrder

SameBroadcasts ==
  \A x \in Conns : /\ Broadcasts(x)' = Broadcasts(x)
                   /\ \A k \in Broadcasts(x) : wire'[x][k] = wire[x][k]

LEMMA QuietWires == ASSUME UNCHANGED wire PROVE SameBroadcasts
BY DEF SameBroadcasts, Broadcasts

LEMMA OrderStays ==
  ASSUME SameBroadcasts, SameOrder
  PROVE  SameOrder'
<1> SUFFICES ASSUME NEW c \in Conns, NEW d \in Conns,
                    NEW k \in Broadcasts(c), NEW m \in Broadcasts(d),
                    NEW k2 \in Broadcasts(c), NEW m2 \in Broadcasts(d),
                    wire'[c][k] = wire'[d][m], wire'[c][k2] = wire'[d][m2],
                    k2 > k, m2 < m
             PROVE  FALSE
  BY DEF SameOrder, SameBroadcasts
<1>1. /\ wire'[c][k] = wire[c][k] /\ wire'[c][k2] = wire[c][k2]
      /\ wire'[d][m] = wire[d][m] /\ wire'[d][m2] = wire[d][m2]
  BY DEF SameBroadcasts
<1>2. wire[c][k] = wire[d][m] /\ wire[c][k2] = wire[d][m2]
  BY <1>1
<1> QED
  BY <1>2 DEF SameOrder

LEMMA HeardStays ==
  ASSUME UNCHANGED wire, Heard,
         \A x \in Conns : \A k \in Broadcasts(x) :
           /\ wire[x][k].n <= sent'
           /\ \A s \in Conns : \A l \in 1..Len(inbox'[s]) : wire[x][k].n # inbox'[s][l].n
           /\ \A c \in Conns : wire[x][k].n = msg'[c].n =>
                /\ pc'[c] = "sending"
                /\ \A l \in Broadcasts(x) : l <= k
                /\ \A to \in todo'[c] : to.conn # x
  PROVE  Heard'
<1>1. \A x \in Conns : Broadcasts(x)' = Broadcasts(x)
  BY DEF Broadcasts
<1>2. \A x \in Conns : \A k, l \in Broadcasts(x) : wire[x][l].n = wire[x][k].n => l = k
  BY DEF Heard
<1> QED
  BY <1>1, <1>2 DEF Heard

LEMMA AnswerWires ==
  ASSUME SessInv, NEW s \in Conns, NEW a \in Answers, Written(s, Unit(a))
  PROVE  SameBroadcasts
<1>1. StreamTypes /\ Unit(a) \in Units /\ Unit(a).kind \in Answers
  BY SessHas DEF Units, Unit
<1>2. /\ \A x \in Conns \ {s} : Broadcasts(x)' = Broadcasts(x)
      /\ Broadcasts(s)' = Broadcasts(s)
  BY <1>1, BroadcastsAfter
<1>3. /\ \A x \in Conns \ {s} : wire'[x] = wire[x]
      /\ \A k \in 1..Len(wire[s]) : wire'[s][k] = wire[s][k]
  BY <1>1, WrittenIs
<1>4. ASSUME NEW x \in Conns, NEW k \in Broadcasts(x)
      PROVE  wire'[x][k] = wire[x][k]
  BY <1>3 DEF Broadcasts
<1>5. ASSUME NEW x \in Conns
      PROVE  Broadcasts(x)' = Broadcasts(x)
  BY <1>2
<1> QED
  BY <1>4, <1>5 DEF SameBroadcasts

LEMMA BroadcastsAre ==
  ASSUME SessInv, NEW x \in Conns, NEW k \in Broadcasts(x)
  PROVE  k \in 1..Len(wire[x]) /\ k \in Nat /\ wire[x][k] \in Message /\ wire[x][k].n \in 1..MaxMsgs
<1>1. wire[x] \in Seq(Units)
  BY SessHas DEF StreamTypes, Units
<1>2. k \in 1..Len(wire[x]) /\ wire[x][k].kind \notin Answers /\ Len(wire[x]) \in Nat
  BY <1>1, LenProperties DEF Broadcasts
<1>3. wire[x][k] \in Units
  BY <1>1, <1>2, ElementOfSeq
<1>4. wire[x][k] \in Message
  BY <1>2, <1>3 DEF Units, Unit
<1> QED
  BY <1>2, <1>4 DEF Message

LEMMA InboxIs ==
  ASSUME SessInv, NEW s \in Conns
  PROVE  /\ inbox \in [Conns -> Seq(Message)] /\ Len(inbox[s]) \in Nat
         /\ \A k \in 1..Len(inbox[s]) : inbox[s][k] \in Message /\ inbox[s][k].n \in 1..MaxMsgs
<1>1. inbox \in [Conns -> Seq(Message)] /\ inbox[s] \in Seq(Message)
  BY SessHas DEF ClientTypes
<1>2. \A k \in 1..Len(inbox[s]) : inbox[s][k] \in Message
  BY <1>1, ElementOfSeq
<1>3. \A k \in 1..Len(inbox[s]) : inbox[s][k].n \in 1..MaxMsgs
  BY <1>2 DEF Message
<1> HIDE DEF Message
<1> QED
  BY <1>1, <1>2, <1>3, LenProperties

LEMMA QuietOrder ==
  ASSUME OrderInv, SameBroadcasts, UNCHANGED <<inbox, msg, sent>>,
         \A c \in Conns : pc[c] = "sending" => pc'[c] = "sending" /\ todo'[c] \subseteq todo[c]
  PROVE  OrderInv'
<1>1. Numbered'
  BY DEF OrderInv, Numbered
<1>2. Heard'
  <2> SUFFICES ASSUME NEW x \in Conns, NEW k \in Broadcasts(x)
               PROVE  /\ wire'[x][k].n <= sent
                      /\ \A s \in Conns : \A l \in 1..Len(inbox[s]) :
                           wire'[x][k].n # inbox[s][l].n
                      /\ \A l \in Broadcasts(x) : wire'[x][l].n = wire'[x][k].n => l = k
                      /\ \A c \in Conns : wire'[x][k].n = msg[c].n =>
                           /\ pc'[c] = "sending"
                           /\ \A l \in Broadcasts(x) : l <= k
                           /\ \A to \in todo'[c] : to.conn # x
    BY DEF Heard, SameBroadcasts
  <2>1. wire'[x][k] = wire[x][k] /\ \A l \in Broadcasts(x) : wire'[x][l] = wire[x][l]
    BY DEF SameBroadcasts
  <2> QED
    BY <2>1 DEF OrderInv, Heard
<1>3. SameOrder'
  BY OrderStays DEF OrderInv
<1> QED
  BY <1>1, <1>2, <1>3 DEF OrderInv

LEMMA SentOrder ==
  ASSUME SessInv, OrderInv, NEW c \in Conns, NEW to \in todo[c], SendTo(c, to),
         Written(to.conn, msg[c]), msg[c] \in Message
  PROVE  OrderInv'
<1> DEFINE s == to.conn
           e == Len(wire[s]) + 1
<1>1. /\ UNCHANGED <<pc, msg, inbox, sent>> /\ todo' = [todo EXCEPT ![c] = @ \ {to}]
  BY DEF SendTo, clientVars
<1>2. StreamTypes /\ ThreadTypes /\ LockInv
  BY SessHas
<1>3. s \in Conns /\ pc[c] = "sending" /\ idOf[s] = to.id
  BY ToIs
<1>4. msg[c] \in Units /\ msg[c].kind \notin Answers /\ msg[c] # None
  BY SessionsAssumption DEF SessionsAssumption, Units, Message, Answers, None, Unit
<1>5. /\ \A x \in Conns \ {s} : Broadcasts(x)' = Broadcasts(x) /\ wire'[x] = wire[x]
      /\ Broadcasts(s)' = Broadcasts(s) \cup {e}
      /\ \A k \in 1..Len(wire[s]) : wire'[s][k] = wire[s][k]
      /\ wire'[s][e] = msg[c] /\ Len(wire[s]) \in Nat
  BY <1>2, <1>3, <1>4, BroadcastsAfter, WrittenIs
<1>6. \A k \in Broadcasts(s) : k < e /\ k \in Nat /\ wire'[s][k] = wire[s][k]
  BY <1>3, <1>5, BroadcastsAre
<1>7. \A k \in Broadcasts(s) : wire[s][k].n # msg[c].n
  BY <1>3 DEF OrderInv, Heard
<1>8. \A d \in Conns : pc[d] = "sending" => d = c
  BY <1>2, <1>3 DEF LockInv
<1>9. \A to2 \in todo'[c] : to2.conn # s
  <2>1. ASSUME NEW to2 \in todo[c], to2.conn = s
        PROVE  to2 = to
    <3>1. to2.id = to.id
      BY <1>3, <2>1, ToIs
    <3>2. to \in [id : Ids, conn : Conns] /\ to2 \in [id : Ids, conn : Conns]
      BY <1>2 DEF ThreadTypes
    <3> QED
      BY <2>1, <3>1, <3>2
  <2>2. todo'[c] = todo[c] \ {to}
    BY <1>1, <1>2 DEF ThreadTypes
  <2> QED
    BY <2>1, <2>2
<1>10. \A d \in Conns : todo'[d] \subseteq todo[d]
  BY <1>1, <1>2 DEF ThreadTypes
<1>11. Numbered'
  BY <1>1 DEF OrderInv, Numbered
<1> HIDE DEF s, e
<1>12. Heard'
  <2> SUFFICES ASSUME NEW x \in Conns, NEW k \in Broadcasts(x)'
               PROVE  /\ wire'[x][k].n <= sent
                      /\ \A t \in Conns : \A l \in 1..Len(inbox[t]) :
                           wire'[x][k].n # inbox[t][l].n
                      /\ \A l \in Broadcasts(x)' : wire'[x][l].n = wire'[x][k].n => l = k
                      /\ \A d \in Conns : wire'[x][k].n = msg[d].n =>
                           /\ pc[d] = "sending"
                           /\ \A l \in Broadcasts(x)' : l <= k
                           /\ \A to2 \in todo'[d] : to2.conn # x
    BY <1>1 DEF Heard
  <2>1. CASE x # s
    BY <1>5, <1>10, <2>1 DEF OrderInv, Heard
  <2>2. CASE x = s /\ k \in Broadcasts(s)
    <3>1. wire'[s][k] = wire[s][k] /\ wire[s][k].n # msg[c].n
      BY <1>6, <1>7, <2>2
    <3>2. ASSUME NEW l \in Broadcasts(s)', wire'[s][l].n = wire'[s][k].n
          PROVE  l = k
      <4>1. l # e
        BY <1>5, <3>1, <3>2
      <4>2. l \in Broadcasts(s) /\ wire'[s][l] = wire[s][l]
        BY <1>5, <1>6, <4>1
      <4> QED
        BY <1>3, <2>2, <3>1, <3>2, <4>2 DEF OrderInv, Heard
    <3>3. ASSUME NEW d \in Conns, wire'[s][k].n = msg[d].n
          PROVE  FALSE
      <4>1. pc[d] = "sending"
        BY <1>3, <2>2, <3>1, <3>3 DEF OrderInv, Heard
      <4> QED
        BY <1>8, <3>1, <3>3, <4>1
    <3>4. wire[s][k].n <= sent
          /\ \A t \in Conns : \A l \in 1..Len(inbox[t]) : wire[s][k].n # inbox[t][l].n
      BY <1>3, <2>2 DEF OrderInv, Heard
    <3> QED
      BY <2>2, <3>1, <3>2, <3>3, <3>4
  <2>3. CASE x = s /\ k = e
    <3>1. wire'[s][k] = msg[c]
      BY <1>5, <2>3
    <3>2. msg[c].n <= sent /\ \A t \in Conns : \A l \in 1..Len(inbox[t]) : msg[c].n # inbox[t][l].n
      BY DEF OrderInv, Numbered
    <3>3. ASSUME NEW l \in Broadcasts(s)', wire'[s][l].n = msg[c].n
          PROVE  l = k
      BY <1>5, <1>6, <1>7, <2>3, <3>3
    <3>4. ASSUME NEW d \in Conns, msg[c].n = msg[d].n
          PROVE  d = c
      BY <1>4, <3>4 DEF OrderInv, Numbered
    <3>5. \A l \in Broadcasts(s)' : l <= e
      BY <1>5, <1>6 DEF e
    <3> QED
      BY <1>3, <1>9, <2>3, <3>1, <3>2, <3>3, <3>4, <3>5
  <2> QED
    BY <1>5, <2>1, <2>2, <2>3
<1>13. SameOrder'
  <2> SUFFICES ASSUME NEW a \in Conns, NEW b \in Conns,
                      NEW k \in Broadcasts(a)', NEW m \in Broadcasts(b)',
                      NEW k2 \in Broadcasts(a)', NEW m2 \in Broadcasts(b)',
                      wire'[a][k] = wire'[b][m], wire'[a][k2] = wire'[b][m2],
                      k2 > k, m2 < m
               PROVE  FALSE
    BY DEF SameOrder
  <2>1. ASSUME NEW x \in Conns, NEW i \in Broadcasts(x)'
        PROVE  \/ i \in Broadcasts(x) /\ wire'[x][i] = wire[x][i]
               \/ x = s /\ i = e /\ wire'[x][i] = msg[c]
    BY <1>5, <1>6
  <2>2. ASSUME NEW x \in Conns, NEW i \in Broadcasts(x)', NEW j \in Broadcasts(x)',
               wire'[x][i] = msg[c], j > i
        PROVE  FALSE
    <3>1. CASE x = s
      BY <1>5, <1>6, <1>7, <2>2, <3>1 DEF e
    <3>2. CASE x # s
      BY <1>5, <2>2, <3>2, BroadcastsAre DEF OrderInv, Heard
    <3> QED
      BY <3>1, <3>2
  <2>3. wire'[a][k] # msg[c] /\ wire'[b][m2] # msg[c]
    BY <2>2
  <2>4. k \in Broadcasts(a) /\ k2 \in Broadcasts(a) /\ m \in Broadcasts(b) /\ m2 \in Broadcasts(b)
        /\ wire[a][k] = wire[b][m] /\ wire[a][k2] = wire[b][m2]
    BY <2>1, <2>3
  <2> QED
    BY <2>4 DEF OrderInv, SameOrder
<1> QED
  BY <1>11, <1>12, <1>13 DEF OrderInv

LEMMA SendNewOrder ==
  ASSUME SessInv, OrderInv, NEW c \in Conns, ClientSend(c)
  PROVE  OrderInv'
<1>1. PICK kind \in Requests :
        inbox' = [inbox EXCEPT ![c] = Append(@, [kind |-> kind, n |-> sent + 1])]
  BY DEF ClientSend
<1>2. sent' = sent + 1 /\ sent < MaxMsgs /\ UNCHANGED <<pc, msg, todo, wire>>
  BY DEF ClientSend, threadVars, streamVars
<1>3. sent \in Nat /\ MaxMsgs \in Nat
  BY SessHas, SessionsAssumption DEF ClientTypes, SessionsAssumption
<1> DEFINE new == [kind |-> kind, n |-> sent + 1]
<1>4. new \in Message /\ new.n = sent + 1
  BY <1>2, <1>3 DEF Message
<1> HIDE DEF new
<1>5. /\ Len(inbox'[c]) = Len(inbox[c]) + 1 /\ Len(inbox[c]) \in Nat
      /\ \A k \in 1..Len(inbox[c]) : inbox'[c][k] = inbox[c][k]
      /\ inbox'[c][Len(inbox[c]) + 1] = new
      /\ \A s \in Conns \ {c} : inbox'[s] = inbox[s]
  <2>1. inbox \in [Conns -> Seq(Message)] /\ Len(inbox[c]) \in Nat
    BY InboxIs
  <2>2. inbox[c] \in Seq(Message)
    BY <2>1
  <2> HIDE DEF Message
  <2>3. /\ Len(Append(inbox[c], new)) = Len(inbox[c]) + 1
        /\ \A k \in 1..Len(inbox[c]) : Append(inbox[c], new)[k] = inbox[c][k]
        /\ Append(inbox[c], new)[Len(inbox[c]) + 1] = new
    BY <1>4, <2>2, AppendProperties
  <2>4. inbox'[c] = Append(inbox[c], new) /\ \A s \in Conns \ {c} : inbox'[s] = inbox[s]
    BY <1>1, <2>1 DEF new
  <2> QED
    BY <2>1, <2>3, <2>4
<1>6. ASSUME NEW s \in Conns, NEW k \in 1..Len(inbox'[s])
      PROVE  \/ k \in 1..Len(inbox[s]) /\ inbox'[s][k] = inbox[s][k]
             \/ s = c /\ k = Len(inbox[c]) + 1 /\ inbox'[s][k].n = sent + 1
  BY <1>4, <1>5
<1>7. /\ \A s \in Conns : \A k \in 1..Len(inbox[s]) : inbox[s][k].n \in Nat /\ inbox[s][k].n <= sent
      /\ \A d \in Conns : msg[d].n \in Nat /\ msg[d].n <= sent
      /\ \A x \in Conns : \A k \in Broadcasts(x) : wire[x][k].n \in Nat /\ wire[x][k].n <= sent
  <2>1. \A d \in Conns : msg[d].n \in Nat
    BY SessHas DEF ThreadTypes, Message, None, Unit
  <2>2. \A s \in Conns : \A k \in 1..Len(inbox[s]) : inbox[s][k].n \in Nat
    BY InboxIs
  <2>3. \A x \in Conns : \A k \in Broadcasts(x) : wire[x][k].n \in Nat
    BY BroadcastsAre
  <2> QED
    BY <2>1, <2>2, <2>3 DEF OrderInv, Numbered, Heard
<1>8. Numbered'
  <2>1. ASSUME NEW s \in Conns, NEW k \in 1..Len(inbox'[s])
        PROVE  inbox'[s][k].n <= sent'
    BY <1>2, <1>3, <1>6, <1>7
  <2>2. ASSUME NEW s \in Conns, NEW k \in 1..Len(inbox'[s]),
               NEW t \in Conns, NEW l \in 1..Len(inbox'[t]),
               inbox'[s][k].n = inbox'[t][l].n
        PROVE  s = t /\ k = l
    <3>1. CASE /\ k \in 1..Len(inbox[s]) /\ inbox'[s][k] = inbox[s][k]
               /\ l \in 1..Len(inbox[t]) /\ inbox'[t][l] = inbox[t][l]
      BY <2>2, <3>1 DEF OrderInv, Numbered
    <3>2. CASE \/ s = c /\ k = Len(inbox[c]) + 1 /\ inbox'[s][k].n = sent + 1
               \/ t = c /\ l = Len(inbox[c]) + 1 /\ inbox'[t][l].n = sent + 1
      <4>1. \A i \in Conns : \A j \in 1..Len(inbox[i]) : inbox[i][j].n # sent + 1
        BY <1>3, <1>7
      <4> QED
        BY <1>6, <2>2, <3>2, <4>1
    <3> QED
      BY <1>6, <3>1, <3>2
  <2>3. ASSUME NEW s \in Conns, NEW k \in 1..Len(inbox'[s]), NEW d \in Conns
        PROVE  msg[d].n # inbox'[s][k].n
    <3>1. msg[d].n # sent + 1
      BY <1>3, <1>7
    <3> QED
      BY <1>6, <3>1 DEF OrderInv, Numbered
  <2>4. \A d \in Conns : msg[d].n <= sent'
    BY <1>2, <1>3, <1>7
  <2>5. \A d, e \in Conns : msg[d] # None /\ msg[d].n = msg[e].n => d = e
    BY DEF OrderInv, Numbered
  <2> QED
    BY <1>2, <2>1, <2>2, <2>3, <2>4, <2>5 DEF Numbered
<1>9. Heard'
  <2>1. ASSUME NEW x \in Conns, NEW k \in Broadcasts(x)
        PROVE  /\ wire[x][k].n <= sent'
               /\ \A s \in Conns : \A l \in 1..Len(inbox'[s]) :
                    wire[x][k].n # inbox'[s][l].n
               /\ \A d \in Conns : wire[x][k].n = msg'[d].n =>
                    /\ pc'[d] = "sending"
                    /\ \A l \in Broadcasts(x) : l <= k
                    /\ \A to \in todo'[d] : to.conn # x
    <3>1. wire[x][k].n <= sent' /\ wire[x][k].n # sent + 1
      BY <1>2, <1>3, <1>7
    <3>2. ASSUME NEW s \in Conns, NEW l \in 1..Len(inbox'[s])
          PROVE  wire[x][k].n # inbox'[s][l].n
      BY <1>6, <3>1 DEF OrderInv, Heard
    <3>3. \A d \in Conns : wire[x][k].n = msg[d].n =>
            /\ pc[d] = "sending"
            /\ \A l \in Broadcasts(x) : l <= k
            /\ \A to \in todo[d] : to.conn # x
      BY DEF OrderInv, Heard
    <3> QED
      BY <1>2, <3>1, <3>2, <3>3
  <2> QED
    BY <1>2, <2>1, HeardStays DEF OrderInv
<1>10. SameOrder'
  BY <1>2, QuietWires, OrderStays DEF OrderInv
<1> QED
  BY <1>8, <1>9, <1>10 DEF OrderInv

(* A thread without a message, at the end of a turn or with nothing to read*)
LEMMA EmptyOrder ==
  ASSUME SessInv, OrderInv, NEW c \in Conns,
         UNCHANGED <<wire, inbox, sent, todo>>, msg' = [msg EXCEPT ![c] = None],
         \A d \in Conns \ {c} : pc[d] = "sending" => pc'[d] = "sending"
  PROVE  OrderInv'
<1>1. msg'[c] = None /\ \A d \in Conns \ {c} : msg'[d] = msg[d]
  BY SessHas DEF ThreadTypes
<1>2. /\ None.n = 0 /\ sent \in Nat
      /\ \A d \in Conns : msg[d] # None => msg[d].n # 0
  BY SessHas DEF None, Unit, ThreadTypes, Message, ClientTypes
<1>3. /\ \A s \in Conns : \A k \in 1..Len(inbox[s]) : inbox[s][k].n # 0
      /\ \A x \in Conns : \A k \in Broadcasts(x) : wire[x][k].n # 0
  BY InboxIs, BroadcastsAre
<1>4. Numbered'
  <2>1. \A d, e \in Conns : msg'[d] # None /\ msg'[d].n = msg'[e].n => d = e
    BY <1>1, <1>2 DEF OrderInv, Numbered
  <2>2. /\ \A d \in Conns : msg'[d].n <= sent
        /\ \A s, d \in Conns : \A k \in 1..Len(inbox[s]) : msg'[d].n # inbox[s][k].n
    BY <1>1, <1>2, <1>3 DEF OrderInv, Numbered
  <2> QED
    BY <2>1, <2>2 DEF OrderInv, Numbered
<1>5. Heard'
  <2>1. ASSUME NEW x \in Conns, NEW k \in Broadcasts(x)
        PROVE  /\ wire[x][k].n <= sent
               /\ \A s \in Conns : \A l \in 1..Len(inbox[s]) : wire[x][k].n # inbox[s][l].n
               /\ \A d \in Conns : wire[x][k].n = msg'[d].n =>
                    /\ pc'[d] = "sending"
                    /\ \A l \in Broadcasts(x) : l <= k
                    /\ \A to \in todo[d] : to.conn # x
    BY <1>1, <1>2, <1>3 DEF OrderInv, Heard
  <2> QED
    BY <2>1, HeardStays DEF OrderInv
<1>6. SameOrder'
  BY QuietWires, OrderStays DEF OrderInv
<1> QED
  BY <1>4, <1>5, <1>6 DEF OrderInv

(* A thread takes the next message of a stream.                            *)
LEMMA TakeOrder ==
  ASSUME SessInv, OrderInv, NEW c \in Conns, pc[c] # "sending", NEW s \in Conns,
         inbox[s] # <<>>, UNCHANGED <<wire, sent, todo>>,
         msg' = [msg EXCEPT ![c] = Head(inbox[s])],
         inbox' = [inbox EXCEPT ![s] = Tail(@)],
         \A d \in Conns : pc[d] = "sending" => pc'[d] = "sending"
  PROVE  OrderInv'
<1>0. inbox \in [Conns -> Seq(Message)] /\ inbox[s] \in Seq(Message)
  BY InboxIs
<1>1. /\ msg'[c] = inbox[s][1] /\ 1 \in 1..Len(inbox[s])
      /\ \A d \in Conns \ {c} : msg'[d] = msg[d]
  <2> HIDE DEF Message
  <2>1. Head(inbox[s]) = inbox[s][1] /\ Len(inbox[s]) \in Nat \ {0}
    BY <1>0, HeadTailProperties, LenProperties, EmptySeq
  <2> QED
    BY <2>1, SessHas DEF ThreadTypes
<1>2. /\ Len(inbox'[s]) = Len(inbox[s]) - 1 /\ Len(inbox[s]) \in Nat
      /\ \A k \in 1..Len(inbox'[s]) : inbox'[s][k] = inbox[s][k + 1]
      /\ \A t \in Conns \ {s} : inbox'[t] = inbox[t]
  <2> HIDE DEF Message
  <2>1. inbox'[s] = Tail(inbox[s]) /\ \A t \in Conns \ {s} : inbox'[t] = inbox[t]
    BY <1>0
  <2>2. /\ Len(Tail(inbox[s])) = Len(inbox[s]) - 1
        /\ \A k \in 1..Len(Tail(inbox[s])) : Tail(inbox[s])[k] = inbox[s][k + 1]
    BY <1>0, HeadTailProperties
  <2> QED
    BY <1>0, <2>1, <2>2, LenProperties
<1> DEFINE at(t, k) == IF t = s THEN k + 1 ELSE k
<1>3. \A t \in Conns : \A k \in 1..Len(inbox'[t]) :
        /\ at(t, k) \in 1..Len(inbox[t]) /\ inbox'[t][k] = inbox[t][at(t, k)]
        /\ k \in Int /\ (t = s => at(t, k) # 1)
  BY <1>2, InboxIs
<1>7. \A t \in Conns, k, l \in Int : at(t, k) = at(t, l) => k = l
  OBVIOUS
<1>8. UNCHANGED sent
  OBVIOUS
<1> HIDE DEF at
<1>4. Numbered'
  <2>1. ASSUME NEW t \in Conns, NEW k \in 1..Len(inbox'[t]), NEW t2 \in Conns,
               NEW k2 \in 1..Len(inbox'[t2]), inbox'[t][k].n = inbox'[t2][k2].n
        PROVE  t = t2 /\ k = k2
    <3>1. /\ at(t, k) \in 1..Len(inbox[t]) /\ at(t2, k2) \in 1..Len(inbox[t2])
          /\ inbox[t][at(t, k)].n = inbox[t2][at(t2, k2)].n
      BY <1>3, <2>1
    <3>2. t = t2 /\ at(t, k) = at(t2, k2)
      BY <3>1 DEF OrderInv, Numbered
    <3> QED
      BY <1>3, <1>7, <3>2
  <2>2. ASSUME NEW t \in Conns, NEW k \in 1..Len(inbox'[t]), NEW d \in Conns
        PROVE  msg'[d].n # inbox'[t][k].n
    <3>1. CASE d = c
      <4>1. inbox[s][1].n = inbox[t][at(t, k)].n => s = t /\ 1 = at(t, k)
        BY <1>1, <1>3 DEF OrderInv, Numbered
      <4> QED
        BY <1>1, <1>3, <3>1, <4>1
    <3>2. CASE d # c
      BY <1>1, <1>3, <3>2 DEF OrderInv, Numbered
    <3> QED
      BY <3>1, <3>2
  <2>3. /\ \A t \in Conns : \A k \in 1..Len(inbox'[t]) : inbox'[t][k].n <= sent
        /\ \A d \in Conns : msg'[d].n <= sent
    BY <1>1, <1>3 DEF OrderInv, Numbered
  <2>4. ASSUME NEW d \in Conns, NEW e \in Conns, msg'[d] # None, msg'[d].n = msg'[e].n
        PROVE  d = e
    <3>1. \A i \in Conns : msg[i].n # inbox[s][1].n
      BY <1>1 DEF OrderInv, Numbered
    <3> QED
      BY <1>1, <2>4, <3>1 DEF OrderInv, Numbered
  <2>5. ASSUME NEW t \in Conns, NEW k \in 1..Len(inbox'[t])
        PROVE  /\ inbox'[t][k].n <= sent'
               /\ \A t2 \in Conns : \A k2 \in 1..Len(inbox'[t2]) :
                    inbox'[t][k].n = inbox'[t2][k2].n => t = t2 /\ k = k2
               /\ \A d \in Conns : msg'[d].n # inbox'[t][k].n
    <3>1. inbox'[t][k].n <= sent'
      BY <1>8, <2>3
    <3>2. \A t2 \in Conns : \A k2 \in 1..Len(inbox'[t2]) :
            inbox'[t][k].n = inbox'[t2][k2].n => t = t2 /\ k = k2
      BY <2>1, ZenonT(60)
    <3>3. \A d \in Conns : msg'[d].n # inbox'[t][k].n
      BY <2>2
    <3> QED
      BY <3>1, <3>2, <3>3
  <2>6. /\ \A d \in Conns : msg'[d].n <= sent'
        /\ \A d, e \in Conns : msg'[d] # None /\ msg'[d].n = msg'[e].n => d = e
    BY <1>8, <2>3, <2>4
  <2> QED
    BY <2>5, <2>6 DEF Numbered
<1>5. Heard'
  <2>1. ASSUME NEW x \in Conns, NEW k \in Broadcasts(x)
        PROVE  /\ wire[x][k].n <= sent
               /\ \A t \in Conns : \A l \in 1..Len(inbox'[t]) : wire[x][k].n # inbox'[t][l].n
               /\ \A d \in Conns : wire[x][k].n = msg'[d].n =>
                    /\ pc'[d] = "sending"
                    /\ \A l \in Broadcasts(x) : l <= k
                    /\ \A to \in todo[d] : to.conn # x
    <3>1. \A t \in Conns : \A l \in 1..Len(inbox'[t]) : wire[x][k].n # inbox'[t][l].n
      BY <1>3 DEF OrderInv, Heard
    <3>2. wire[x][k].n # msg'[c].n
      BY <1>1 DEF OrderInv, Heard
    <3>3. wire[x][k].n <= sent
      BY DEF OrderInv, Heard
    <3>4. \A d \in Conns \ {c} : wire[x][k].n = msg'[d].n =>
            /\ pc'[d] = "sending"
            /\ \A l \in Broadcasts(x) : l <= k
            /\ \A to \in todo[d] : to.conn # x
      BY <1>1 DEF OrderInv, Heard
    <3> QED
      BY <3>1, <3>2, <3>3, <3>4
  <2> QED
    BY <2>1, HeardStays, SMTT(60) DEF OrderInv
<1>6. SameOrder'
  BY QuietWires, OrderStays DEF OrderInv
<1> QED
  BY <1>4, <1>5, <1>6 DEF OrderInv

LEMMA ReadOrder ==
  ASSUME SessInv, OrderInv, NEW c \in Conns, Read(c)
  PROVE  OrderInv'
<1>1. /\ pc[c] = "read" /\ UNCHANGED <<wire, todo, sent>>
      /\ \E l : pc' = [pc EXCEPT ![c] = l]
  BY DEF Read, Goto, streamVars
<1>2. str[c] \in Conns /\ pc \in [Conns -> PCs]
  BY <1>1, SessHas DEF TurnInv, Serving, ThreadTypes
<1>3. \A d \in Conns : pc[d] = "sending" => pc'[d] = "sending"
  BY <1>1, <1>2
<1>4. CASE inbox[str[c]] # <<>>
  <2>1. /\ msg' = [msg EXCEPT ![c] = Head(inbox[str[c]])]
        /\ inbox' = [inbox EXCEPT ![str[c]] = Tail(@)]
    BY <1>4 DEF Read
  <2> QED
    BY <1>1, <1>2, <1>3, <1>4, <2>1, TakeOrder
<1>5. CASE inbox[str[c]] = <<>>
  <2>1. msg' = [msg EXCEPT ![c] = None] /\ UNCHANGED inbox
    BY <1>5 DEF Read
  <2> QED
    BY <1>1, <1>3, <2>1, EmptyOrder
<1> QED
  BY <1>4, <1>5

LEMMA EndOrder ==
  ASSUME SessInv, OrderInv, NEW c \in Conns, EndSend(c)
  PROVE  OrderInv'
<1>1. /\ msg' = [msg EXCEPT ![c] = None] /\ UNCHANGED <<wire, inbox, sent, todo>>
      /\ \E l : pc' = [pc EXCEPT ![c] = l]
  BY DEF EndSend, Goto, streamVars, clientVars
<1>2. \A d \in Conns \ {c} : pc'[d] = pc[d]
  BY <1>1, SessHas DEF ThreadTypes
<1> QED
  BY <1>1, <1>2, EmptyOrder

LEMMA StepKeepsOrder ==
  ASSUME SessInv, OrderInv, [Next]_vars
  PROVE  OrderInv'
<1>1. ThreadTypes
  BY SessHas
<1>2. ASSUME NEW c \in Conns, NEW to \in todo[c], SendTo(c, to)
      PROVE  OrderInv'
  <2>1. /\ UNCHANGED <<pc, msg, inbox, sent>> /\ todo' = [todo EXCEPT ![c] = @ \ {to}]
    BY <1>2 DEF SendTo, clientVars
  <2>2. \A d \in Conns : todo'[d] \subseteq todo[d]
    BY <1>1, <2>1 DEF ThreadTypes
  <2>3. CASE UNCHANGED wire
    BY <2>1, <2>2, <2>3, QuietWires, QuietOrder
  <2>4. CASE Written(to.conn, msg[c]) /\ msg[c] \in Message
    BY <1>2, <2>4, SentOrder
  <2> QED
    BY <1>2, <2>3, <2>4, SentIs DEF Unwritten
<1>3. ASSUME NEW c \in Conns,
             \/ (\E i \in Ids : Accept(c, i)) \/ Refuse(c) \/ Lookup(c)
             \/ PlayerUpdate(c) \/ AnswerStep(c)
             \/ BeginUdm(c) \/ SendUdmHeader(c) \/ SendUdmFile(c) \/ UdmFails(c)
             \/ Remove(c)
      PROVE  OrderInv'
  <2>1. /\ pc[c] # "sending" /\ UNCHANGED <<inbox, msg, sent, todo>>
        /\ \E l : pc' = [pc EXCEPT ![c] = l]
    <3>1. CASE AnswerStep(c)
      BY <3>1, AnswerIs DEF Answering, clientVars
    <3>2. CASE (\E i \in Ids : Accept(c, i)) \/ Refuse(c) \/ Lookup(c) \/ PlayerUpdate(c)
      BY <3>2 DEF Accept, Refuse, Lookup, PlayerUpdate, Goto, clientVars
    <3>3. CASE BeginUdm(c) \/ SendUdmHeader(c) \/ SendUdmFile(c) \/ UdmFails(c) \/ Remove(c)
      BY <3>3 DEF BeginUdm, SendUdmHeader, SendUdmFile, UdmFails, Remove, Goto, clientVars
    <3> QED
      BY <1>3, <3>1, <3>2, <3>3
  <2>2. \A d \in Conns : pc[d] = "sending" => pc'[d] = "sending" /\ todo'[d] \subseteq todo[d]
    BY <1>1, <2>1 DEF ThreadTypes
  <2>3. SameBroadcasts
    <3>1. CASE AnswerStep(c) \/ SendUdmHeader(c) \/ SendUdmFile(c)
      <4> QED
        BY <3>1, AnswerOnWire, QuietWires, AnswerWires
    <3>2. CASE ~(AnswerStep(c) \/ SendUdmHeader(c) \/ SendUdmFile(c))
      <4>1. UNCHANGED wire
        BY <1>3, <3>2 DEF Accept, Refuse, Lookup, PlayerUpdate, BeginUdm, UdmFails, Remove,
           streamVars
      <4> QED
        BY <4>1, QuietWires
    <3> QED
      BY <3>1, <3>2
  <2> QED
    BY <2>1, <2>2, <2>3, QuietOrder
<1>4. ASSUME NEW c \in Conns, Client(c)
      PROVE  OrderInv'
  <2>1. CASE ClientRead(c) \/ ClientClose(c)
    <3>1. UNCHANGED <<pc, msg, todo, wire, inbox, sent>>
      BY <2>1 DEF ClientRead, ClientClose, threadVars, streamVars, clientVars
    <3> QED
      BY <3>1, QuietWires, QuietOrder
  <2> QED
    BY <1>4, <2>1, SendNewOrder DEF Client
<1>5. ASSUME NEW c \in Conns, BeginSend(c)
      PROVE  OrderInv'
  <2>1. ClientsFree /\ UNCHANGED <<msg, inbox, sent, wire>>
    BY <1>5 DEF BeginSend, streamVars, clientVars
  <2> QED
    BY <2>1, NobodyInside, QuietWires, QuietOrder
<1>6. CASE UNCHANGED vars
  <2>1. UNCHANGED <<pc, msg, todo, wire, inbox, sent>>
    BY <1>6 DEF vars, threadVars, streamVars, clientVars
  <2> QED
    BY <2>1, QuietWires, QuietOrder
<1>7. CASE Next
  BY <1>2, <1>3, <1>4, <1>5, <1>7, StepIs, ReadOrder, EndOrder
<1> QED
  BY <1>6, <1>7

(* Two clients never hear two messages in opposite orders: the rebroadcast *)
(* writes a message to every session before another thread gets the map    *)
(* (main.rs:434-468), whatever is lost on full streams.                    *)
THEOREM OneOrder == Spec => []SameOrder
<1>1. Init => OrderInv
  <2> SUFFICES ASSUME Init
               PROVE  OrderInv
    OBVIOUS
  <2>1. \A x \in Conns : Len(wire[x]) = 0 /\ Len(inbox[x]) = 0
    BY DEF Init
  <2>2. ASSUME NEW x \in Conns
        PROVE  Broadcasts(x) = {}
    <3>1. 1..Len(wire[x]) = {}
      BY <2>1
    <3> QED
      BY <3>1 DEF Broadcasts
  <2>3. \A c \in Conns : msg[c] = None
    BY DEF Init
  <2>4. ASSUME NEW c \in Conns
        PROVE  msg[c].n <= sent
    <3>1. sent = 0 /\ None.n = 0
      BY DEF Init, None, Unit
    <3>2. msg[c].n = 0
      BY <2>3, <3>1, Zenon
    <3> QED
      BY <3>1, <3>2
  <2> QED
    BY <2>1, <2>2, <2>3, <2>4 DEF OrderInv, Numbered, Heard, SameOrder
<1>2. SessInv /\ OrderInv /\ [Next]_vars => OrderInv'
  BY StepKeepsOrder
<1>3. OrderInv => SameOrder
  BY DEF OrderInv
<1> QED
  BY <1>1, <1>2, <1>3, SessAlways, PTL DEF Spec
=============================================================================
