---------------------------- MODULE Certificates ----------------------------
(***************************************************************************)
(* The certificates of jeffy_quintet: how an endpoint gets its own         *)
(* (server/certificate.rs) and how a client that trusts on first use       *)
(* decides about it (client/certificate.rs, the end of                     *)
(* client/connection.rs).                                                  *)
(*                                                                         *)
(* Every connection loads the file of known hosts when it begins, decides  *)
(* by this copy, and when it stores a certificate writes the whole copy    *)
(* back, line by line over a truncated file.  Connections run as tasks of  *)
(* their own: one may load or write while another writes, the application  *)
(* may answer late, never, or leave, and either program may end at any     *)
(* point.                                                                  *)
(*                                                                         *)
(* A certificate is the number of its generation.  QUIC is external: an    *)
(* attempt reaches an endpoint that listens, or fails.  What a connection  *)
(* does after the handshake is in QuintetConnections.                      *)
(***************************************************************************)
EXTENDS Integers

CONSTANTS
  Hosts,      \* the endpoints, by their server name
  Modes,      \* the CertificateRetrievalModes the endpoints may have
  Configs,    \* the TrustOnFirstUseConfig the client may have
  MaxCerts,   \* bound: certificates generated per endpoint
  MaxDials,   \* bound: connections the client opens
  MaxRestarts \* bound: how often the client ends and starts

Retrievals == {"GenerateSelfSigned", "LoadFromFile", "LoadOrGenerate", "LoadOrSave"}
Statuses == {"Unknown", "Untrusted", "Trusted"}
Actions == {"AbortConnection", "TrustOnce", "TrustAndStore"}

ASSUME CertificatesAssumption ==
  /\ Hosts # {}
  /\ Modes \subseteq [Hosts -> Retrievals]
  /\ Configs \subseteq [Statuses -> Actions \cup {"RequestClientAction"}]
  /\ MaxCerts \in Nat \ {0} /\ MaxDials \in Nat \ {0} /\ MaxRestarts \in Nat

VARIABLES
  mode,       \* per endpoint, its CertificateRetrievalMode
  made,       \* per endpoint, the certificates generated so far
  certFile,   \* per endpoint, what cert_file holds
  keyFile,    \* per endpoint, what key_file holds
  saving,     \* per endpoint, the step of write_certs_to_files it is at
  serving,    \* per endpoint, the certificate it shows, 0 if it is down
  config,     \* verifier_behaviour
  file,       \* the file of known hosts
  att,        \* the connections: attempts to connect
  remembered, \* history: per host, the certificate stored last
  lost,       \* history: hosts whose line another writer or an end took away
  restarts    \* how often the client was restarted

serverVars == <<mode, made, certFile, keyFile, saving, serving>>
vars == <<serverVars, config, file, att, remembered, lost, restarts>>

Missing == 0
Torn == -1
Certs == 1..MaxCerts
Attempts == 1..MaxDials
NoCopy == [h \in Hosts |-> 0]
NotYet == [phase |-> "none", host |-> CHOOSE h \in Hosts : TRUE, store |-> NoCopy,
           cert |-> 0, unsure |-> {}, todo |-> {}, owned |-> TRUE]

Ended == {"accepted", "failed", "panicked", "gone"}
Writers == {a \in Attempts : att[a].phase = "writing"}

(* An endpoint begins without files or with both.                          *)
Init ==
  /\ mode \in Modes
  /\ made \in [Hosts -> {0, 1}]
  /\ \A h \in Hosts : mode[h] = "LoadFromFile" => made[h] = 1
  /\ \A h \in Hosts : mode[h] = "GenerateSelfSigned" => made[h] = 0
  /\ certFile = made /\ keyFile = made
  /\ saving = [h \in Hosts |-> "no"]
  /\ serving = [h \in Hosts |-> 0]
  /\ config \in Configs
  /\ file = [lines |-> {}, torn |-> FALSE, mixed |-> FALSE]
  /\ att = [a \in Attempts |-> NotYet]
  /\ remembered = NoCopy /\ lost = {} /\ restarts = 0

----------------------------------------------------------------------------
(* The endpoint.  A definition whose name ends in a bug's description is   *)
(* that bug planted in the definition after it: the properties below must  *)
(* not survive it.                                                         *)

BothExist(h) == certFile[h] # Missing /\ keyFile[h] # Missing

(* read_certs_from_files panics on a file that is there and incomplete.    *)
LoadsCertificate(h) ==
  /\ mode[h] # "GenerateSelfSigned" /\ BothExist(h)
  /\ certFile[h] # Torn /\ keyFile[h] # Torn
  /\ serving' = [serving EXCEPT ![h] = certFile[h]]
  /\ UNCHANGED <<made, saving>>

FirstStep_ServesAtOnce(h) == <<"no", made[h] + 1>>
(* With save_on_disk the endpoint starts after the files are written.      *)
FirstStep(h) == IF mode[h] = "LoadOrSave" THEN <<"cert", 0>> ELSE <<"no", made[h] + 1>>

GeneratesCertificate(h) ==
  /\ \/ mode[h] = "GenerateSelfSigned"
     \/ mode[h] \in {"LoadOrGenerate", "LoadOrSave"} /\ ~BothExist(h)
  /\ made[h] < MaxCerts
  /\ made' = [made EXCEPT ![h] = @ + 1]
  /\ saving' = [saving EXCEPT ![h] = FirstStep(h)[1]]
  /\ serving' = [serving EXCEPT ![h] = FirstStep(h)[2]]

(* retrieve_certificate at the start of an endpoint.                       *)
StartEndpoint(h) ==
  /\ serving[h] = 0 /\ saving[h] = "no"
  /\ LoadsCertificate(h) \/ GeneratesCertificate(h)
  /\ UNCHANGED <<mode, certFile, keyFile, config, file, att, remembered, lost,
                 restarts>>

(* write_certs_to_files: each write truncates the file first.              *)
WriteCertificate(h) ==
  /\ saving[h] = "cert"
  /\ IF certFile[h] = Torn
       THEN /\ certFile' = [certFile EXCEPT ![h] = made[h]]
            /\ saving' = [saving EXCEPT ![h] = "key"]
       ELSE /\ certFile' = [certFile EXCEPT ![h] = Torn]
            /\ UNCHANGED saving
  /\ UNCHANGED <<mode, made, keyFile, serving, config, file, att, remembered,
                 lost, restarts>>
WriteKey(h) ==
  /\ saving[h] = "key"
  /\ IF keyFile[h] = Torn
       THEN /\ keyFile' = [keyFile EXCEPT ![h] = made[h]]
            /\ saving' = [saving EXCEPT ![h] = "no"]
            /\ serving' = [serving EXCEPT ![h] = made[h]]
       ELSE /\ keyFile' = [keyFile EXCEPT ![h] = Torn]
            /\ UNCHANGED <<saving, serving>>
  /\ UNCHANGED <<mode, made, certFile, config, file, att, remembered, lost,
                 restarts>>

(* stop_endpoint, or the end of the server's program at any step.          *)
StopsOrEnds(h) ==
  /\ serving[h] # 0 \/ saving[h] # "no"
  /\ serving' = [serving EXCEPT ![h] = 0]
  /\ saving' = [saving EXCEPT ![h] = "no"]
  /\ UNCHANGED <<mode, made, certFile, keyFile, config, file, att, remembered,
                 lost, restarts>>

----------------------------------------------------------------------------
(* The client.                                                             *)
Becomes(a, phase) == att' = [att EXCEPT ![a].phase = phase]
ClientOnly == UNCHANGED <<serverVars, config, restarts>>

(* open_connection spawns async_connection_task.                           *)
Open(a, h) ==
  /\ att[a].phase = "none" /\ \A b \in 1..(a - 1) : att[b].phase # "none"
  /\ att' = [att EXCEPT ![a].phase = "dialing", ![a].host = h]
  /\ ClientOnly /\ UNCHANGED <<file, remembered, lost>>

(* What a reader may make of the file: the lines there are, or, where two  *)
(* writers wrote over each other, any of them.                             *)
Readings ==
  LET at(h) == {c \in Certs : <<h, c>> \in file.lines} IN
    {s \in [Hosts -> 0..MaxCerts] :
       \A h \in Hosts : s[h] \in at(h) \/ (s[h] = 0 /\ (file.mixed \/ at(h) = {}))}

Unsure == IF Writers # {} \/ file.torn \/ file.mixed THEN Hosts ELSE lost

(* load_known_hosts_store_from_config: no file is an empty copy, a line    *)
(* that is not complete an InvalidHostFile.                                *)
LoadsKnownHosts(a) ==
  /\ ~file.torn
  /\ \E s \in Readings :
       att' = [att EXCEPT ![a].phase = "loaded", ![a].store = s, ![a].unsure = Unsure]

(* configure_client, whose error makes the task panic.                     *)
Configure(a) ==
  /\ att[a].phase = "dialing"
  /\ \/ LoadsKnownHosts(a)
     \/ (file.torn \/ file.mixed) /\ Becomes(a, "panicked")
  /\ ClientOnly /\ UNCHANGED <<file, remembered, lost>>

StatusOf_ByName(known, cert) == IF known = 0 THEN "Unknown" ELSE "Trusted"
StatusOf(known, cert) ==
  IF known = 0 THEN "Unknown" ELSE IF known = cert THEN "Trusted" ELSE "Untrusted"

(* apply_verifier_immediate_action.                                        *)
PhaseAfter(action) ==
  CASE action = "AbortConnection" -> "failed"
    [] action = "TrustOnce"       -> "accepted"
    [] action = "TrustAndStore"   -> "storing"

(* apply_verifier_behaviour_for_status: a request to an application whose  *)
(* connection is gone panics.                                              *)
Behaves(a, status) ==
  IF config[status] # "RequestClientAction" THEN PhaseAfter(config[status])
  ELSE IF att[a].owned THEN "asking" ELSE "panicked"

(* verify_server_cert.                                                     *)
Verify(a) ==
  LET h == att[a].host IN
  /\ att[a].phase = "loaded" /\ serving[h] # 0
  /\ att' = [att EXCEPT ![a].cert = serving[h],
               ![a].phase = Behaves(a, StatusOf(att[a].store[h], serving[h]))]
  /\ ClientOnly /\ UNCHANGED <<file, remembered, lost>>

(* Nobody listens, or the link is lost.                                    *)
DialFails(a) ==
  /\ att[a].phase = "loaded"
  /\ Becomes(a, "failed")
  /\ ClientOnly /\ UNCHANGED <<file, remembered, lost>>

Unanswered_Waits == "unanswered"
Unanswered == "failed"
(* apply_cert_verifier_action by the application, or the end of the event  *)
(* that carries action_sender.                                             *)
Answer(a) ==
  /\ att[a].phase = "asking"
  /\ \/ \E action \in Actions : Becomes(a, PhaseAfter(action))
     \/ Becomes(a, Unanswered)
  /\ ClientOnly /\ UNCHANGED <<file, remembered, lost>>

StoreClone_OnlyNew(a) == {<<att[a].host, att[a].cert>>}
(* store_clone with the new certificate inserted.                          *)
StoreClone(a) ==
  LET s == [att[a].store EXCEPT ![att[a].host] = att[a].cert] IN
    {<<h, s[h]>> : h \in {g \in Hosts : s[g] # 0}}

(* store_known_hosts_to_file: File::create, which truncates the file.      *)
CreateFile(a) ==
  /\ att[a].phase = "storing"
  /\ att' = [att EXCEPT ![a].phase = "writing", ![a].todo = StoreClone(a)]
  /\ file' = [lines |-> {}, torn |-> FALSE, mixed |-> Writers # {}]
  /\ ClientOnly /\ UNCHANGED <<remembered, lost>>

(* The lines in any order.  A line is written in pieces.                   *)
BeginLine(a) ==
  /\ att[a].phase = "writing" /\ att[a].todo # {} /\ ~file.torn /\ ~file.mixed
  /\ file' = [file EXCEPT !.torn = TRUE]
  /\ ClientOnly /\ UNCHANGED <<att, remembered, lost>>
EndLine(a) ==
  /\ att[a].phase = "writing" /\ (file.torn \/ file.mixed)
  /\ \E line \in att[a].todo :
       /\ att' = [att EXCEPT ![a].todo = @ \ {line}]
       /\ file' = [file EXCEPT !.lines = @ \cup {line}, !.torn = FALSE]
  /\ ClientOnly /\ UNCHANGED <<remembered, lost>>

(* The file is written and CertificateTrustUpdate sent, which fails when   *)
(* the connection is gone.                                                 *)
TrustUpdate(a) ==
  LET h == att[a].host IN
  /\ att[a].phase = "writing" /\ att[a].todo = {}
  /\ att' = [b \in Attempts |->
       IF b = a THEN [att[a] EXCEPT !.phase = IF att[a].owned THEN "accepted" ELSE "failed"]
       ELSE [att[b] EXCEPT !.unsure = @ \cup {h}]]
  /\ remembered' = [remembered EXCEPT ![h] = att[a].cert]
  /\ lost' = IF file.mixed THEN Hosts ELSE (lost \cup att[a].unsure) \ {h}
  /\ ClientOnly /\ UNCHANGED file

(* close_connection while the task still runs.                             *)
Abandon(a) ==
  /\ att[a].owned /\ att[a].phase \notin Ended \cup {"none"}
  /\ att' = [att EXCEPT ![a].owned = FALSE]
  /\ ClientOnly /\ UNCHANGED <<file, remembered, lost>>

(* The client's program ends and starts again: the file is what it is.     *)
Restart ==
  /\ restarts < MaxRestarts
  /\ restarts' = restarts + 1
  /\ lost' = IF Writers # {} THEN Hosts ELSE lost
  /\ att' = [a \in Attempts |->
       IF att[a].phase \in Ended \cup {"none"} THEN att[a]
       ELSE [att[a] EXCEPT !.phase = "gone"]]
  /\ UNCHANGED <<serverVars, config, file, remembered>>

Server(h) == StartEndpoint(h) \/ WriteCertificate(h) \/ WriteKey(h) \/ StopsOrEnds(h)
Task(a) ==
  \/ Configure(a) \/ Verify(a) \/ DialFails(a) \/ Answer(a)
  \/ CreateFile(a) \/ BeginLine(a) \/ EndLine(a) \/ TrustUpdate(a)
Next ==
  \/ \E h \in Hosts : Server(h)
  \/ \E a \in Attempts : Task(a) \/ Abandon(a) \/ \E h \in Hosts : Open(a, h)
  \/ Restart

Spec == Init /\ [][Next]_vars
(* Tasks get on, a dial times out, an event that nobody answers is dropped *)
(* by the second update after it.                                          *)
FairSpec == Spec /\ \A a \in Attempts : WF_vars(Task(a))

----------------------------------------------------------------------------
(* The values of the variables.                                            *)
Phases == Ended \cup {"none", "dialing", "loaded", "asking", "storing", "writing"}
TypeOK ==
  /\ mode \in Modes /\ config \in Configs
  /\ made \in [Hosts -> 0..MaxCerts] /\ serving \in [Hosts -> 0..MaxCerts]
  /\ certFile \in [Hosts -> Torn..MaxCerts] /\ keyFile \in [Hosts -> Torn..MaxCerts]
  /\ saving \in [Hosts -> {"no", "cert", "key"}]
  /\ file \in [lines : SUBSET (Hosts \X Certs), torn : BOOLEAN, mixed : BOOLEAN]
  /\ remembered \in [Hosts -> 0..MaxCerts] /\ lost \subseteq Hosts
  /\ restarts \in 0..MaxRestarts
  /\ att \in [Attempts ->
        [phase : Phases, host : Hosts, store : [Hosts -> 0..MaxCerts],
         cert : 0..MaxCerts, unsure : SUBSET Hosts, todo : SUBSET (Hosts \X Certs),
         owned : BOOLEAN]]

(* The file of known hosts has, for every host, the certificate that was   *)
(* stored for it last and no other ("this action also adds the             *)
(* certificate's info to the store file", client/certificate.rs:179).  The *)
(* exceptions are the hosts whose line was taken away: by a connection     *)
(* that had loaded the file before the line was written, by two that wrote *)
(* at once, by the end of the program in the middle of the writing.        *)
StoreKeeps ==
  Writers = {} =>
    \A h \in Hosts \ lost :
      {c \in Certs : <<h, c>> \in file.lines} = {remembered[h]} \ {0}

(* No connection accepts or stores, without asking the application, a      *)
(* certificate other than the one stored last for the host, whatever other *)
(* connections store meanwhile and the endpoint generates, unless it is    *)
(* configured to, or the copy it decides by was outdated or loaded from a  *)
(* file being written.                                                     *)
NeverSilently ==
  [][\A a \in Attempts :
       /\ config["Untrusted"] \in {"AbortConnection", "RequestClientAction"}
       /\ att[a].phase = "loaded" /\ att'[a].phase \in {"accepted", "storing"}
       /\ att[a].host \notin att[a].unsure
       => remembered[att[a].host] \in {0, att'[a].cert}]_vars

(* An endpoint that keeps its certificate in files is never taken for a    *)
(* changed one, wherever it ended while it wrote them: it shows none       *)
(* before both files are complete.                                         *)
SavedAreNotChanged ==
  \A a \in Attempts :
    att[a].phase = "asking" /\ att[a].store[att[a].host] \notin {0, att[a].cert} =>
      mode[att[a].host] \in {"GenerateSelfSigned", "LoadOrGenerate"}

(* Every attempt comes to an end, answered or not: with the panic of its   *)
(* task if the file was torn or the connection gone, when nobody is told.  *)
AttemptsEnd ==
  \A a \in Attempts : att[a].phase = "dialing" ~> att[a].phase \in Ended
=============================================================================
