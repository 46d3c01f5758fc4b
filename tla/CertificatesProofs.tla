------------------------- MODULE CertificatesProofs -------------------------
(***************************************************************************)
(* Theorems about Certificates, for any endpoints, connections and         *)
(* configurations: what was trusted is kept, a changed certificate is      *)
(* never taken silently, and an endpoint that saves its certificate never  *)
(* shows another one.                                                      *)
(***************************************************************************)
EXTENDS Certificates, TLAPS

----------------------------------------------------------------------------
(* What each step relies on.                                               *)

(* The certificate file is written before the key file, and a complete key *)
(* file belongs to the certificate file.                                   *)
FilesInv ==
  \A h \in Hosts :
    /\ saving[h] # "no" => made[h] > 0
    /\ saving[h] = "cert" => keyFile[h] = Missing
    /\ saving[h] = "key" => certFile[h] = made[h] /\ keyFile[h] \in {Missing, Torn}
    /\ keyFile[h] # Missing => certFile[h] # Missing
    /\ keyFile[h] > 0 => certFile[h] = keyFile[h]

(* The certificate of a saved host that anybody has seen is in both files. *)
Saved(h) == mode[h] \in {"LoadFromFile", "LoadOrSave"}
Fixed(h, c) == c = 0 \/ (certFile[h] = c /\ keyFile[h] = c /\ saving[h] = "no")
SeenInv ==
  \A h \in Hosts : Saved(h) =>
    /\ Fixed(h, serving[h])
    /\ \A c \in Certs : <<h, c>> \in file.lines => Fixed(h, c)
    /\ \A a \in Attempts :
         /\ Fixed(h, att[a].store[h])
         /\ att[a].host = h => Fixed(h, att[a].cert)
         /\ \A c \in Certs : <<h, c>> \in att[a].todo => Fixed(h, c)

(* A connection has seen a certificate before it decides about it, and     *)
(* none before it has begun.                                               *)
Deciding == {"asking", "storing", "writing"}
PhaseInv ==
  \A a \in Attempts :
    /\ att[a].phase = "none" => att[a].cert = 0
    /\ att[a].phase \in Deciding => att[a].cert # 0

(* A copy of the known hosts is right but for the hosts it is unsure of.   *)
CopyInv ==
  \A a \in Attempts, h \in Hosts :
    att[a].phase \in Deciding \cup {"loaded"} /\ h \notin att[a].unsure =>
      att[a].store[h] = remembered[h]

(* A single writer has written what it has not still to write.             *)
WriterInv ==
  \A a \in Writers : ~file.mixed =>
    Writers = {a} /\ file.lines \cup att[a].todo = StoreClone(a)

CertInv ==
  TypeOK /\ FilesInv /\ SeenInv /\ PhaseInv /\ CopyInv /\ WriterInv /\ StoreKeeps

----------------------------------------------------------------------------
(* The endpoint.                                                           *)

LEMMA InitCertInv == Init => CertInv
<1> SUFFICES ASSUME Init
             PROVE  CertInv
  OBVIOUS
<1>1. /\ Hosts # {} /\ MaxCerts \in Nat /\ MaxCerts >= 1 /\ MaxRestarts \in Nat
      /\ Modes \subseteq [Hosts -> Retrievals]
  BY CertificatesAssumption DEF CertificatesAssumption
<1>2. \A a \in Attempts : att[a] = NotYet
  BY DEF Init
<1>3. /\ NotYet.phase = "none" /\ NotYet.cert = 0 /\ NotYet.todo = {}
      /\ NotYet.store = NoCopy
  BY DEF NotYet
<1>4. \A h \in Hosts : /\ made[h] \in {0, 1} /\ certFile[h] = made[h]
                       /\ keyFile[h] = made[h] /\ saving[h] = "no"
                       /\ serving[h] = 0 /\ remembered[h] = 0 /\ NoCopy[h] = 0
  BY DEF Init, NoCopy
<1>5. file.lines = {} /\ Writers = {}
  BY <1>2, <1>3 DEF Init, Writers
<1>6. TypeOK
  <2>1. NotYet.host \in Hosts
    BY <1>1 DEF NotYet
  <2>2. NotYet \in [phase : Phases, host : Hosts, store : [Hosts -> 0..MaxCerts],
                    cert : 0..MaxCerts, unsure : SUBSET Hosts,
                    todo : SUBSET (Hosts \X Certs), owned : BOOLEAN]
    BY <1>1, <2>1 DEF NotYet, NoCopy, Phases
  <2>3. /\ made \in [Hosts -> 0..MaxCerts] /\ serving \in [Hosts -> 0..MaxCerts]
        /\ certFile \in [Hosts -> Torn..MaxCerts]
        /\ keyFile \in [Hosts -> Torn..MaxCerts]
        /\ saving \in [Hosts -> {"no", "cert", "key"}]
        /\ remembered \in [Hosts -> 0..MaxCerts]
    BY <1>1 DEF Init, NoCopy, Torn
  <2>4. file \in [lines : SUBSET (Hosts \X Certs), torn : BOOLEAN, mixed : BOOLEAN]
    BY DEF Init
  <2> QED
    BY <1>1, <2>2, <2>3, <2>4 DEF Init, TypeOK
<1>7. FilesInv
  BY <1>4 DEF FilesInv, Missing
<1>8. SeenInv /\ PhaseInv /\ CopyInv /\ WriterInv
  BY <1>2, <1>3, <1>4, <1>5
     DEF SeenInv, Fixed, PhaseInv, CopyInv, WriterInv, Deciding
<1>9. StoreKeeps
  BY <1>4, <1>5 DEF StoreKeeps
<1> QED
  BY <1>6, <1>7, <1>8, <1>9 DEF CertInv

(* What the endpoint does leaves the client alone.                         *)
LEMMA ServerLeavesClient ==
  ASSUME CertInv, UNCHANGED <<file, att, remembered, lost>>
  PROVE  PhaseInv' /\ CopyInv' /\ WriterInv' /\ StoreKeeps'
BY DEF CertInv, PhaseInv, CopyInv, WriterInv, StoreKeeps, Writers, StoreClone

(* An endpoint writes its files only while nobody has seen its certificate.*)
LEMMA ServerKeepsSeen ==
  ASSUME CertInv, UNCHANGED <<mode, file, att>>, NEW h \in Hosts,
         \A g \in Hosts \ {h} :
           /\ certFile'[g] = certFile[g] /\ keyFile'[g] = keyFile[g]
           /\ saving'[g] = saving[g] /\ serving'[g] = serving[g],
         Saved(h) => /\ Fixed(h, serving[h])' 
                     /\ \A c \in 0..MaxCerts : Fixed(h, c) => Fixed(h, c)'
  PROVE  SeenInv'
<1> SUFFICES ASSUME NEW g \in Hosts, Saved(g)'
             PROVE  /\ Fixed(g, serving[g])'
                    /\ \A c \in Certs : <<g, c>> \in file.lines => Fixed(g, c)'
                    /\ \A a \in Attempts :
                         /\ Fixed(g, att[a].store[g])'
                         /\ att[a].host = g => Fixed(g, att[a].cert)'
                         /\ \A c \in Certs : <<g, c>> \in att[a].todo => Fixed(g, c)'
  BY DEF SeenInv
<1>1. /\ Fixed(g, serving[g])
      /\ \A c \in Certs : <<g, c>> \in file.lines => Fixed(g, c)
      /\ \A a \in Attempts :
           /\ Fixed(g, att[a].store[g])
           /\ att[a].host = g => Fixed(g, att[a].cert)
           /\ \A c \in Certs : <<g, c>> \in att[a].todo => Fixed(g, c)
  BY DEF CertInv, SeenInv, Saved
<1>2. ASSUME NEW c \in 0..MaxCerts, Fixed(g, c)
      PROVE  Fixed(g, c)'
  BY <1>2 DEF Fixed, Saved
<1>3. Fixed(g, serving[g])'
  BY <1>1 DEF Fixed, Saved
<1>4. /\ Certs \subseteq 0..MaxCerts
      /\ \A a \in Attempts : att[a].store[g] \in 0..MaxCerts /\ att[a].cert \in 0..MaxCerts
  BY CertificatesAssumption DEF CertificatesAssumption, CertInv, TypeOK, Certs
<1>5. \A c \in Certs : <<g, c>> \in file.lines => Fixed(g, c)'
  BY <1>1, <1>2, <1>4
<1>6. ASSUME NEW a \in Attempts
      PROVE  /\ Fixed(g, att[a].store[g])'
             /\ att[a].host = g => Fixed(g, att[a].cert)'
             /\ \A c \in Certs : <<g, c>> \in att[a].todo => Fixed(g, c)'
  <2>1. Fixed(g, att[a].store[g])'
    BY <1>1, <1>2, <1>4 DEF Fixed
  <2>2. att[a].host = g => Fixed(g, att[a].cert)'
    BY <1>1, <1>2, <1>4 DEF Fixed
  <2>3. \A c \in Certs : <<g, c>> \in att[a].todo => Fixed(g, c)'
    BY <1>1, <1>2, <1>4
  <2> QED
    BY <2>1, <2>2, <2>3
<1> QED
  BY <1>3, <1>5, <1>6

(* The steps of an endpoint.                                               *)
LEMMA StartKeeps ==
  ASSUME CertInv, NEW h \in Hosts, StartEndpoint(h)
  PROVE  CertInv'
<1>0. CertificatesAssumption
  BY CertificatesAssumption
<1>1. /\ UNCHANGED <<mode, certFile, keyFile, config, file, att, remembered, lost,
                     restarts>>
      /\ serving[h] = 0 /\ saving[h] = "no" /\ TypeOK /\ FilesInv
  BY DEF StartEndpoint, CertInv
<1>2. PhaseInv' /\ CopyInv' /\ WriterInv' /\ StoreKeeps'
  BY <1>1, ServerLeavesClient
<1>3. CASE LoadsCertificate(h)
  <2>1. /\ serving' = [serving EXCEPT ![h] = certFile[h]] /\ UNCHANGED <<made, saving>>
        /\ certFile[h] \in Certs /\ keyFile[h] = certFile[h]
    <3>1. certFile[h] \in -1..MaxCerts /\ keyFile[h] \in -1..MaxCerts
      BY <1>1 DEF TypeOK, Torn
    <3>2. /\ certFile[h] \notin {-1, 0} /\ keyFile[h] \notin {-1, 0}
          /\ serving' = [serving EXCEPT ![h] = certFile[h]] /\ UNCHANGED <<made, saving>>
      BY <1>3 DEF LoadsCertificate, BothExist, Missing, Torn
    <3>3. keyFile[h] > 0 => certFile[h] = keyFile[h]
      BY <1>1 DEF FilesInv
    <3> QED
      BY <1>0, <3>1, <3>2, <3>3 DEF Certs, CertificatesAssumption
  <2>2. TypeOK'
    BY <1>1, <2>1 DEF TypeOK, Certs
  <2>3. FilesInv'
    BY <1>1, <2>1 DEF FilesInv
  <2>4. SeenInv'
    <3>1. \A c \in 0..MaxCerts : Fixed(h, c) => Fixed(h, c)'
      BY <1>1, <2>1 DEF Fixed
    <3>2. Fixed(h, serving[h])'
      BY <1>1, <2>1 DEF Fixed, TypeOK
    <3>3. \A g \in Hosts \ {h} : serving'[g] = serving[g]
      BY <1>1, <2>1 DEF TypeOK
    <3> QED
      BY <1>1, <2>1, <3>1, <3>2, <3>3, ServerKeepsSeen
  <2> QED
    BY <1>2, <2>2, <2>3, <2>4 DEF CertInv
<1>4. CASE GeneratesCertificate(h)
  <2>1. /\ made[h] < MaxCerts /\ made' = [made EXCEPT ![h] = @ + 1]
        /\ saving' = [saving EXCEPT ![h] = FirstStep(h)[1]]
        /\ serving' = [serving EXCEPT ![h] = FirstStep(h)[2]]
        /\ Saved(h) => mode[h] = "LoadOrSave" /\ ~BothExist(h)
    BY <1>4 DEF GeneratesCertificate, Saved
  <2>2. /\ mode[h] = "LoadOrSave" => FirstStep(h)[1] = "cert" /\ FirstStep(h)[2] = 0
        /\ mode[h] # "LoadOrSave" =>
             FirstStep(h)[1] = "no" /\ FirstStep(h)[2] = made[h] + 1
    BY DEF FirstStep
  <2>3. FirstStep(h)[1] \in {"no", "cert"} /\ FirstStep(h)[2] \in 0..MaxCerts
    BY <1>0, <1>1, <2>1, <2>2 DEF TypeOK, CertificatesAssumption
  <2>4. made'[h] = made[h] + 1 /\ made'[h] \in 0..MaxCerts
        /\ saving'[h] = FirstStep(h)[1] /\ serving'[h] = FirstStep(h)[2]
        /\ \A g \in Hosts \ {h} : made'[g] = made[g] /\ saving'[g] = saving[g]
                                /\ serving'[g] = serving[g]
    BY <1>0, <1>1, <2>1 DEF TypeOK, CertificatesAssumption
  <2>5. TypeOK'
    <3>1. /\ made' \in [Hosts -> 0..MaxCerts] /\ serving' \in [Hosts -> 0..MaxCerts]
          /\ saving' \in [Hosts -> {"no", "cert", "key"}]
      BY <1>1, <2>1, <2>3, <2>4 DEF TypeOK
    <3> QED
      BY <1>1, <3>1 DEF TypeOK
  <2>6. mode[h] = "LoadOrSave" => keyFile[h] = Missing
    BY <1>0, <1>1, <1>4
       DEF GeneratesCertificate, BothExist, FilesInv
  <2>7. FilesInv'
    <3>1. /\ saving'[h] # "no" => made'[h] > 0
          /\ saving'[h] = "cert" => keyFile'[h] = Missing
          /\ saving'[h] # "key"
      BY <1>0, <1>1, <2>2, <2>3, <2>4, <2>6 DEF TypeOK, CertificatesAssumption
    <3> QED
      BY <1>1, <2>4, <3>1 DEF FilesInv
  <2>8. SeenInv'
    <3>1. Saved(h) => Fixed(h, serving[h])'
      BY <2>1, <2>2, <2>4 DEF Fixed
    <3>2. Saved(h) => \A c \in 0..MaxCerts : Fixed(h, c) => c = 0
      BY <2>1, <2>6 DEF Fixed, Missing
    <3>3. \A c \in 0..MaxCerts : c = 0 => Fixed(h, c)'
      BY DEF Fixed
    <3> QED
      BY <1>1, <2>4, <3>1, <3>2, <3>3, ServerKeepsSeen
  <2> QED
    BY <1>2, <2>5, <2>7, <2>8 DEF CertInv
<1> QED
  BY <1>3, <1>4 DEF StartEndpoint

(* No certificate of an endpoint that is writing its files is complete.    *)
LEMMA UnseenWhileSaving ==
  ASSUME CertInv, NEW h \in Hosts, saving[h] # "no" \/ keyFile[h] \in {Missing, Torn}
  PROVE  \A c \in 0..MaxCerts : Fixed(h, c) => c = 0
BY CertificatesAssumption
   DEF CertificatesAssumption, Fixed, Missing, Torn, CertInv, FilesInv

LEMMA WriteKeeps ==
  ASSUME CertInv, NEW h \in Hosts, WriteCertificate(h) \/ WriteKey(h)
  PROVE  CertInv'
<1>0. CertificatesAssumption
  BY CertificatesAssumption
<1>1. /\ UNCHANGED <<mode, made, config, file, att, remembered, lost, restarts>>
      /\ saving[h] \in {"cert", "key"} /\ TypeOK /\ FilesInv /\ SeenInv
  BY DEF WriteCertificate, WriteKey, CertInv
<1>2. PhaseInv' /\ CopyInv' /\ WriterInv' /\ StoreKeeps'
  BY <1>1, ServerLeavesClient
<1>3. /\ made[h] \in 1..MaxCerts
      /\ \A c \in 0..MaxCerts : Fixed(h, c) => c = 0
      /\ Saved(h) => serving[h] = 0
  <2>1. \A c \in 0..MaxCerts : Fixed(h, c) => c = 0
    BY <1>1, UnseenWhileSaving
  <2>2. made[h] \in 1..MaxCerts /\ serving[h] \in 0..MaxCerts
    BY <1>0, <1>1 DEF TypeOK, FilesInv, CertificatesAssumption
  <2> QED
    BY <1>1, <2>1, <2>2 DEF SeenInv
<1>4. CASE WriteCertificate(h)
  <2>1. /\ UNCHANGED <<keyFile, serving>> /\ saving[h] = "cert" /\ keyFile[h] = Missing
        /\ \/ /\ certFile' = [certFile EXCEPT ![h] = made[h]]
              /\ saving' = [saving EXCEPT ![h] = "key"]
           \/ /\ certFile' = [certFile EXCEPT ![h] = Torn] /\ UNCHANGED saving
    BY <1>1, <1>4 DEF WriteCertificate, FilesInv
  <2>2. /\ \/ certFile'[h] = made[h] /\ saving'[h] = "key"
           \/ certFile'[h] = Torn /\ saving'[h] = "cert"
        /\ \A g \in Hosts \ {h} : certFile'[g] = certFile[g] /\ saving'[g] = saving[g]
    BY <1>1, <2>1 DEF TypeOK
  <2>3. TypeOK'
    <3>1. /\ certFile' \in [Hosts -> Torn..MaxCerts]
          /\ saving' \in [Hosts -> {"no", "cert", "key"}]
      <4>1. /\ certFile \in [Hosts -> -1..MaxCerts]
            /\ saving \in [Hosts -> {"no", "cert", "key"}]
        BY <1>1 DEF TypeOK, Torn
      <4>2. made[h] \in -1..MaxCerts /\ Torn \in -1..MaxCerts
        BY <1>0, <1>3 DEF Torn, CertificatesAssumption
      <4> QED
        BY <2>1, <4>1, <4>2 DEF Torn
    <3> QED
      BY <1>1, <2>1, <3>1 DEF TypeOK
  <2>4. FilesInv'
    BY <1>1, <1>3, <2>1, <2>2 DEF FilesInv, Missing, Torn
  <2>5. SeenInv'
    <3>1. Saved(h) => Fixed(h, serving[h])'
      BY <1>3, <2>1 DEF Fixed
    <3>2. \A c \in 0..MaxCerts : c = 0 => Fixed(h, c)'
      BY DEF Fixed
    <3> QED
      BY <1>1, <1>3, <2>1, <2>2, <3>1, <3>2, ServerKeepsSeen
  <2> QED
    BY <1>2, <2>3, <2>4, <2>5 DEF CertInv
<1>5. CASE WriteKey(h)
  <2>1. /\ UNCHANGED certFile /\ saving[h] = "key" /\ certFile[h] = made[h]
        /\ \/ /\ keyFile' = [keyFile EXCEPT ![h] = made[h]]
              /\ saving' = [saving EXCEPT ![h] = "no"]
              /\ serving' = [serving EXCEPT ![h] = made[h]]
           \/ keyFile' = [keyFile EXCEPT ![h] = Torn] /\ UNCHANGED <<saving, serving>>
    BY <1>1, <1>5 DEF WriteKey, FilesInv
  <2>2. /\ \/ keyFile'[h] = made[h] /\ saving'[h] = "no" /\ serving'[h] = made[h]
           \/ keyFile'[h] = Torn /\ saving'[h] = "key" /\ serving'[h] = serving[h]
        /\ \A g \in Hosts \ {h} : /\ keyFile'[g] = keyFile[g] /\ saving'[g] = saving[g]
                                /\ serving'[g] = serving[g]
    BY <1>1, <2>1 DEF TypeOK
  <2>3. TypeOK'
    <3>1. /\ keyFile' \in [Hosts -> Torn..MaxCerts] /\ serving' \in [Hosts -> 0..MaxCerts]
          /\ saving' \in [Hosts -> {"no", "cert", "key"}]
      BY <1>0, <1>1, <1>3, <2>1 DEF TypeOK, Torn, CertificatesAssumption
    <3> QED
      BY <1>1, <2>1, <3>1 DEF TypeOK
  <2>4. FilesInv'
    BY <1>1, <1>3, <2>1, <2>2 DEF FilesInv, Missing, Torn
  <2>5. SeenInv'
    <3>1. Saved(h) => Fixed(h, serving[h])'
      BY <1>3, <2>1, <2>2 DEF Fixed
    <3>2. \A c \in 0..MaxCerts : c = 0 => Fixed(h, c)'
      BY DEF Fixed
    <3> QED
      BY <1>1, <1>3, <2>1, <2>2, <3>1, <3>2, ServerKeepsSeen
  <2> QED
    BY <1>2, <2>3, <2>4, <2>5 DEF CertInv
<1> QED
  BY <1>4, <1>5

LEMMA StopKeeps ==
  ASSUME CertInv, NEW h \in Hosts, StopsOrEnds(h)
  PROVE  CertInv'
<1>0. CertificatesAssumption
  BY CertificatesAssumption
<1>1. /\ UNCHANGED <<mode, made, certFile, keyFile, config, file, att, remembered,
                     lost, restarts>>
      /\ serving' = [serving EXCEPT ![h] = 0] /\ saving' = [saving EXCEPT ![h] = "no"]
      /\ TypeOK /\ FilesInv
  BY DEF StopsOrEnds, CertInv
<1>2. PhaseInv' /\ CopyInv' /\ WriterInv' /\ StoreKeeps'
  BY <1>1, ServerLeavesClient
<1>3. /\ serving'[h] = 0 /\ saving'[h] = "no"
      /\ \A g \in Hosts \ {h} : serving'[g] = serving[g] /\ saving'[g] = saving[g]
  BY <1>1 DEF TypeOK
<1>4. TypeOK'
  <2>1. /\ serving' \in [Hosts -> 0..MaxCerts]
        /\ saving' \in [Hosts -> {"no", "cert", "key"}]
    BY <1>0, <1>1 DEF TypeOK, CertificatesAssumption
  <2> QED
    BY <1>1, <2>1 DEF TypeOK
<1>5. FilesInv'
  BY <1>1, <1>3 DEF FilesInv
<1>6. SeenInv'
  <2>1. /\ Fixed(h, serving[h])'
        /\ \A c \in 0..MaxCerts : Fixed(h, c) => Fixed(h, c)'
    BY <1>1, <1>3 DEF Fixed
  <2> QED
    BY <1>1, <1>3, <2>1, ServerKeepsSeen
<1> QED
  BY <1>2, <1>4, <1>5, <1>6 DEF CertInv

----------------------------------------------------------------------------
(* The client.                                                             *)

Attempt == [phase : Phases, host : Hosts, store : [Hosts -> 0..MaxCerts],
            cert : 0..MaxCerts, unsure : SUBSET Hosts,
            todo : SUBSET (Hosts \X Certs), owned : BOOLEAN]

(* A connection that goes on to r, and is neither a writer that loses its  *)
(* lines nor a new one.                                                    *)
LEMMA AttemptMoves ==
  ASSUME CertInv, NEW a \in Attempts, NEW r \in Attempt,
         att' = [att EXCEPT ![a] = r],
         UNCHANGED <<serverVars, config, restarts, file, remembered, lost>>,
         r.todo = att[a].todo,
         r.phase = "writing" <=> att[a].phase = "writing",
         r.phase = "writing" =>
           r.host = att[a].host /\ r.cert = att[a].cert /\ r.store = att[a].store,
         \A h \in Hosts : Saved(h) =>
           Fixed(h, r.store[h]) /\ (r.host = h => Fixed(h, r.cert)),
         r.phase = "none" => r.cert = 0,
         r.phase \in Deciding => r.cert # 0,
         \A h \in Hosts \ r.unsure :
           r.phase \in Deciding \cup {"loaded"} => r.store[h] = remembered[h]
  PROVE  CertInv'
<1>1. /\ TypeOK /\ FilesInv /\ SeenInv /\ PhaseInv /\ CopyInv /\ WriterInv /\ StoreKeeps
      /\ UNCHANGED <<mode, made, certFile, keyFile, saving, serving>>
  BY DEF CertInv, serverVars
<1>2. att \in [Attempts -> Attempt]
  BY <1>1 DEF TypeOK, Attempt
<1>3. /\ att'[a] = r /\ att' \in [Attempts -> Attempt]
      /\ \A b \in Attempts \ {a} : att'[b] = att[b]
  BY <1>2
<1>4. TypeOK'
  BY <1>1, <1>3 DEF TypeOK, Attempt
<1>5. FilesInv'
  BY <1>1 DEF FilesInv
<1>6. SeenInv'
  <2> SUFFICES ASSUME NEW h \in Hosts, Saved(h)'
               PROVE  /\ Fixed(h, serving[h])'
                      /\ \A c \in Certs : <<h, c>> \in file.lines => Fixed(h, c)'
                      /\ \A b \in Attempts :
                           /\ Fixed(h, att[b].store[h])'
                           /\ att'[b].host = h => Fixed(h, att[b].cert)'
                           /\ \A c \in Certs : <<h, c>> \in att'[b].todo => Fixed(h, c)'
    BY DEF SeenInv
  <2>1. Saved(h)
    BY <1>1 DEF Saved
  <2>2. Fixed(h, serving[h])' /\ \A c \in Certs : <<h, c>> \in file.lines => Fixed(h, c)'
    BY <1>1, <2>1 DEF SeenInv, Fixed
  <2>3. ASSUME NEW b \in Attempts
        PROVE  /\ Fixed(h, att[b].store[h])'
               /\ att'[b].host = h => Fixed(h, att[b].cert)'
               /\ \A c \in Certs : <<h, c>> \in att'[b].todo => Fixed(h, c)'
    <3>1. /\ Fixed(h, att[b].store[h])
          /\ att[b].host = h => Fixed(h, att[b].cert)
          /\ \A c \in Certs : <<h, c>> \in att[b].todo => Fixed(h, c)
      BY <1>1, <2>1 DEF SeenInv
    <3>2. CASE b = a
      <4>1. att'[b] = r /\ r.todo = att[b].todo
        BY <1>3, <3>2
      <4>2. Fixed(h, r.store[h]) /\ (r.host = h => Fixed(h, r.cert))
        BY <2>1
      <4>3. Fixed(h, att[b].store[h])'
        BY <1>1, <4>1, <4>2 DEF Fixed
      <4>4. att'[b].host = h => Fixed(h, att[b].cert)'
        BY <1>1, <4>1, <4>2 DEF Fixed
      <4>5. \A c \in Certs : <<h, c>> \in att'[b].todo => Fixed(h, c)'
        BY <1>1, <3>1, <4>1 DEF Fixed
      <4> QED
        BY <4>3, <4>4, <4>5
    <3>3. CASE b # a
      BY <1>1, <1>3, <3>1, <3>3 DEF Fixed
    <3> QED
      BY <3>2, <3>3
  <2> QED
    BY <2>2, <2>3
<1>7. PhaseInv'
  BY <1>1, <1>3 DEF PhaseInv
<1>8. CopyInv'
  BY <1>1, <1>3 DEF CopyInv
<1>9. Writers' = Writers
  BY <1>3 DEF Writers
<1>10. WriterInv'
  <2> SUFFICES ASSUME NEW b \in Writers, ~file.mixed
               PROVE  Writers = {b} /\ file.lines \cup att'[b].todo = StoreClone(b)'
    BY <1>1, <1>9 DEF WriterInv
  <2>1. Writers = {b} /\ file.lines \cup att[b].todo = StoreClone(b)
    BY <1>1 DEF WriterInv
  <2>2. b \in Attempts /\ att[b].phase = "writing"
    BY DEF Writers
  <2>3. /\ att'[b].host = att[b].host /\ att'[b].cert = att[b].cert
        /\ att'[b].store = att[b].store /\ att'[b].todo = att[b].todo
    BY <1>3, <2>2
  <2>4. StoreClone(b)' = StoreClone(b)
    BY <2>3 DEF StoreClone
  <2> QED
    BY <2>1, <2>3, <2>4
<1>11. StoreKeeps'
  BY <1>1, <1>9 DEF StoreKeeps
<1> QED
  BY <1>4, <1>5, <1>6, <1>7, <1>8, <1>10, <1>11 DEF CertInv

LEMMA AttemptIsTyped ==
  ASSUME CertInv
  PROVE  att \in [Attempts -> Attempt]
BY DEF CertInv, TypeOK, Attempt

(* What a step of one connection that does not write relies on.            *)
LEMMA AttemptHas ==
  ASSUME CertInv, NEW a \in Attempts
  PROVE  /\ att[a] \in Attempt
         /\ \A h \in Hosts : Saved(h) =>
              Fixed(h, att[a].store[h]) /\ (att[a].host = h => Fixed(h, att[a].cert))
         /\ att[a].phase = "none" => att[a].cert = 0
         /\ att[a].phase \in Deciding => att[a].cert # 0
         /\ \A h \in Hosts \ att[a].unsure :
              att[a].phase \in Deciding \cup {"loaded"} => att[a].store[h] = remembered[h]
<1>1. SeenInv /\ PhaseInv /\ CopyInv
  BY DEF CertInv
<1> QED
  BY <1>1, AttemptIsTyped DEF SeenInv, PhaseInv, CopyInv

LEMMA PhaseMoves ==
  ASSUME CertInv, NEW a \in Attempts, NEW phase \in Phases \ {"none", "writing"},
         att' = [att EXCEPT ![a].phase = phase],
         UNCHANGED <<serverVars, config, restarts, file, remembered, lost>>,
         att[a].phase # "writing",
         phase \in Deciding => att[a].phase \in Deciding,
         phase # "loaded"
  PROVE  CertInv'
<1> DEFINE r == [att[a] EXCEPT !.phase = phase]
<1>1. att[a] \in Attempt /\ att \in [Attempts -> Attempt]
  BY AttemptHas, AttemptIsTyped
<1>2. /\ r \in Attempt /\ r.phase = phase /\ r.host = att[a].host /\ r.cert = att[a].cert
      /\ r.store = att[a].store /\ r.todo = att[a].todo /\ r.unsure = att[a].unsure
  BY <1>1 DEF Attempt
<1>3. att' = [att EXCEPT ![a] = r]
  BY <1>1
<1> HIDE DEF r
<1>4. /\ r.phase # "none" /\ (r.phase = "writing" <=> att[a].phase = "writing")
      /\ r.phase # "writing"
  BY <1>2
<1>5. \A h \in Hosts : Saved(h) =>
        Fixed(h, r.store[h]) /\ (r.host = h => Fixed(h, r.cert))
  BY <1>2, AttemptHas
<1>6. r.phase \in Deciding => r.cert # 0
  BY <1>2, AttemptHas
<1>7. \A h \in Hosts \ r.unsure :
        r.phase \in Deciding \cup {"loaded"} => r.store[h] = remembered[h]
  BY <1>2, AttemptHas
<1> QED
  BY <1>2, <1>3, <1>4, <1>5, <1>6, <1>7, AttemptMoves

LEMMA PhaseAfterEnds ==
  ASSUME NEW action \in Actions
  PROVE  PhaseAfter(action) \in {"failed", "accepted", "storing"}
<1>1. CASE action = "AbortConnection"
  BY <1>1 DEF PhaseAfter
<1>2. CASE action = "TrustOnce"
  BY <1>2 DEF PhaseAfter
<1>3. CASE action = "TrustAndStore"
  BY <1>3 DEF PhaseAfter
<1> QED
  BY <1>1, <1>2, <1>3 DEF Actions

LEMMA BehavesEnds ==
  ASSUME TypeOK, NEW a \in Attempts, NEW status \in Statuses
  PROVE  Behaves(a, status) \in {"failed", "accepted", "storing", "asking", "panicked"}
<1>1. config[status] \in Actions \cup {"RequestClientAction"}
  BY CertificatesAssumption DEF CertificatesAssumption, TypeOK
<1>2. CASE config[status] = "RequestClientAction"
  BY <1>2 DEF Behaves
<1>3. CASE config[status] # "RequestClientAction"
  BY <1>1, <1>3, PhaseAfterEnds DEF Behaves
<1> QED
  BY <1>2, <1>3

LEMMA OpenKeeps ==
  ASSUME CertInv, NEW a \in Attempts, NEW h \in Hosts, Open(a, h)
  PROVE  CertInv'
<1> DEFINE r == [att[a] EXCEPT !.phase = "dialing", !.host = h]
<1>1. /\ att[a].phase = "none" /\ att' = [att EXCEPT ![a].phase = "dialing", ![a].host = h]
      /\ UNCHANGED <<serverVars, config, restarts, file, remembered, lost>>
  BY DEF Open, ClientOnly
<1>2. att[a] \in Attempt /\ att \in [Attempts -> Attempt] /\ att[a].cert = 0
  BY <1>1, AttemptHas, AttemptIsTyped
<1>3. /\ r \in Attempt /\ r.phase = "dialing" /\ r.cert = 0 /\ r.store = att[a].store
      /\ r.todo = att[a].todo /\ r.unsure = att[a].unsure
  BY <1>2 DEF Attempt, Phases
<1>4. att' = [att EXCEPT ![a] = r]
  BY <1>1, <1>2
<1> HIDE DEF r
<1>5. \A g \in Hosts : Saved(g) =>
        Fixed(g, r.store[g]) /\ (r.host = g => Fixed(g, r.cert))
  <2>1. \A g \in Hosts : Saved(g) => Fixed(g, r.store[g])
    BY <1>3, AttemptHas
  <2>2. \A g \in Hosts : Fixed(g, r.cert)
    BY <1>3 DEF Fixed
  <2> QED
    BY <2>1, <2>2
<1>6. /\ r.phase = "writing" <=> att[a].phase = "writing"
      /\ r.phase # "writing" /\ r.phase # "none" /\ r.phase \notin Deciding \cup {"loaded"}
  BY <1>1, <1>3 DEF Deciding
<1> QED
  BY <1>1, <1>3, <1>4, <1>5, <1>6, AttemptMoves

(* A reading of the file is right for the hosts it is sure of.             *)
LEMMA ReadingIsRight ==
  ASSUME CertInv, NEW s \in Readings
  PROVE  /\ s \in [Hosts -> 0..MaxCerts]
         /\ \A h \in Hosts : Saved(h) => Fixed(h, s[h])
         /\ \A h \in Hosts \ Unsure : s[h] = remembered[h]
<1>1. /\ s \in [Hosts -> 0..MaxCerts]
      /\ \A h \in Hosts :
           \/ s[h] \in {c \in Certs : <<h, c>> \in file.lines}
           \/ /\ s[h] = 0
              /\ file.mixed \/ {c \in Certs : <<h, c>> \in file.lines} = {}
  BY DEF Readings
<1>2. SeenInv /\ StoreKeeps
  BY DEF CertInv
<1>3. ASSUME NEW h \in Hosts, Saved(h)
      PROVE  Fixed(h, s[h])
  <2>1. CASE s[h] = 0
    BY <2>1 DEF Fixed
  <2>2. CASE s[h] \in {c \in Certs : <<h, c>> \in file.lines}
    BY <1>2, <1>3, <2>2 DEF SeenInv
  <2> QED
    BY <1>1, <2>1, <2>2
<1>4. ASSUME NEW h \in Hosts \ Unsure
      PROVE  s[h] = remembered[h]
  <2>1. Writers = {} /\ ~file.mixed /\ h \notin lost
    BY <1>4 DEF Unsure
  <2> DEFINE at == {c \in Certs : <<h, c>> \in file.lines}
  <2>2. at = {remembered[h]} \ {0}
    BY <1>2, <2>1 DEF StoreKeeps
  <2>3. s[h] \in at \/ (s[h] = 0 /\ at = {})
    BY <1>1, <2>1
  <2> HIDE DEF at
  <2>4. CASE s[h] \in at
    BY <2>2, <2>4
  <2>5. CASE s[h] = 0 /\ at = {}
    BY <2>2, <2>5
  <2> QED
    BY <2>3, <2>4, <2>5
<1> QED
  BY <1>1, <1>3, <1>4

LEMMA ConfigureKeeps ==
  ASSUME CertInv, NEW a \in Attempts, Configure(a)
  PROVE  CertInv'
<1>1. /\ att[a].phase = "dialing"
      /\ LoadsKnownHosts(a) \/ Becomes(a, "panicked")
      /\ UNCHANGED <<serverVars, config, restarts, file, remembered, lost>>
  BY DEF Configure, ClientOnly
<1>0. att[a].phase = "dialing" /\ att[a].phase # "writing"
  BY DEF Configure
<1>2. att[a] \in Attempt /\ att \in [Attempts -> Attempt]
  BY AttemptHas, AttemptIsTyped
<1>3. CASE LoadsKnownHosts(a)
  <2>1. PICK s \in Readings :
          att' = [att EXCEPT ![a].phase = "loaded", ![a].store = s, ![a].unsure = Unsure]
    BY <1>3 DEF LoadsKnownHosts
  <2> DEFINE r == [att[a] EXCEPT !.phase = "loaded", !.store = s, !.unsure = Unsure]
  <2>2. Unsure \subseteq Hosts
    BY DEF Unsure, CertInv, TypeOK
  <2>3. /\ r \in Attempt /\ r.phase = "loaded" /\ r.cert = att[a].cert /\ r.store = s
        /\ r.host = att[a].host /\ r.todo = att[a].todo /\ r.unsure = Unsure
    BY <1>2, <2>2, ReadingIsRight DEF Attempt, Phases
  <2>4. att' = [att EXCEPT ![a] = r]
    BY <1>2, <2>1
  <2> HIDE DEF r
  <2>5. \A h \in Hosts : Saved(h) =>
          Fixed(h, r.store[h]) /\ (r.host = h => Fixed(h, r.cert))
    BY <2>3, ReadingIsRight, AttemptHas
  <2>6. \A h \in Hosts \ r.unsure : r.store[h] = remembered[h]
    BY <2>3, ReadingIsRight
  <2>7. /\ r.phase = "writing" <=> att[a].phase = "writing"
        /\ r.phase # "writing" /\ r.phase # "none" /\ r.phase \notin Deciding
    BY <1>0, <2>3 DEF Deciding
  <2> QED
    BY <1>1, <2>3, <2>4, <2>5, <2>6, <2>7, AttemptMoves
<1>4. CASE Becomes(a, "panicked")
  <2>1. "panicked" \in Phases \ {"none", "writing"} /\ "panicked" \notin Deciding
    BY DEF Phases, Ended, Deciding
  <2>2. att' = [att EXCEPT ![a].phase = "panicked"] /\ att[a].phase # "writing"
    BY <1>0, <1>4 DEF Becomes
  <2> QED
    BY <1>1, <2>1, <2>2, PhaseMoves
<1> QED
  BY <1>1, <1>3, <1>4

LEMMA VerifyKeeps ==
  ASSUME CertInv, NEW a \in Attempts, Verify(a)
  PROVE  CertInv'
<1> DEFINE h == att[a].host
           status == StatusOf(att[a].store[h], serving[h])
           r == [att[a] EXCEPT !.cert = serving[h], !.phase = Behaves(a, status)]
<1>1. /\ att[a].phase = "loaded" /\ serving[h] # 0
      /\ att' = [att EXCEPT ![a].cert = serving[h], ![a].phase = Behaves(a, status)]
      /\ UNCHANGED <<serverVars, config, restarts, file, remembered, lost>>
  BY DEF Verify, ClientOnly
<1>2. att[a] \in Attempt /\ att \in [Attempts -> Attempt] /\ h \in Hosts
  BY AttemptHas, AttemptIsTyped DEF Attempt
<1>3. Behaves(a, status) \in {"failed", "accepted", "storing", "asking", "panicked"}
  <2>1. status \in Statuses
    BY DEF StatusOf, Statuses
  <2> QED
    BY <2>1, BehavesEnds DEF CertInv
<1>4. serving[h] \in 0..MaxCerts
  BY <1>2 DEF CertInv, TypeOK
<1> HIDE DEF status, h
<1>5. /\ r \in Attempt /\ r.phase = Behaves(a, status) /\ r.cert = serving[h]
      /\ r.store = att[a].store
      /\ r.host = att[a].host /\ r.todo = att[a].todo /\ r.unsure = att[a].unsure
  BY <1>2, <1>3, <1>4 DEF Attempt, Phases, Ended
<1>6. att' = [att EXCEPT ![a] = r]
  BY <1>1, <1>2
<1> HIDE DEF r
<1>7. \A g \in Hosts : Saved(g) =>
        Fixed(g, r.store[g]) /\ (r.host = g => Fixed(g, r.cert))
  <2>1. \A g \in Hosts : Saved(g) => Fixed(g, r.store[g])
    BY <1>5, AttemptHas
  <2>2. \A g \in Hosts : Saved(g) => Fixed(g, serving[g])
    BY DEF CertInv, SeenInv
  <2>3. r.host = h /\ r.cert = serving[h]
    BY <1>5 DEF h
  <2> QED
    BY <2>1, <2>2, <2>3
<1>8. \A g \in Hosts \ r.unsure : r.store[g] = remembered[g]
  BY <1>1, <1>5, AttemptHas
<1>9. /\ r.phase = "writing" <=> att[a].phase = "writing"
      /\ r.phase # "writing" /\ r.phase # "none" /\ r.cert # 0
  BY <1>1, <1>3, <1>5
<1> QED
  BY <1>1, <1>5, <1>6, <1>7, <1>8, <1>9, AttemptMoves

LEMMA DialFailsKeeps ==
  ASSUME CertInv, NEW a \in Attempts, DialFails(a)
  PROVE  CertInv'
<1>1. /\ att[a].phase = "loaded" /\ att' = [att EXCEPT ![a].phase = "failed"]
      /\ UNCHANGED <<serverVars, config, restarts, file, remembered, lost>>
  BY DEF DialFails, ClientOnly, Becomes
<1>2. "failed" \in Phases \ {"none", "writing"} /\ "failed" \notin Deciding
  BY DEF Phases, Ended, Deciding
<1>3. att[a].phase # "writing"
  BY <1>1
<1> QED
  BY <1>1, <1>2, <1>3, PhaseMoves

LEMMA AnswerKeeps ==
  ASSUME CertInv, NEW a \in Attempts, Answer(a)
  PROVE  CertInv'
<1>1. /\ att[a].phase = "asking"
      /\ UNCHANGED <<serverVars, config, restarts, file, remembered, lost>>
  BY DEF Answer, ClientOnly
<1>2. PICK phase \in {"failed", "accepted", "storing"} :
        att' = [att EXCEPT ![a].phase = phase]
  <2>1. CASE \E action \in Actions : Becomes(a, PhaseAfter(action))
    BY <2>1, PhaseAfterEnds DEF Becomes
  <2>2. CASE Becomes(a, Unanswered)
    BY <2>2 DEF Becomes, Unanswered
  <2> QED
    BY <2>1, <2>2 DEF Answer
<1>3. phase \in Phases \ {"none", "writing"} /\ phase # "loaded"
  BY DEF Phases, Ended
<1>4. att[a].phase # "writing" /\ att[a].phase \in Deciding
  BY <1>1 DEF Deciding
<1> QED
  BY <1>1, <1>2, <1>3, <1>4, PhaseMoves

LEMMA AbandonKeeps ==
  ASSUME CertInv, NEW a \in Attempts, Abandon(a)
  PROVE  CertInv'
<1> DEFINE r == [att[a] EXCEPT !.owned = FALSE]
<1>1. /\ att' = [att EXCEPT ![a].owned = FALSE]
      /\ UNCHANGED <<serverVars, config, restarts, file, remembered, lost>>
  BY DEF Abandon, ClientOnly
<1>2. att[a] \in Attempt /\ att \in [Attempts -> Attempt]
  BY AttemptHas, AttemptIsTyped
<1>3. /\ r \in Attempt /\ r.phase = att[a].phase /\ r.cert = att[a].cert
      /\ r.store = att[a].store
      /\ r.host = att[a].host /\ r.todo = att[a].todo /\ r.unsure = att[a].unsure
  BY <1>2 DEF Attempt
<1>4. att' = [att EXCEPT ![a] = r]
  BY <1>1, <1>2
<1> HIDE DEF r
<1>5. \A h \in Hosts : Saved(h) =>
        Fixed(h, r.store[h]) /\ (r.host = h => Fixed(h, r.cert))
  BY <1>3, AttemptHas
<1>6. /\ r.phase = "none" => r.cert = 0
      /\ r.phase \in Deciding => r.cert # 0
      /\ r.phase = "writing" <=> att[a].phase = "writing"
  BY <1>3, AttemptHas
<1>7. \A h \in Hosts \ r.unsure :
        r.phase \in Deciding \cup {"loaded"} => r.store[h] = remembered[h]
  BY <1>3, AttemptHas
<1> QED
  BY <1>1, <1>3, <1>4, <1>5, <1>6, <1>7, AttemptMoves

----------------------------------------------------------------------------
(* The writing of the file of known hosts.                                 *)

(* What the client does leaves the endpoints alone.                        *)
LEMMA ClientLeavesServer ==
  ASSUME CertInv, UNCHANGED <<serverVars, config>>,
         att' \in [Attempts -> Attempt],
         file' \in [lines : SUBSET (Hosts \X Certs), torn : BOOLEAN, mixed : BOOLEAN],
         remembered' \in [Hosts -> 0..MaxCerts], lost' \subseteq Hosts,
         restarts' \in 0..MaxRestarts,
         \A h \in Hosts : Saved(h) =>
           /\ \A c \in Certs : <<h, c>> \in file'.lines => Fixed(h, c)
           /\ \A b \in Attempts :
                /\ Fixed(h, att'[b].store[h])
                /\ att'[b].host = h => Fixed(h, att'[b].cert)
                /\ \A c \in Certs : <<h, c>> \in att'[b].todo => Fixed(h, c)
  PROVE  TypeOK' /\ FilesInv' /\ SeenInv'
<1>1. UNCHANGED <<mode, made, certFile, keyFile, saving, serving, config>>
  BY DEF serverVars
<1>2. TypeOK /\ FilesInv /\ SeenInv
  BY DEF CertInv
<1>3. TypeOK'
  BY <1>1, <1>2 DEF TypeOK, Attempt
<1>4. FilesInv'
  BY <1>1, <1>2 DEF FilesInv
<1>5. SeenInv'
  <2> SUFFICES ASSUME NEW h \in Hosts, Saved(h)'
               PROVE  /\ Fixed(h, serving[h])'
                      /\ \A c \in Certs : <<h, c>> \in file'.lines => Fixed(h, c)'
                      /\ \A b \in Attempts :
                           /\ Fixed(h, att[b].store[h])'
                           /\ att'[b].host = h => Fixed(h, att[b].cert)'
                           /\ \A c \in Certs : <<h, c>> \in att'[b].todo => Fixed(h, c)'
    BY DEF SeenInv
  <2>1. Saved(h) /\ Fixed(h, serving[h])
    BY <1>1, <1>2 DEF Saved, SeenInv
  <2>2. Fixed(h, serving[h])' /\ \A c \in Certs : <<h, c>> \in file'.lines => Fixed(h, c)'
    BY <1>1, <2>1 DEF Fixed
  <2>3. ASSUME NEW b \in Attempts
        PROVE  /\ Fixed(h, att[b].store[h])'
               /\ att'[b].host = h => Fixed(h, att[b].cert)'
               /\ \A c \in Certs : <<h, c>> \in att'[b].todo => Fixed(h, c)'
    <3>1. /\ Fixed(h, att'[b].store[h])
          /\ att'[b].host = h => Fixed(h, att'[b].cert)
          /\ \A c \in Certs : <<h, c>> \in att'[b].todo => Fixed(h, c)
      BY <2>1
    <3> QED
      BY <1>1, <3>1 DEF Fixed
  <2> QED
    BY <2>2, <2>3
<1> QED
  BY <1>3, <1>4, <1>5

(* The copy a connection writes: what it loaded, and its own certificate.  *)
LEMMA StoreCloneHas ==
  ASSUME CertInv, NEW a \in Attempts
  PROVE  /\ StoreClone(a) \subseteq Hosts \X Certs
         /\ \A h \in Hosts, c \in Certs :
              <<h, c>> \in StoreClone(a) <=>
                c = IF h = att[a].host THEN att[a].cert ELSE att[a].store[h]
<1> DEFINE s == [att[a].store EXCEPT ![att[a].host] = att[a].cert]
<1>1. att[a].store \in [Hosts -> 0..MaxCerts] /\ att[a].cert \in 0..MaxCerts
  BY AttemptIsTyped DEF Attempt
<1>2. /\ s \in [Hosts -> 0..MaxCerts]
      /\ \A h \in Hosts : s[h] = IF h = att[a].host THEN att[a].cert ELSE att[a].store[h]
  BY <1>1
<1>3. StoreClone(a) = {<<h, s[h]>> : h \in {g \in Hosts : s[g] # 0}}
  BY DEF StoreClone
<1> HIDE DEF s
<1>4. \A c \in 0..MaxCerts : c # 0 => c \in Certs
  BY CertificatesAssumption DEF CertificatesAssumption, Certs
<1>5. StoreClone(a) \subseteq Hosts \X Certs
  BY <1>2, <1>3, <1>4
<1>6. \A h \in Hosts, c \in Certs : <<h, c>> \in StoreClone(a) <=> c = s[h]
  <2>1. \A c \in Certs : c # 0
    BY DEF Certs
  <2> QED
    BY <1>3, <2>1
<1> QED
  BY <1>2, <1>5, <1>6

LEMMA CreateFileKeeps ==
  ASSUME CertInv, NEW a \in Attempts, CreateFile(a)
  PROVE  CertInv'
<1>1. /\ att[a].phase = "storing"
      /\ att' = [att EXCEPT ![a].phase = "writing", ![a].todo = StoreClone(a)]
      /\ UNCHANGED <<serverVars, config, restarts, remembered, lost>>
  BY DEF CreateFile, ClientOnly
<1>2. /\ file'.lines = {} /\ (~file'.mixed => Writers = {})
      /\ file' \in [lines : SUBSET (Hosts \X Certs), torn : BOOLEAN, mixed : BOOLEAN]
  BY DEF CreateFile
<1>3. att \in [Attempts -> Attempt] /\ TypeOK /\ SeenInv /\ PhaseInv /\ CopyInv
  BY AttemptIsTyped DEF CertInv
<1>4. /\ att'[a].phase = "writing" /\ att'[a].todo = StoreClone(a)
      /\ att'[a].store = att[a].store /\ att'[a].host = att[a].host
      /\ att'[a].cert = att[a].cert /\ att'[a].unsure = att[a].unsure
      /\ \A b \in Attempts \ {a} : att'[b] = att[b]
  BY <1>1, <1>3 DEF Attempt
<1>5. att' \in [Attempts -> Attempt]
  <2>1. "writing" \in Phases /\ StoreClone(a) \subseteq Hosts \X Certs
    BY StoreCloneHas DEF Phases
  <2> QED
    BY <1>1, <1>3, <2>1, ZenonT(60) DEF Attempt
<1>6. TypeOK' /\ FilesInv' /\ SeenInv'
  <2>1. ASSUME NEW h \in Hosts, Saved(h), NEW b \in Attempts
        PROVE  /\ Fixed(h, att'[b].store[h])
               /\ att'[b].host = h => Fixed(h, att'[b].cert)
               /\ \A c \in Certs : <<h, c>> \in att'[b].todo => Fixed(h, c)
    <3>1. /\ Fixed(h, att[b].store[h])
          /\ att[b].host = h => Fixed(h, att[b].cert)
          /\ \A c \in Certs : <<h, c>> \in att[b].todo => Fixed(h, c)
      BY <1>3, <2>1 DEF SeenInv
    <3>2. CASE b # a
      BY <1>4, <3>1, <3>2
    <3>3. CASE b = a
      <4>1. \A c \in Certs : <<h, c>> \in att'[b].todo => Fixed(h, c)
        BY <1>4, <3>1, <3>3, StoreCloneHas
      <4> QED
        BY <1>4, <3>1, <3>3, <4>1
    <3> QED
      BY <3>2, <3>3
  <2>2. /\ remembered' \in [Hosts -> 0..MaxCerts] /\ lost' \subseteq Hosts
        /\ restarts' \in 0..MaxRestarts
    BY <1>1, <1>3 DEF TypeOK
  <2>3. \A h \in Hosts : Saved(h) =>
           /\ \A c \in Certs : <<h, c>> \in file'.lines => Fixed(h, c)
           /\ \A b \in Attempts :
                /\ Fixed(h, att'[b].store[h])
                /\ att'[b].host = h => Fixed(h, att'[b].cert)
                /\ \A c \in Certs : <<h, c>> \in att'[b].todo => Fixed(h, c)
    BY <1>2, <2>1
  <2> QED
    BY <1>1, <1>2, <1>5, <2>2, <2>3, ClientLeavesServer
<1>7. PhaseInv'
  BY <1>1, <1>3, <1>4 DEF PhaseInv, Deciding
<1>8. CopyInv'
  BY <1>1, <1>3, <1>4 DEF CopyInv, Deciding
<1>9. Writers' = Writers \cup {a}
  BY <1>4 DEF Writers
<1>10. WriterInv'
  <2> SUFFICES ASSUME NEW b \in Writers', ~file'.mixed
               PROVE  Writers' = {b} /\ file'.lines \cup att'[b].todo = StoreClone(b)'
    BY DEF WriterInv
  <2>1. Writers' = {a} /\ b = a
    BY <1>2, <1>9
  <2>2. StoreClone(a)' = StoreClone(a)
    BY <1>4 DEF StoreClone
  <2> QED
    BY <1>2, <1>4, <2>1, <2>2
<1>11. StoreKeeps'
  BY <1>9 DEF StoreKeeps
<1> QED
  BY <1>6, <1>7, <1>8, <1>10, <1>11 DEF CertInv

LEMMA BeginLineKeeps ==
  ASSUME CertInv, NEW a \in Attempts, BeginLine(a)
  PROVE  CertInv'
<1>1. /\ att[a].phase = "writing" /\ file' = [file EXCEPT !.torn = TRUE]
      /\ UNCHANGED <<serverVars, config, restarts, att, remembered, lost>>
  BY DEF BeginLine, ClientOnly
<1>2. att \in [Attempts -> Attempt] /\ TypeOK /\ SeenInv /\ PhaseInv /\ CopyInv /\ WriterInv
  BY AttemptIsTyped DEF CertInv
<1>3. /\ file'.lines = file.lines /\ file'.mixed = file.mixed
      /\ file' \in [lines : SUBSET (Hosts \X Certs), torn : BOOLEAN, mixed : BOOLEAN]
  BY <1>1, <1>2 DEF TypeOK
<1>4. TypeOK' /\ FilesInv' /\ SeenInv'
  <2>1. \A h \in Hosts : Saved(h) =>
           /\ \A c \in Certs : <<h, c>> \in file'.lines => Fixed(h, c)
           /\ \A b \in Attempts :
                /\ Fixed(h, att'[b].store[h])
                /\ att'[b].host = h => Fixed(h, att'[b].cert)
                /\ \A c \in Certs : <<h, c>> \in att'[b].todo => Fixed(h, c)
    BY <1>1, <1>2, <1>3 DEF SeenInv
  <2>2. /\ remembered' \in [Hosts -> 0..MaxCerts] /\ lost' \subseteq Hosts
        /\ restarts' \in 0..MaxRestarts /\ att' \in [Attempts -> Attempt]
    BY <1>1, <1>2 DEF TypeOK
  <2> QED
    BY <1>1, <1>3, <2>1, <2>2, ClientLeavesServer
<1>5. PhaseInv' /\ CopyInv'
  BY <1>1, <1>2 DEF PhaseInv, CopyInv
<1>6. Writers' = Writers /\ a \in Writers
  BY <1>1 DEF Writers
<1>7. WriterInv'
  BY <1>1, <1>2, <1>3, <1>6 DEF WriterInv, StoreClone
<1>8. StoreKeeps'
  BY <1>6 DEF StoreKeeps
<1> QED
  BY <1>4, <1>5, <1>7, <1>8 DEF CertInv

LEMMA EndLineKeeps ==
  ASSUME CertInv, NEW a \in Attempts, EndLine(a)
  PROVE  CertInv'
<1>1. /\ att[a].phase = "writing"
      /\ UNCHANGED <<serverVars, config, restarts, remembered, lost>>
  BY DEF EndLine, ClientOnly
<1>2. PICK line \in att[a].todo :
        /\ att' = [att EXCEPT ![a].todo = @ \ {line}]
        /\ file' = [file EXCEPT !.lines = @ \cup {line}, !.torn = FALSE]
  BY DEF EndLine
<1>3. att \in [Attempts -> Attempt] /\ TypeOK /\ SeenInv /\ PhaseInv /\ CopyInv /\ WriterInv
  BY AttemptIsTyped DEF CertInv
<1>4. /\ att'[a].phase = att[a].phase /\ att'[a].todo = att[a].todo \ {line}
      /\ att'[a].store = att[a].store /\ att'[a].host = att[a].host
      /\ att'[a].cert = att[a].cert /\ att'[a].unsure = att[a].unsure
      /\ \A b \in Attempts \ {a} : att'[b] = att[b]
  BY <1>2, <1>3 DEF Attempt
<1>5. att[a].todo \subseteq Hosts \X Certs /\ line \in Hosts \X Certs
  BY <1>2, <1>3 DEF Attempt
<1>6. att' \in [Attempts -> Attempt]
  BY <1>2, <1>3, <1>5 DEF Attempt
<1>7. /\ file'.lines = file.lines \cup {line} /\ file'.mixed = file.mixed
      /\ file' \in [lines : SUBSET (Hosts \X Certs), torn : BOOLEAN, mixed : BOOLEAN]
  BY <1>2, <1>3, <1>5 DEF TypeOK
<1>8. TypeOK' /\ FilesInv' /\ SeenInv'
  <2>1. ASSUME NEW h \in Hosts, Saved(h)
        PROVE  /\ \A c \in Certs : <<h, c>> \in file'.lines => Fixed(h, c)
               /\ \A b \in Attempts :
                    /\ Fixed(h, att'[b].store[h])
                    /\ att'[b].host = h => Fixed(h, att'[b].cert)
                    /\ \A c \in Certs : <<h, c>> \in att'[b].todo => Fixed(h, c)
    <3>1. /\ \A c \in Certs : <<h, c>> \in file.lines => Fixed(h, c)
          /\ \A b \in Attempts :
               /\ Fixed(h, att[b].store[h])
               /\ att[b].host = h => Fixed(h, att[b].cert)
               /\ \A c \in Certs : <<h, c>> \in att[b].todo => Fixed(h, c)
      BY <1>3, <2>1 DEF SeenInv
    <3>2. \A c \in Certs : <<h, c>> \in file'.lines => Fixed(h, c)
      BY <1>2, <1>7, <3>1
    <3>3. ASSUME NEW b \in Attempts
          PROVE  /\ Fixed(h, att'[b].store[h])
                 /\ att'[b].host = h => Fixed(h, att'[b].cert)
                 /\ \A c \in Certs : <<h, c>> \in att'[b].todo => Fixed(h, c)
      <4>1. CASE b = a
        BY <1>4, <3>1, <4>1
      <4>2. CASE b # a
        BY <1>4, <3>1, <4>2
      <4> QED
        BY <4>1, <4>2
    <3> QED
      BY <3>2, <3>3
  <2>2. /\ remembered' \in [Hosts -> 0..MaxCerts] /\ lost' \subseteq Hosts
        /\ restarts' \in 0..MaxRestarts
    BY <1>1, <1>3 DEF TypeOK
  <2> QED
    BY <1>1, <1>6, <1>7, <2>1, <2>2, ClientLeavesServer
<1>9. PhaseInv'
  BY <1>3, <1>4 DEF PhaseInv
<1>10. CopyInv'
  BY <1>1, <1>3, <1>4 DEF CopyInv
<1>11. Writers' = Writers /\ a \in Writers
  BY <1>1, <1>4 DEF Writers
<1>12. WriterInv'
  <2> SUFFICES ASSUME NEW b \in Writers, ~file'.mixed
               PROVE  Writers = {b} /\ file'.lines \cup att'[b].todo = StoreClone(b)'
    BY <1>11 DEF WriterInv
  <2>1. Writers = {a} /\ b = a /\ file.lines \cup att[a].todo = StoreClone(a)
    BY <1>3, <1>7, <1>11 DEF WriterInv
  <2>2. StoreClone(a)' = StoreClone(a)
    BY <1>4 DEF StoreClone
  <2>3. file'.lines \cup att'[a].todo = file.lines \cup att[a].todo
    BY <1>2, <1>4, <1>7
  <2> QED
    BY <2>1, <2>2, <2>3
<1>13. StoreKeeps'
  BY <1>11 DEF StoreKeeps
<1> QED
  BY <1>8, <1>9, <1>10, <1>12, <1>13 DEF CertInv

(* The file written by a single writer has its copy.                       *)
LEMMA TrustUpdateKeeps ==
  ASSUME CertInv, NEW a \in Attempts, TrustUpdate(a)
  PROVE  CertInv'
<1> DEFINE host == att[a].host
           last == [att[a] EXCEPT !.phase = IF att[a].owned THEN "accepted" ELSE "failed"]
<1>1. /\ att[a].phase = "writing" /\ att[a].todo = {}
      /\ att' = [b \in Attempts |-> IF b = a THEN last
                                    ELSE [att[b] EXCEPT !.unsure = @ \cup {host}]]
      /\ remembered' = [remembered EXCEPT ![host] = att[a].cert]
      /\ lost' = IF file.mixed THEN Hosts ELSE (lost \cup att[a].unsure) \ {host}
      /\ UNCHANGED <<serverVars, config, restarts, file>>
  BY DEF TrustUpdate, ClientOnly
<1>2. /\ att \in [Attempts -> Attempt] /\ TypeOK /\ SeenInv /\ PhaseInv /\ CopyInv
      /\ WriterInv
  BY AttemptIsTyped DEF CertInv
<1>3. host \in Hosts /\ att[a].cert \in 0..MaxCerts /\ att[a].cert # 0
      /\ att[a].unsure \subseteq Hosts
  BY <1>1, <1>2 DEF Attempt, PhaseInv, Deciding
<1>4. /\ last \in Attempt /\ last.phase \in {"accepted", "failed"}
      /\ last.store = att[a].store /\ last.host = att[a].host
      /\ last.cert = att[a].cert /\ last.todo = att[a].todo
  BY <1>2 DEF Attempt, Phases, Ended
<1> HIDE DEF last, host
<1>5. \A b \in Attempts \ {a} :
        /\ [att[b] EXCEPT !.unsure = @ \cup {host}] \in Attempt
        /\ att'[b].phase = att[b].phase /\ att'[b].todo = att[b].todo
        /\ att'[b].store = att[b].store /\ att'[b].host = att[b].host
        /\ att'[b].cert = att[b].cert /\ att'[b].unsure = att[b].unsure \cup {host}
  BY <1>1, <1>2, <1>3 DEF Attempt
<1>6. att'[a] = last
  BY <1>1
<1>7. att' \in [Attempts -> Attempt]
  BY <1>1, <1>4, <1>5
<1>8. /\ remembered' \in [Hosts -> 0..MaxCerts] /\ lost' \subseteq Hosts
      /\ remembered'[host] = att[a].cert
      /\ \A h \in Hosts \ {host} : remembered'[h] = remembered[h]
  BY <1>1, <1>2, <1>3 DEF TypeOK
<1>9. TypeOK' /\ FilesInv' /\ SeenInv'
  <2>1. ASSUME NEW h \in Hosts, Saved(h)
        PROVE  /\ \A c \in Certs : <<h, c>> \in file'.lines => Fixed(h, c)
               /\ \A b \in Attempts :
                    /\ Fixed(h, att'[b].store[h])
                    /\ att'[b].host = h => Fixed(h, att'[b].cert)
                    /\ \A c \in Certs : <<h, c>> \in att'[b].todo => Fixed(h, c)
    <3>1. /\ \A c \in Certs : <<h, c>> \in file.lines => Fixed(h, c)
          /\ \A b \in Attempts :
               /\ Fixed(h, att[b].store[h])
               /\ att[b].host = h => Fixed(h, att[b].cert)
               /\ \A c \in Certs : <<h, c>> \in att[b].todo => Fixed(h, c)
      BY <1>2, <2>1 DEF SeenInv
    <3>2. ASSUME NEW b \in Attempts
          PROVE  /\ att'[b].todo = att[b].todo /\ att'[b].store = att[b].store
                 /\ att'[b].host = att[b].host /\ att'[b].cert = att[b].cert
      BY <1>4, <1>5, <1>6
    <3> QED
      BY <1>1, <3>1, <3>2
  <2>2. /\ restarts' \in 0..MaxRestarts
        /\ file' \in [lines : SUBSET (Hosts \X Certs), torn : BOOLEAN, mixed : BOOLEAN]
    BY <1>1, <1>2 DEF TypeOK
  <2> QED
    BY <1>1, <1>7, <1>8, <2>1, <2>2, ClientLeavesServer
<1>10. PhaseInv'
  <2>1. /\ att'[a].phase # "none" /\ att'[a].phase \notin Deciding \cup {"loaded"}
    BY <1>4, <1>6 DEF Deciding
  <2> QED
    BY <1>2, <1>5, <2>1 DEF PhaseInv
<1>11. CopyInv'
  <2> SUFFICES ASSUME NEW b \in Attempts, NEW h \in Hosts \ att'[b].unsure,
                      att'[b].phase \in Deciding \cup {"loaded"}
               PROVE  att'[b].store[h] = remembered'[h]
    BY DEF CopyInv
  <2>1. b # a
    BY <1>4, <1>6 DEF Deciding
  <2>2. att[b].phase \in Deciding \cup {"loaded"} /\ h \notin att[b].unsure /\ h # host
    BY <1>5, <2>1
  <2>3. att[b].store[h] = remembered[h]
    BY <1>2, <2>2 DEF CopyInv
  <2> QED
    BY <1>5, <1>8, <2>1, <2>2, <2>3
<1>12. a \in Writers /\ Writers' = Writers \ {a}
  <2>1. att'[a].phase # "writing"
    BY <1>4, <1>6
  <2> QED
    BY <1>1, <1>5, <2>1 DEF Writers
<1>13. ~file.mixed => Writers' = {} /\ file.lines = StoreClone(a)
  BY <1>1, <1>2, <1>12 DEF WriterInv
<1>14. WriterInv'
  BY <1>1, <1>13 DEF WriterInv
<1>15. StoreKeeps'
  <2> SUFFICES ASSUME Writers' = {}, NEW h \in Hosts \ lost'
               PROVE  {c \in Certs : <<h, c>> \in file'.lines} = {remembered'[h]} \ {0}
    BY DEF StoreKeeps
  <2>1. ~file.mixed /\ h \in Hosts /\ (h = host \/ h \notin att[a].unsure)
    BY <1>1
  <2>2. file'.lines = StoreClone(a)
    BY <1>1, <1>13, <2>1
  <2>3. \A c \in Certs : <<h, c>> \in file'.lines <=> c = remembered'[h]
    <3>1. CASE h = host
      BY <1>8, <2>2, <3>1, StoreCloneHas DEF host
    <3>2. CASE h # host
      <4>1. att[a].store[h] = remembered[h]
        BY <1>1, <1>2, <2>1, <3>2 DEF CopyInv, Deciding
      <4> QED
        BY <1>8, <2>1, <2>2, <3>2, <4>1, StoreCloneHas DEF host
    <3> QED
      BY <3>1, <3>2
  <2>4. remembered'[h] \in 0..MaxCerts
    BY <1>8
  <2>5. \A c \in 0..MaxCerts : c \in Certs <=> c # 0
    BY CertificatesAssumption DEF CertificatesAssumption, Certs
  <2>6. \A c \in Certs : c \in 0..MaxCerts
    BY CertificatesAssumption DEF CertificatesAssumption, Certs
  <2> QED
    BY <2>3, <2>4, <2>5, <2>6
<1> QED
  BY <1>9, <1>10, <1>11, <1>14, <1>15 DEF CertInv

LEMMA RestartKeeps ==
  ASSUME CertInv, Restart
  PROVE  CertInv'
<1>1. /\ restarts < MaxRestarts /\ restarts' = restarts + 1
      /\ lost' = IF Writers # {} THEN Hosts ELSE lost
      /\ att' = [a \in Attempts |->
           IF att[a].phase \in Ended \cup {"none"} THEN att[a]
           ELSE [att[a] EXCEPT !.phase = "gone"]]
      /\ UNCHANGED <<serverVars, config, file, remembered>>
  BY DEF Restart
<1>2. /\ att \in [Attempts -> Attempt] /\ TypeOK /\ SeenInv /\ PhaseInv /\ StoreKeeps
  BY AttemptIsTyped DEF CertInv
<1>3. \A a \in Attempts :
        /\ att'[a] \in Attempt /\ att'[a].phase \in Ended \cup {"none"}
        /\ att'[a].phase = "none" => att[a].phase = "none"
        /\ att'[a].store = att[a].store /\ att'[a].host = att[a].host
        /\ att'[a].cert = att[a].cert /\ att'[a].todo = att[a].todo
  BY <1>1, <1>2 DEF Attempt, Phases, Ended
<1>4. att' \in [Attempts -> Attempt]
  BY <1>1, <1>3
<1>5. TypeOK' /\ FilesInv' /\ SeenInv'
  <2>1. /\ remembered' \in [Hosts -> 0..MaxCerts] /\ lost' \subseteq Hosts
        /\ file' \in [lines : SUBSET (Hosts \X Certs), torn : BOOLEAN, mixed : BOOLEAN]
    BY <1>1, <1>2 DEF TypeOK
  <2>2. restarts' \in 0..MaxRestarts
    <3>1. MaxRestarts \in Nat /\ restarts \in 0..MaxRestarts
      BY <1>2, CertificatesAssumption DEF CertificatesAssumption, TypeOK
    <3> QED
      BY <1>1, <3>1
  <2>3. ASSUME NEW h \in Hosts, Saved(h)
        PROVE  /\ \A c \in Certs : <<h, c>> \in file'.lines => Fixed(h, c)
               /\ \A b \in Attempts :
                    /\ Fixed(h, att'[b].store[h])
                    /\ att'[b].host = h => Fixed(h, att'[b].cert)
                    /\ \A c \in Certs : <<h, c>> \in att'[b].todo => Fixed(h, c)
    <3>1. /\ \A c \in Certs : <<h, c>> \in file.lines => Fixed(h, c)
          /\ \A b \in Attempts :
               /\ Fixed(h, att[b].store[h])
               /\ att[b].host = h => Fixed(h, att[b].cert)
               /\ \A c \in Certs : <<h, c>> \in att[b].todo => Fixed(h, c)
      BY <1>2, <2>3 DEF SeenInv
    <3> QED
      BY <1>1, <1>3, <3>1
  <2> QED
    BY <1>1, <1>4, <2>1, <2>2, <2>3, ClientLeavesServer
<1>6. PhaseInv'
  BY <1>2, <1>3 DEF PhaseInv, Deciding, Ended
<1>7. CopyInv'
  BY <1>3 DEF CopyInv, Deciding, Ended
<1>8. Writers' = {}
  BY <1>3 DEF Writers, Ended
<1>9. WriterInv'
  BY <1>8 DEF WriterInv
<1>10. StoreKeeps'
  BY <1>1, <1>2 DEF StoreKeeps
<1> QED
  BY <1>5, <1>6, <1>7, <1>9, <1>10 DEF CertInv

----------------------------------------------------------------------------
LEMMA TaskKeeps ==
  ASSUME CertInv, NEW a \in Attempts, Task(a)
  PROVE  CertInv'
BY ConfigureKeeps, VerifyKeeps, DialFailsKeeps, AnswerKeeps, CreateFileKeeps,
   BeginLineKeeps, EndLineKeeps, TrustUpdateKeeps DEF Task

LEMMA StepKeepsCerts ==
  ASSUME CertInv, [Next]_vars
  PROVE  CertInv'
<1>1. CASE \E h \in Hosts : Server(h)
  BY <1>1, StartKeeps, WriteKeeps, StopKeeps DEF Server
<1>2. CASE \E a \in Attempts : Task(a) \/ Abandon(a) \/ \E h \in Hosts : Open(a, h)
  BY <1>2, TaskKeeps, AbandonKeeps, OpenKeeps
<1>3. CASE Restart
  BY <1>3, RestartKeeps
<1>4. CASE UNCHANGED vars
  BY <1>4 DEF vars, serverVars, CertInv, TypeOK, FilesInv, SeenInv, Saved, Fixed,
     PhaseInv, CopyInv, WriterInv, StoreKeeps, Writers, StoreClone
<1> QED
  BY <1>1, <1>2, <1>3, <1>4 DEF Next

LEMMA CertsAlways == Spec => []CertInv
<1>1. Init => CertInv
  BY InitCertInv
<1>2. CertInv /\ [Next]_vars => CertInv'
  BY StepKeepsCerts
<1> QED
  BY <1>1, <1>2, PTL DEF Spec

(* Every variable keeps to its values, an endpoint's files and the         *)
(* client's copies among them.                                             *)
THEOREM TypeCorrect == Spec => []TypeOK
<1>1. CertInv => TypeOK
  BY DEF CertInv
<1> QED
  BY <1>1, CertsAlways, PTL

(* However many connections load, decide and write at once, the file of    *)
(* known hosts has for every host the certificate stored last, but for the *)
(* hosts whose line another writer or the end of the program took away     *)
(* (client/certificate.rs, store_known_hosts_to_file).                     *)
THEOREM TheStoreKeeps == Spec => []StoreKeeps
<1>1. CertInv => StoreKeeps
  BY DEF CertInv
<1> QED
  BY <1>1, CertsAlways, PTL

(* An endpoint that saves its certificate, wherever it ended while it      *)
(* wrote the two files, has never shown any but the one they hold          *)
(* (server/certificate.rs, retrieve_certificate).                          *)
THEOREM SavedNeverChange == Spec => []SavedAreNotChanged
<1>1. ASSUME CertInv
      PROVE  SavedAreNotChanged
  <2> SUFFICES ASSUME NEW a \in Attempts, att[a].phase = "asking",
                      att[a].store[att[a].host] \notin {0, att[a].cert}
               PROVE  mode[att[a].host] \in {"GenerateSelfSigned", "LoadOrGenerate"}
    BY DEF SavedAreNotChanged
  <2>1. att[a].host \in Hosts /\ att[a].cert # 0
    BY <1>1, AttemptIsTyped, AttemptHas DEF Attempt, Deciding
  <2>2. ~Saved(att[a].host)
    BY <1>1, <2>1, AttemptHas DEF Fixed
  <2>3. mode[att[a].host] \in Retrievals
    BY <1>1, <2>1, CertificatesAssumption DEF CertificatesAssumption, CertInv, TypeOK
  <2> QED
    BY <2>2, <2>3 DEF Saved, Retrievals
<1> QED
  BY <1>1, CertsAlways, PTL

(* No connection takes, without asking, a certificate other than the one   *)
(* stored last for its host, when the copy it decides by is in order       *)
(* (client/certificate.rs, verify_server_cert).                            *)
LEMMA OnlyVerifyTakes ==
  ASSUME CertInv, [Next]_vars, NEW a \in Attempts,
         att[a].phase = "loaded", att'[a].phase \in {"accepted", "storing"}
  PROVE  Verify(a)
<1>1. att \in [Attempts -> Attempt]
  BY AttemptIsTyped
<1>2. UNCHANGED att => att'[a].phase = "loaded"
  OBVIOUS
<1>3. ASSUME NEW b \in Attempts \ {a}, Task(b) \/ Abandon(b) \/ \E h \in Hosts : Open(b, h)
      PROVE  att'[a].phase = "loaded"
  <2>1. CASE TrustUpdate(b)
    BY <1>1, <2>1 DEF TrustUpdate, Attempt
  <2>2. CASE Task(b) /\ ~TrustUpdate(b)
    BY <1>1, <2>2 DEF Task, Configure, LoadsKnownHosts, Becomes, Verify, DialFails,
       Answer, CreateFile, BeginLine, EndLine
  <2>3. CASE Abandon(b) \/ \E h \in Hosts : Open(b, h)
    BY <1>1, <2>3 DEF Abandon, Open
  <2> QED
    BY <1>3, <2>1, <2>2, <2>3
<1>4. CASE \E h \in Hosts : Server(h)
  BY <1>2, <1>4 DEF Server, StartEndpoint, WriteCertificate, WriteKey, StopsOrEnds
<1>5. CASE Restart
  BY <1>5 DEF Restart, Ended
<1>6. CASE Task(a) /\ ~Verify(a)
  <2>1. ~DialFails(a)
    <3>1. DialFails(a) => att'[a].phase = "failed"
      BY <1>1 DEF DialFails, Becomes, Attempt
    <3> QED
      BY <3>1
  <2>2. /\ ~Configure(a) /\ ~Answer(a) /\ ~CreateFile(a) /\ ~BeginLine(a)
        /\ ~EndLine(a) /\ ~TrustUpdate(a)
    BY DEF Configure, Answer, CreateFile, BeginLine, EndLine, TrustUpdate
  <2> QED
    BY <1>6, <2>1, <2>2 DEF Task
<1>7. CASE Abandon(a) \/ \E h \in Hosts : Open(a, h)
  BY <1>1, <1>7 DEF Abandon, Open, Attempt
<1>8. CASE UNCHANGED vars
  BY <1>2, <1>8 DEF vars
<1> QED
  BY <1>3, <1>4, <1>5, <1>6, <1>7, <1>8 DEF Next

THEOREM NeverTakenSilently == Spec => NeverSilently
<1> DEFINE Taken(a) ==
      /\ config["Untrusted"] \in {"AbortConnection", "RequestClientAction"}
      /\ att[a].phase = "loaded" /\ att'[a].phase \in {"accepted", "storing"}
      /\ att[a].host \notin att[a].unsure
<1>1. ASSUME CertInv, [Next]_vars, NEW a \in Attempts, Taken(a)
      PROVE  remembered[att[a].host] \in {0, att'[a].cert}
  <2> DEFINE h == att[a].host
             known == att[a].store[h]
  <2>1. Verify(a)
    BY <1>1, OnlyVerifyTakes
  <2>2. att[a] \in Attempt /\ att \in [Attempts -> Attempt] /\ h \in Hosts
    BY <1>1, AttemptHas, AttemptIsTyped DEF Attempt
  <2>3. /\ att'[a].cert = serving[h]
        /\ att'[a].phase = Behaves(a, StatusOf(known, serving[h]))
    BY <2>1, <2>2 DEF Verify, Attempt
  <2>4. known = remembered[h]
    BY <1>1, <2>2, AttemptHas
  <2>5. StatusOf(known, serving[h]) # "Untrusted"
    <3>1. PhaseAfter("AbortConnection") = "failed"
      BY DEF PhaseAfter
    <3>2. Behaves(a, "Untrusted") \in {"failed", "asking", "panicked"}
      BY <1>1, <3>1 DEF Behaves
    <3> QED
      BY <1>1, <2>3, <3>2
  <2>6. known \in {0, serving[h]}
    BY <2>5 DEF StatusOf
  <2> QED
    BY <2>3, <2>4, <2>6
<1>2. CertInv /\ [Next]_vars =>
        [\A a \in Attempts : Taken(a) => remembered[att[a].host] \in {0, att'[a].cert}]_vars
  BY <1>1
<1> QED
  BY <1>2, CertsAlways, PTL DEF Spec, NeverSilently
=============================================================================
