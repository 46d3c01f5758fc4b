------------------------ MODULE QuintetChannelsProofs ------------------------
(***************************************************************************)
(* Theorems about QuintetChannels, for any plan of channels, any payloads, *)
(* queues and windows of any size: the owner and the tasks keep to the     *)
(* types of their variables, what is queued is written before the link is  *)
(* closed, and each channel keeps the promise of its type.                 *)
(***************************************************************************)
EXTENDS QuintetChannels, SequenceTheorems, WellFoundedInduction, TLAPS

----------------------------------------------------------------------------
(* A task belongs to an open channel, and a request to a task nobody has   *)
(* made yet, once.                                                         *)
TaskInv ==
  /\ \A i \in Chans : task[i] = "none" <=> i \notin Opened
  /\ \A k \in 1..Len(requests) : task[requests[k]] = "requested"
  /\ \A k, l \in 1..Len(requests) : k # l => requests[k] # requests[l]

(* The link is closed by us or lost; we close it when every task is over.  *)
LinkInv ==
  /\ link = "closed" => linkLost \/ spawner = "done"
  /\ spawner = "done" => linkLost \/ AllFinished
  /\ \A i \in Chans : flying[i] # {} => i \in Opened

(* What of a channel the other end has received and its owner not taken.   *)
InOf(q, i) == {q[k].msg : k \in {l \in 1..Len(q) : q[l].chan = i}}
In(i) == InOf(inbox, i)
Taken(i) == IF got[i] = <<>> THEN 0 ELSE got[i][Len(got[i])].n

(* S is what was queued.  I, W and B are what has been received, written   *)
(* and not read, and queued and not written.                               *)
Known(S, P) == \A p \in P : p.n \in DOMAIN S /\ S[p.n] = p
Before(P, Q) == \A p \in P, q \in Q : p.n < q.n
Follows(S, N, last, p) ==
  /\ p.n \in (last + 1)..N /\ S[p.n] = p /\ Encodes(p)
  /\ \A j \in (last + 1)..(p.n - 1) : ~Encodes(S[j])
First(P, Q) == \A p \in P, q \in Q : q.n < p.n => q \in P

(* An ordered channel is a line: the parts follow each other, nothing that *)
(* can be encoded is missing before what was written, and, while the task  *)
(* may still write, nothing is missing at all.                             *)
Line(S, last, I, W, B, whole) ==
  /\ Known(S, I \cup W \cup B)
  /\ \A p \in I \cup W \cup B : last < p.n
  /\ Before(I, W) /\ Before(I, B) /\ Before(W, B)
  /\ \A p \in I \cup W : Encodes(p)
  /\ \A p \in I \cup W, j \in DOMAIN S :
       last < j /\ j < p.n /\ Encodes(S[j]) => S[j] \in I \cup W
  /\ whole => \A j \in DOMAIN S :
                last < j /\ Encodes(S[j]) => S[j] \in I \cup W \cup B

(* Of a channel without order every payload is in one place.               *)
Heap(S, G, I, W, F, B) ==
  /\ Known(S, G \cup I \cup W \cup F \cup B)
  /\ G \cap (I \cup W \cup F \cup B) = {}
  /\ I \cap (W \cup F \cup B) = {}
  /\ W \cap (F \cup B) = {}
  /\ F \cap B = {}

Rising(s) == \A k, l \in 1..Len(s) : k < l => s[k].n < s[l].n
Apart(s) == \A k, l \in 1..Len(s) : k # l => s[k] # s[l]
InRises(q, i) == \A k, l \in 1..Len(q) :
  k < l /\ q[k].chan = i /\ q[l].chan = i => q[k].msg.n < q[l].msg.n
InApart(q, i) == \A k, l \in 1..Len(q) :
  k # l /\ q[k].chan = i /\ q[l].chan = i => q[k].msg # q[l].msg

(* The stream is open at both ends and the task has not panicked.          *)
Whole(i) == link # "closed" /\ i \in reading /\ listening /\ task[i] # "gone"

InOrder(i) == i \in Opened /\ Type(i) = "OrderedReliable"
Numbered(i) == \A k \in 1..Len(sent[i]) : sent[i][k].n = k
LineAt(i) == Line(sent[i], Taken(i), In(i), ToSet(wire[i]), ToSet(buffer[i]), Whole(i))
HeapAt(i) == Heap(sent[i], ToSet(got[i]), In(i), ToSet(wire[i]), flying[i], ToSet(buffer[i]))
LineInv(i) ==
  /\ LineAt(i)
  /\ Rising(wire[i]) /\ InRises(inbox, i) /\ flying[i] = {}
  /\ Known(sent[i], ToSet(got[i]))
HeapInv(i) ==
  /\ HeapAt(i)
  /\ Apart(got[i]) /\ Apart(wire[i]) /\ InApart(inbox, i)

FlowOf(i) ==
  /\ i \notin Opened => sent[i] = <<>>
  /\ Numbered(i) /\ Rising(buffer[i])
  /\ InOrder(i) => LineInv(i)
  /\ ~InOrder(i) => HeapInv(i)
FlowInv == \A i \in Chans : FlowOf(i)

QInv == TypeOK /\ TaskInv /\ FlowInv

----------------------------------------------------------------------------
(* Sequences of payloads and the sets of their members.                    *)

LEMMA ToSetIs == ASSUME NEW D, NEW s \in Seq(D)
                 PROVE  /\ ToSet(s) = {s[k] : k \in 1..Len(s)}
                        /\ ToSet(s) \subseteq D
  BY LenProperties DEF ToSet

LEMMA ToSetEmpty == ToSet(<<>>) = {}
  BY DEF ToSet

LEMMA ToSetAppend == ASSUME NEW D, NEW s \in Seq(D), NEW e \in D
                     PROVE  ToSet(Append(s, e)) = ToSet(s) \cup {e}
<1> DEFINE t == Append(s, e)
<1>1. /\ t \in Seq(D) /\ Len(t) = Len(s) + 1 /\ t[Len(s) + 1] = e
      /\ \A k \in 1..Len(s) : t[k] = s[k]
  BY AppendProperties
<1>2. Len(s) \in Nat
  BY LenProperties
<1>3. /\ ToSet(s) = {s[k] : k \in 1..Len(s)} /\ ToSet(t) = {t[k] : k \in 1..Len(t)}
  BY <1>1, ToSetIs
<1> HIDE DEF t
<1>4. 1..Len(t) = 1..Len(s) \cup {Len(s) + 1}
  BY <1>1, <1>2
<1>5. QED
  BY <1>1, <1>3, <1>4, ZenonT(60) DEF t

LEMMA ToSetTail == ASSUME NEW D, NEW s \in Seq(D), s # <<>>
                   PROVE  /\ Head(s) \in ToSet(s) /\ Head(s) \in D
                          /\ ToSet(s) = {Head(s)} \cup ToSet(Tail(s))
<1> DEFINE t == Tail(s)
<1>1. /\ t \in Seq(D) /\ Len(t) = Len(s) - 1
      /\ \A k \in 1..Len(t) : t[k] = s[k + 1]
  BY HeadTailProperties
<1>2. Len(s) \in Nat \ {0} /\ Head(s) = s[1]
  BY EmptySeq
<1>3. /\ ToSet(s) = {s[k] : k \in 1..Len(s)} /\ ToSet(t) = {t[k] : k \in 1..Len(t)}
  BY <1>1, ToSetIs
<1> HIDE DEF t
<1>4. \A k \in 1..Len(s) : k = 1 \/ (k - 1 \in 1..Len(t) /\ t[k - 1] = s[k])
  BY <1>1, <1>2
<1>5. \A k \in 1..Len(t) : k + 1 \in 1..Len(s)
  BY <1>1, <1>2
<1>6. 1 \in 1..Len(s)
  BY <1>2
<1>7. ToSet(s) \subseteq {s[1]} \cup ToSet(t)
  <2>1. SUFFICES ASSUME NEW k \in 1..Len(s) PROVE s[k] \in {s[1]} \cup ToSet(t)
    BY <1>3, Zenon
  <2>2. CASE k = 1
    BY <2>2
  <2>3. CASE k - 1 \in 1..Len(t) /\ t[k - 1] = s[k]
    BY <1>3, <2>3, Zenon
  <2>4. QED
    BY <1>4, <2>2, <2>3
<1>8. {s[1]} \cup ToSet(t) \subseteq ToSet(s)
  BY <1>1, <1>3, <1>5, <1>6, Zenon
<1>9. s[1] \in D
  BY <1>6, ElementOfSeq
<1>10. QED
  BY <1>2, <1>6, <1>7, <1>8, <1>9 DEF t

LEMMA RisingAppend ==
  ASSUME NEW D, NEW s \in Seq(D), NEW e \in D, Rising(s),
         \A p \in ToSet(s) : p.n < e.n
  PROVE  Rising(Append(s, e))
<1> DEFINE t == Append(s, e)
<1>1. /\ Len(t) = Len(s) + 1 /\ t[Len(s) + 1] = e
      /\ \A k \in 1..Len(s) : t[k] = s[k]
  BY AppendProperties
<1>2. Len(s) \in Nat
  BY LenProperties
<1>0. ToSet(s) = {s[k] : k \in 1..Len(s)}
  BY ToSetIs
<1>3. \A k \in 1..Len(s) : s[k].n < e.n
  BY <1>0, Zenon
<1> HIDE DEF t
<1>4. ASSUME NEW k \in 1..Len(t), NEW l \in 1..Len(t), k < l PROVE t[k].n < t[l].n
  <2>1. k \in 1..Len(s) /\ (l \in 1..Len(s) \/ l = Len(s) + 1)
    BY <1>1, <1>2, <1>4
  <2>2. CASE l \in 1..Len(s)
    BY <1>1, <1>4, <2>1, <2>2 DEF Rising
  <2>3. CASE l = Len(s) + 1
    BY <1>1, <1>3, <2>1, <2>3
  <2>4. QED
    BY <2>1, <2>2, <2>3
<1>5. QED
  BY <1>4 DEF Rising, t

LEMMA RisingTail ==
  ASSUME NEW D, NEW s \in Seq(D), s # <<>>, Rising(s)
  PROVE  Rising(Tail(s)) /\ \A p \in ToSet(Tail(s)) : Head(s).n < p.n
<1> DEFINE t == Tail(s)
<1>1. /\ t \in Seq(D) /\ Len(t) = Len(s) - 1
      /\ \A k \in 1..Len(t) : t[k] = s[k + 1]
  BY HeadTailProperties
<1>2. Len(s) \in Nat \ {0} /\ Head(s) = s[1]
  BY EmptySeq
<1>3. ToSet(t) = {t[k] : k \in 1..Len(t)}
  BY <1>1, ToSetIs
<1> HIDE DEF t
<1>4. \A k, l \in 1..Len(t) : k < l => t[k].n < t[l].n
  BY <1>1, <1>2, SMTT(60) DEF Rising
<1>5. \A k \in 1..Len(t) : s[1].n < t[k].n
  BY <1>1, <1>2 DEF Rising
<1>6. QED
  BY <1>2, <1>3, <1>4, <1>5, Zenon DEF Rising, t

LEMMA ApartAppend ==
  ASSUME NEW D, NEW s \in Seq(D), NEW e \in D, Apart(s), e \notin ToSet(s)
  PROVE  Apart(Append(s, e))
<1> DEFINE t == Append(s, e)
<1>1. /\ Len(t) = Len(s) + 1 /\ t[Len(s) + 1] = e
      /\ \A k \in 1..Len(s) : t[k] = s[k]
  BY AppendProperties
<1>2. Len(s) \in Nat
  BY LenProperties
<1>0. ToSet(s) = {s[k] : k \in 1..Len(s)}
  BY ToSetIs
<1>3. \A k \in 1..Len(s) : s[k] # e
  BY <1>0, Zenon
<1> HIDE DEF t
<1>4. \A k \in 1..Len(t) : k \in 1..Len(s) \/ k = Len(s) + 1
  BY <1>1, <1>2
<1>5. \A k, l \in 1..Len(t) : k # l => t[k] # t[l]
  BY <1>1, <1>3, <1>4, Zenon DEF Apart
<1>6. QED
  BY <1>5 DEF Apart, t

LEMMA ApartTail ==
  ASSUME NEW D, NEW s \in Seq(D), s # <<>>, Apart(s)
  PROVE  Apart(Tail(s)) /\ Head(s) \notin ToSet(Tail(s))
<1> DEFINE t == Tail(s)
<1>1. /\ t \in Seq(D) /\ Len(t) = Len(s) - 1
      /\ \A k \in 1..Len(t) : t[k] = s[k + 1]
  BY HeadTailProperties
<1>2. Len(s) \in Nat \ {0} /\ Head(s) = s[1]
  BY EmptySeq
<1>3. ToSet(t) = {t[k] : k \in 1..Len(t)}
  BY <1>1, ToSetIs
<1> HIDE DEF t
<1>4. \A k, l \in 1..Len(t) : k # l => t[k] # t[l]
  BY <1>1, <1>2 DEF Apart
<1>5. \A k \in 1..Len(t) : s[1] # t[k]
  BY <1>1, <1>2 DEF Apart
<1>6. QED
  BY <1>2, <1>3, <1>4, <1>5, Zenon DEF Apart, t

(* A first part of a sequence.                                             *)
LEMMA Prefix ==
  ASSUME NEW D, NEW s \in Seq(D), NEW n \in Nat, n <= Len(s)
  PROVE  /\ SubSeq(s, 1, n) \in Seq(D) /\ Len(SubSeq(s, 1, n)) = n
         /\ \A k \in 1..n : SubSeq(s, 1, n)[k] = s[k]
         /\ ToSet(SubSeq(s, 1, n)) = {s[k] : k \in 1..n}
<1> DEFINE t == SubSeq(s, 1, n)
<1>1. Len(s) \in Nat
  BY LenProperties
<1>2. \A k \in 1..n : s[k] \in D
  BY <1>1, ElementOfSeq
<1>3. /\ t \in Seq(D) /\ Len(t) = IF 1 <= n THEN n - 1 + 1 ELSE 0
      /\ \A k \in 1..n - 1 + 1 : t[k] = s[1 + k - 1]
  BY <1>2, SubSeqProperties
<1> HIDE DEF t
<1>4. Len(t) = n /\ \A k \in 1..n : t[k] = s[k]
  BY <1>3
<1>5. ToSet(t) = {t[k] : k \in 1..n}
  BY <1>3, <1>4, ToSetIs
<1>6. QED
  BY <1>3, <1>4, <1>5, Zenon DEF t

(* RemoveAt leaves the other members, in their order.                      *)
LEMMA Removed ==
  ASSUME NEW D, NEW s \in Seq(D), NEW k \in 1..Len(s)
  PROVE  /\ RemoveAt(s, k) \in Seq(D) /\ Len(RemoveAt(s, k)) = Len(s) - 1
         /\ \A j \in 1..Len(s) - 1 :
              /\ (IF j < k THEN j ELSE j + 1) \in 1..Len(s) \ {k}
              /\ RemoveAt(s, k)[j] = s[IF j < k THEN j ELSE j + 1]
<1> DEFINE a == SubSeq(s, 1, k - 1)
           b == SubSeq(s, k + 1, Len(s))
<1>1. Len(s) \in Nat
  BY LenProperties
<1>2. /\ a \in Seq(D) /\ Len(a) = k - 1
      /\ \A j \in 1..k - 1 : a[j] = s[j]
  <2>1. k - 1 \in Nat /\ k - 1 <= Len(s)
    BY <1>1
  <2>2. QED
    BY <2>1, Prefix
<1>3. /\ b \in Seq(D) /\ Len(b) = Len(s) - k
      /\ \A j \in 1..Len(s) - k : b[j] = s[k + j]
  <2>1. \A j \in k + 1..Len(s) : s[j] \in D
    BY <1>1, ElementOfSeq
  <2>2. k + 1 \in Int /\ Len(s) \in Int
    BY <1>1
  <2>3. /\ b \in Seq(D) /\ Len(b) = IF k + 1 <= Len(s) THEN Len(s) - (k + 1) + 1 ELSE 0
        /\ \A j \in 1..Len(s) - (k + 1) + 1 : b[j] = s[k + 1 + j - 1]
    BY <2>1, <2>2, SubSeqProperties
  <2> HIDE DEF b
  <2>4. QED
    BY <1>1, <2>3, SMTT(60)
<1> HIDE DEF a, b
<1>4. /\ a \o b \in Seq(D) /\ Len(a \o b) = Len(a) + Len(b)
      /\ \A j \in 1..Len(a) + Len(b) : (a \o b)[j] = IF j <= Len(a) THEN a[j] ELSE b[j - Len(a)]
  BY <1>2, <1>3, ConcatProperties
<1>5. RemoveAt(s, k) = a \o b
  BY DEF RemoveAt, a, b
<1>6. \A j \in 1..Len(s) - 1 :
        /\ (IF j < k THEN j ELSE j + 1) \in 1..Len(s) \ {k}
        /\ (a \o b)[j] = s[IF j < k THEN j ELSE j + 1]
  <2>1. SUFFICES ASSUME NEW j \in 1..Len(s) - 1
                 PROVE  /\ (IF j < k THEN j ELSE j + 1) \in 1..Len(s) \ {k}
                        /\ (a \o b)[j] = s[IF j < k THEN j ELSE j + 1]
    OBVIOUS
  <2>2. (a \o b)[j] = IF j <= Len(a) THEN a[j] ELSE b[j - Len(a)]
    BY <1>1, <1>2, <1>3, <1>4
  <2>3. CASE j < k
    BY <1>1, <1>2, <2>2, <2>3
  <2>4. CASE ~ (j < k)
    <3>1. j - Len(a) \in 1..Len(s) - k /\ k + (j - Len(a)) = j + 1 /\ ~(j <= Len(a))
      BY <1>1, <1>2, <2>4
    <3>2. b[j - Len(a)] = s[k + (j - Len(a))]
      BY <1>3, <3>1
    <3>3. QED
      BY <1>1, <2>2, <2>4, <3>1, <3>2
  <2>5. QED
    BY <2>3, <2>4
<1>7. Len(a \o b) = Len(s) - 1
  BY <1>1, <1>2, <1>3, <1>4
<1>8. QED
  BY <1>4, <1>5, <1>6, <1>7, Zenon

LEMMA RemovedSet ==
  ASSUME NEW D, NEW s \in Seq(D), NEW k \in 1..Len(s)
  PROVE  /\ RemoveAt(s, k) \in Seq(D) /\ s[k] \in ToSet(s)
         /\ ToSet(RemoveAt(s, k)) \subseteq ToSet(s)
         /\ Apart(s) => Apart(RemoveAt(s, k)) /\ s[k] \notin ToSet(RemoveAt(s, k))
         /\ Rising(s) => Rising(RemoveAt(s, k))
<1> DEFINE t == RemoveAt(s, k)
           from(j) == IF j < k THEN j ELSE j + 1
<1>1. /\ t \in Seq(D) /\ Len(t) = Len(s) - 1
      /\ \A j \in 1..Len(t) : from(j) \in 1..Len(s) \ {k} /\ t[j] = s[from(j)]
  BY Removed
<1>2. Len(s) \in Nat
  BY LenProperties
<1>3. /\ ToSet(s) = {s[j] : j \in 1..Len(s)} /\ ToSet(t) = {t[j] : j \in 1..Len(t)}
  BY <1>1, ToSetIs
<1> HIDE DEF t
<1>4. \A i, j \in 1..Len(t) : /\ i # j => from(i) # from(j)
                              /\ i < j => from(i) < from(j)
  BY <1>1, <1>2
<1> HIDE DEF from
<1>5. ToSet(t) \subseteq ToSet(s)
  BY <1>1, <1>3, Zenon
<1>6. ASSUME Apart(s) PROVE Apart(t) /\ s[k] \notin ToSet(t)
  <2>1. \A i, j \in 1..Len(t) : i # j => t[i] # t[j]
    BY <1>1, <1>4, <1>6, Zenon DEF Apart
  <2>2. \A j \in 1..Len(t) : t[j] # s[k]
    BY <1>1, <1>6, Zenon DEF Apart
  <2>3. QED
    BY <1>3, <2>1, <2>2, Zenon DEF Apart
<1>7. ASSUME Rising(s) PROVE Rising(t)
  <2>1. \A i, j \in 1..Len(t) : i < j => t[i].n < t[j].n
    BY <1>1, <1>4, <1>7, Zenon DEF Rising
  <2>2. QED
    BY <2>1 DEF Rising
<1>8. QED
  BY <1>1, <1>3, <1>5, <1>6, <1>7, Zenon DEF t

----------------------------------------------------------------------------
(* The moves of a payload along the line of an ordered channel.            *)

LEMMA LineStart == \A whole \in BOOLEAN : Line(<<>>, 0, {}, {}, {}, whole)
  BY DEF Line, Known, Before

(* What is queued comes last.                                              *)
LEMMA LineQueue ==
  ASSUME NEW D, NEW S \in Seq(D), NEW p \in D, p.n = Len(S) + 1,
         NEW last \in 0..Len(S), NEW I, NEW W, NEW B, NEW whole \in BOOLEAN,
         Line(S, last, I, W, B, whole)
  PROVE  Line(Append(S, p), last, I, W, B \cup {p}, whole)
<1> DEFINE T == Append(S, p)
<1>1. /\ Len(T) = Len(S) + 1 /\ T \in Seq(D) /\ T[Len(S) + 1] = p
      /\ \A k \in 1..Len(S) : T[k] = S[k]
  BY AppendProperties
<1>2. DOMAIN S = 1..Len(S) /\ Len(S) \in Nat /\ DOMAIN T = 1..Len(T)
  BY <1>1, LenProperties
<1> HIDE DEF T
<1>3. \A q \in I \cup W \cup B : q.n \in 1..Len(S) /\ S[q.n] = q /\ last < q.n
  BY <1>2 DEF Line, Known
<1>4. Known(T, I \cup W \cup (B \cup {p}))
  BY <1>1, <1>2, <1>3 DEF Known
<1>5. \A q \in I \cup W \cup (B \cup {p}) : last < q.n
  BY <1>2, <1>3
<1>6. Before(I, B \cup {p}) /\ Before(W, B \cup {p})
  BY <1>2, <1>3 DEF Line, Before
<1>7. \A q \in I \cup W, j \in DOMAIN T :
        last < j /\ j < q.n /\ Encodes(T[j]) => T[j] \in I \cup W
  BY <1>1, <1>2, <1>3 DEF Line
<1>8. whole => \A j \in DOMAIN T :
        last < j /\ Encodes(T[j]) => T[j] \in I \cup W \cup (B \cup {p})
  BY <1>1, <1>2 DEF Line
<1>9. QED
  BY <1>4, <1>5, <1>6, <1>7, <1>8 DEF Line, T

(* The first of what is queued is written.                                 *)
LEMMA LineWrite ==
  ASSUME NEW S, NEW N \in Nat, DOMAIN S = 1..N, \A k \in 1..N : S[k].n = k,
         NEW last \in Nat, NEW I, NEW W, NEW B, NEW C, NEW p,
         Line(S, last, I, W, B, TRUE),
         B = {p} \cup C, \A q \in C : p.n < q.n, Encodes(p)
  PROVE  Line(S, last, I, W \cup {p}, C, TRUE)
<1>1. \A q \in I \cup W \cup B : q.n \in 1..N /\ S[q.n] = q /\ last < q.n
  BY DEF Line, Known
<1>2. Known(S, I \cup (W \cup {p}) \cup C) /\ \A q \in I \cup (W \cup {p}) \cup C : last < q.n
  BY <1>1 DEF Known
<1>3. /\ Before(I, W \cup {p}) /\ Before(I, C) /\ Before(W \cup {p}, C)
      /\ \A q \in I \cup (W \cup {p}) : Encodes(q)
  BY DEF Line, Before
<1>4. \A j \in DOMAIN S : last < j /\ Encodes(S[j]) => S[j] \in I \cup (W \cup {p}) \cup C
  BY DEF Line
<1>5. ASSUME NEW q \in I \cup (W \cup {p}), NEW j \in DOMAIN S,
             last < j, j < q.n, Encodes(S[j])
      PROVE  S[j] \in I \cup (W \cup {p})
  <2>1. CASE q \in I \cup W
    BY <1>5, <2>1 DEF Line
  <2>2. CASE q = p
    <3>1. S[j] \in C => p.n < j
      BY <1>1
    <3>2. S[j] \notin C
      BY <1>1, <1>5, <2>2, <3>1
    <3>3. QED
      BY <1>4, <1>5, <3>2
  <2>3. QED
    BY <2>1, <2>2
<1>6. QED
  BY <1>2, <1>3, <1>4, <1>5 DEF Line

(* The first of what is queued is given up: it was too long.               *)
LEMMA LineSkip ==
  ASSUME NEW S, NEW last, NEW I, NEW W, NEW B, NEW C, NEW p, NEW whole \in BOOLEAN,
         Line(S, last, I, W, B, whole), B = {p} \cup C, ~Encodes(p)
  PROVE  Line(S, last, I, W, C, whole)
<1>1. Known(S, I \cup W \cup C) /\ \A q \in I \cup W \cup C : last < q.n
  BY DEF Line, Known
<1>2. Before(I, C) /\ Before(W, C)
  BY DEF Line, Before
<1>3. whole => \A j \in DOMAIN S : last < j /\ Encodes(S[j]) => S[j] \in I \cup W \cup C
  BY DEF Line
<1>4. QED
  BY <1>1, <1>2, <1>3 DEF Line

(* A later part of the line is lost, and the task stops writing.           *)
LEMMA LineCut ==
  ASSUME NEW S, NEW N \in Nat, DOMAIN S = 1..N, \A k \in 1..N : S[k].n = k,
         NEW last, NEW I, NEW W, NEW B, NEW J, NEW V, NEW C, NEW whole \in BOOLEAN,
         Line(S, last, I, W, B, whole), J \subseteq I, V \subseteq W, C \subseteq B,
         First(J \cup V, I \cup W)
  PROVE  Line(S, last, J, V, C, FALSE)
<1>1. Known(S, J \cup V \cup C) /\ \A q \in J \cup V \cup C : last < q.n
  BY DEF Line, Known
<1>2. /\ Before(J, V) /\ Before(J, C) /\ Before(V, C)
      /\ \A p \in J \cup V : Encodes(p)
  BY DEF Line, Before
<1>3. ASSUME NEW p \in J \cup V, NEW j \in DOMAIN S, last < j, j < p.n, Encodes(S[j])
      PROVE  S[j] \in J \cup V
  <2>1. p \in I \cup W
    OBVIOUS
  <2>2. S[j] \in I \cup W
    BY <1>3, <2>1 DEF Line
  <2>3. S[j].n < p.n
    BY <1>3
  <2>4. QED
    BY <2>1, <2>2, <2>3 DEF First
<1>4. QED
  BY <1>1, <1>2, <1>3 DEF Line

(* The first thing written is received.                                    *)
LEMMA LineRead ==
  ASSUME NEW S, NEW last, NEW I, NEW W, NEW V, NEW B, NEW p, NEW whole \in BOOLEAN,
         Line(S, last, I, W, B, whole), W = {p} \cup V, \A q \in V : p.n < q.n
  PROVE  Line(S, last, I \cup {p}, V, B, whole)
<1>1. I \cup W = (I \cup {p}) \cup V
  OBVIOUS
<1>2. /\ Before(I \cup {p}, V) /\ Before(I \cup {p}, B) /\ Before(V, B)
  BY DEF Line, Before
<1>3. QED
  BY <1>1, <1>2 DEF Line

(* The first thing received is taken.                                      *)
LEMMA LineTake ==
  ASSUME NEW S, NEW N \in Nat, DOMAIN S = 1..N, \A k \in 1..N : S[k].n = k,
         NEW last \in Nat, NEW J, NEW W, NEW B, NEW p, NEW whole \in BOOLEAN,
         Line(S, last, {p} \cup J, W, B, whole), Before({p}, J)
  PROVE  Line(S, p.n, J, W, B, whole)
<1>1. p.n \in 1..N /\ S[p.n] = p /\ last < p.n /\ Encodes(p)
  BY DEF Line, Known
<1>2. Known(S, J \cup W \cup B)
  BY DEF Line, Known
<1>3. \A q \in J \cup W \cup B : p.n < q.n
  BY DEF Line, Before
<1>4. Before(J, W) /\ Before(J, B)
  BY DEF Line, Before
<1>5. \A q \in J \cup W, j \in DOMAIN S :
        p.n < j /\ j < q.n /\ Encodes(S[j]) => S[j] \in J \cup W
  <2>1. SUFFICES ASSUME NEW q \in J \cup W, NEW j \in DOMAIN S,
                        p.n < j, j < q.n, Encodes(S[j])
                 PROVE  S[j] \in J \cup W
    OBVIOUS
  <2>2. last < j /\ S[j] # p
    BY <1>1, <2>1
  <2>3. S[j] \in ({p} \cup J) \cup W
    BY <2>1, <2>2 DEF Line
  <2>4. QED
    BY <2>2, <2>3
<1>6. whole => \A j \in DOMAIN S :
        p.n < j /\ Encodes(S[j]) => S[j] \in J \cup W \cup B
  <2>1. SUFFICES ASSUME whole, NEW j \in DOMAIN S, p.n < j, Encodes(S[j])
                 PROVE  S[j] \in J \cup W \cup B
    OBVIOUS
  <2>2. last < j /\ S[j] # p
    BY <1>1, <2>1
  <2>3. S[j] \in ({p} \cup J) \cup W \cup B
    BY <2>1, <2>2 DEF Line
  <2>4. QED
    BY <2>2, <2>3
<1>7. QED
  BY <1>2, <1>3, <1>4, <1>5, <1>6 DEF Line

LEMMA LineNext ==
  ASSUME NEW S, NEW N \in Nat, DOMAIN S = 1..N, \A k \in 1..N : S[k].n = k,
         NEW last \in Nat, NEW J, NEW W, NEW B, NEW p, NEW whole \in BOOLEAN,
         Line(S, last, {p} \cup J, W, B, whole), Before({p}, J)
  PROVE  Follows(S, N, last, p)
<1>1. p.n \in 1..N /\ S[p.n] = p /\ last < p.n /\ Encodes(p)
  BY DEF Line, Known
<1>2. \A q \in J \cup W : p.n < q.n
  BY DEF Line, Before
<1>3. ASSUME NEW j \in (last + 1)..(p.n - 1), Encodes(S[j]) PROVE FALSE
  <2>1. j \in 1..N /\ last < j /\ j < p.n
    BY <1>1, <1>3
  <2>2. S[j] \in ({p} \cup J) \cup W /\ S[j].n = j
    BY <1>3, <2>1 DEF Line
  <2>3. S[j] \in J \cup W \/ S[j] = p
    BY <2>2
  <2>4. p.n < S[j].n \/ S[j].n = p.n
    BY <1>2, <2>3
  <2>5. QED
    BY <1>1, <2>1, <2>2, <2>4
<1>4. QED
  BY <1>1, <1>3 DEF Follows

(* The moves of a payload of a channel without order: to the next place,   *)
(* or away.                                                                *)
LEMMA HeapStart == Heap(<<>>, {}, {}, {}, {}, {})
  BY DEF Heap, Known

LEMMA HeapQueue ==
  ASSUME NEW D, NEW S \in Seq(D), NEW p \in D, p.n = Len(S) + 1,
         NEW G, NEW I, NEW W, NEW F, NEW B, Heap(S, G, I, W, F, B)
  PROVE  Heap(Append(S, p), G, I, W, F, B \cup {p})
<1> DEFINE T == Append(S, p)
<1>1. /\ Len(T) = Len(S) + 1 /\ T \in Seq(D) /\ T[Len(S) + 1] = p
      /\ \A k \in 1..Len(S) : T[k] = S[k]
  BY AppendProperties
<1>2. DOMAIN S = 1..Len(S) /\ Len(S) \in Nat /\ DOMAIN T = 1..Len(T)
  BY <1>1, LenProperties
<1> HIDE DEF T
<1>3. \A q \in G \cup I \cup W \cup F \cup B : q.n \in 1..Len(S) /\ S[q.n] = q
  BY <1>2 DEF Heap, Known
<1>4. Known(T, G \cup I \cup W \cup F \cup (B \cup {p}))
  BY <1>1, <1>2, <1>3 DEF Known
<1>5. p \notin G \cup I \cup W \cup F \cup B
  BY <1>2, <1>3
<1>6. QED
  BY <1>4, <1>5 DEF Heap, T

LEMMA HeapMove ==
  ASSUME NEW S, NEW G, NEW I, NEW W, NEW F, NEW B, Heap(S, G, I, W, F, B), NEW p
  PROVE  /\ p \in B => /\ Heap(S, G, I, W \cup {p}, F, B \ {p})
                       /\ Heap(S, G, I, W, F \cup {p}, B \ {p})
         /\ p \in F => Heap(S, G, I, W \cup {p}, F \ {p}, B)
         /\ p \in W => Heap(S, G, I \cup {p}, W \ {p}, F, B)
         /\ p \in I => Heap(S, G \cup {p}, I \ {p}, W, F, B)
  BY DEF Heap, Known

LEMMA HeapLess ==
  ASSUME NEW S, NEW G, NEW I, NEW W, NEW F, NEW B, Heap(S, G, I, W, F, B),
         NEW J, NEW V, NEW E, NEW C,
         J \subseteq I, V \subseteq W, E \subseteq F, C \subseteq B
  PROVE  Heap(S, G, J, V, E, C)
<1>1. G \cup J \cup V \cup E \cup C \subseteq G \cup I \cup W \cup F \cup B
  OBVIOUS
<1>2. Known(S, G \cup J \cup V \cup E \cup C)
  BY <1>1 DEF Heap, Known
<1>3. QED
  BY <1>2 DEF Heap

----------------------------------------------------------------------------
(* The types.                                                              *)

Msg == [chan : Nat, msg : Payload]
Types == {"OrderedReliable", "UnorderedReliable", "Unreliable"}

LEMMA LeastId == ASSUME NEW S, S \subseteq Nat, S # {} PROVE Min(S) \in S
<1>1. PICK x \in S : \A y \in S : ~ (<<y, x>> \in OpToRel(<, Nat))
  BY NatLessThanWellFounded, WFMin
<1>2. \A y \in S : ~ (y < x)
  BY <1>1, Zenon DEF OpToRel
<1>3. \A y \in S : x =< y
  BY <1>2
<1>4. QED
  BY <1>3 DEF Min

(* The plan of an end is a sequence, and its channels are among Chans.     *)
LEMMA Planned ==
  ASSUME NEW s \in Sides
  PROVE  /\ Plan[s] \in Seq(SUBSET Types) /\ Len(Plan[s]) \in Nat
         /\ \A i \in 1..Len(Plan[s]) : i \in Chans /\ Plan[s][i] \in SUBSET Types
         /\ UNION ToSet(Plan[s]) \subseteq Types
         /\ \A i \in 1..Len(Plan[s]) : Plan[s][i] \subseteq UNION ToSet(Plan[s])
<1>1. Plan[s] \in Seq(SUBSET Types)
  BY ChannelsAssumption DEF Types
<1> DEFINE pl == Plan[s]
<1>2. /\ Len(pl) \in Nat /\ DOMAIN pl = 1..Len(pl)
      /\ ToSet(pl) = {pl[k] : k \in 1..Len(pl)} /\ ToSet(pl) \subseteq SUBSET Types
  BY <1>1, LenProperties, ToSetIs
<1>3. \A i \in 1..Len(pl) : pl[i] \in ToSet(pl)
  BY <1>2
<1>4. \A i \in 1..Len(pl) : i \in Chans
  BY <1>2 DEF Chans
<1> HIDE DEF pl
<1>5. UNION ToSet(pl) \subseteq Types
  BY <1>2
<1>6. \A i \in 1..Len(pl) : pl[i] \subseteq UNION ToSet(pl)
  BY <1>3
<1>7. QED
  BY <1>1, <1>2, <1>3, <1>4, <1>5, <1>6 DEF pl

LEMMA ChansAreNumbers == Chans \subseteq Nat
<1>1. \A s \in Sides : DOMAIN Plan[s] \subseteq Nat
  <2>1. SUFFICES ASSUME NEW s \in Sides PROVE DOMAIN Plan[s] \subseteq Nat
    OBVIOUS
  <2>2. Plan[s] \in Seq(SUBSET Types)
    BY Planned
  <2>3. DOMAIN Plan[s] = 1..Len(Plan[s]) /\ Len(Plan[s]) \in Nat
    BY <2>2, LenProperties
  <2>4. QED
    BY <2>3
<1>2. QED
  BY <1>1 DEF Chans

LEMMA SizesAre ==
  /\ Sizes \in Seq(SUBSET {"fits", "big", "longest", "longer"})
  /\ DOMAIN Sizes \subseteq Nat
  /\ UNION ToSet(Sizes) \subseteq {"fits", "big", "longest", "longer"}
  /\ \A k \in DOMAIN Sizes : Sizes[k] \subseteq UNION ToSet(Sizes)
<1>1. Sizes \in Seq(SUBSET {"fits", "big", "longest", "longer"})
  BY ChannelsAssumption
<1>2. DOMAIN Sizes = 1..Len(Sizes) /\ Len(Sizes) \in Nat
  BY <1>1, LenProperties
<1>3. ToSet(Sizes) = {Sizes[k] : k \in DOMAIN Sizes}
  BY DEF ToSet
<1>4. ToSet(Sizes) \subseteq SUBSET {"fits", "big", "longest", "longer"}
  BY <1>1, ToSetIs
<1>5. UNION ToSet(Sizes) \subseteq {"fits", "big", "longest", "longer"}
  BY <1>4
<1>6. \A k \in DOMAIN Sizes : Sizes[k] \in ToSet(Sizes)
  BY <1>3
<1>7. QED
  BY <1>1, <1>2, <1>5, <1>6

LEMMA PayloadIs == \A p \in Payload : p.n \in Nat
  BY SizesAre DEF Payload

(* The variables by their owners.                                          *)
OwnerTypes ==
  /\ side \in Sides /\ owner \in {"holding", "closed", "dropped"}
  /\ channel \in Seq([id : Ids, type : UNION ToSet(Plan[side])])
  /\ Len(channel) <= Len(Plan[side])
  /\ slots \in [Ids -> 0..Len(channel)]
  /\ available = {id \in Ids : slots[id] = 0}
  /\ closing \subseteq Opened /\ closeSent \in BOOLEAN
TaskTypes ==
  /\ requests \in Seq(Opened) /\ Len(requests) <= CtrlSize
  /\ spawner \in {"unborn", "serving", "joining", "done"}
  /\ spawnerDeaf \in BOOLEAN
  /\ task \in [Chans -> {"none", "requested"} \cup Spawned \cup Over]
  /\ deaf \subseteq Opened
  /\ link \in {"dialing", "open", "closed"} /\ linkLost \in BOOLEAN
SendTypes ==
  /\ buffer \in [Chans -> Seq(Payload)]
  /\ \A i \in Chans : Len(buffer[i]) <= QueueSize
  /\ flying \in [Chans -> SUBSET Payload]
  /\ sent \in [Chans -> Seq(Payload)]
  /\ wasted \subseteq [chan : Opened, msg : Payload]
WireTypes ==
  /\ wire \in [Chans -> Seq(Payload)]
  /\ reading \subseteq Chans /\ listening \in BOOLEAN
  /\ inbox \in Seq([chan : Opened, msg : Payload]) /\ Len(inbox) <= QueueSize
  /\ got \in [Chans -> Seq(Payload)]

LEMMA TypesByOwner == TypeOK <=> OwnerTypes /\ TaskTypes /\ SendTypes /\ WireTypes
  BY DEF TypeOK, OwnerTypes, TaskTypes, SendTypes, WireTypes

(* What the types say of the channels opened so far.                       *)
LEMMA OpenedIs ==
  ASSUME OwnerTypes
  PROVE  /\ Len(channel) \in Nat /\ Opened \subseteq Chans
         /\ \A i \in Opened : channel[i] \in [id : Ids, type : UNION ToSet(Plan[side])]
         /\ \A i \in Opened : Type(i) \in Types
<1>1. Len(channel) \in Nat
  BY LenProperties DEF OwnerTypes
<1>2. Opened \subseteq Chans
  <2>1. /\ Len(Plan[side]) \in Nat
        /\ \A i \in 1..Len(Plan[side]) : i \in Chans
    BY Planned DEF OwnerTypes
  <2>2. QED
    BY <1>1, <2>1 DEF OwnerTypes, Opened
<1>3. \A i \in Opened : channel[i] \in [id : Ids, type : UNION ToSet(Plan[side])]
  BY ElementOfSeq DEF OwnerTypes, Opened
<1>4. UNION ToSet(Plan[side]) \subseteq Types
  BY Planned DEF OwnerTypes
<1>5. QED
  BY <1>1, <1>2, <1>3, <1>4 DEF Type

LEMMA WasteTyped == ASSUME NEW i \in Opened, NEW P, P \subseteq Payload
                    PROVE  On(i, P) \subseteq [chan : Opened, msg : Payload]
  BY DEF On

LEMMA QueueTypes ==
  ASSUME SendTypes, NEW i \in Chans, buffer[i] # <<>>
  PROVE  /\ Head(buffer[i]) \in Payload
         /\ Tail(buffer[i]) \in Seq(Payload) /\ Len(Tail(buffer[i])) <= QueueSize
<1>1. buffer[i] \in Seq(Payload) /\ Len(buffer[i]) <= QueueSize
  BY DEF SendTypes
<1>2. /\ Head(buffer[i]) \in Payload /\ Tail(buffer[i]) \in Seq(Payload)
      /\ Len(Tail(buffer[i])) = Len(buffer[i]) - 1 /\ Len(buffer[i]) \in Nat
  BY <1>1, HeadTailProperties, LenProperties
<1>3. QueueSize \in Nat
  BY ChannelsAssumption
<1>4. QED
  BY <1>1, <1>2, <1>3

LEMMA BufferIs == ASSUME SendTypes, NEW i \in Chans
                  PROVE  buffer[i] \in Seq(Payload) /\ ToSet(buffer[i]) \subseteq Payload
  BY ToSetIs DEF SendTypes

LEMMA InitTypes == Init => TypeOK
<1> SUFFICES ASSUME Init PROVE TypeOK
  OBVIOUS
<1>1. /\ channel = <<>> /\ Len(channel) = 0
      /\ channel \in Seq([id : Ids, type : UNION ToSet(Plan[side])])
  BY EmptySeq DEF Init
<1>2. Opened = {}
  BY <1>1 DEF Opened
<1>3. OwnerTypes
  <2>1. Len(Plan[side]) \in Nat
    BY Planned DEF Init
  <2>2. slots \in [Ids -> 0..Len(channel)] /\ available = {id \in Ids : slots[id] = 0}
    BY <1>1 DEF Init
  <2>3. Len(channel) <= Len(Plan[side])
    BY <1>1, <2>1
  <2>4. side \in Sides /\ owner = "holding" /\ closing = {} /\ closeSent = FALSE
    BY DEF Init
  <2>5. QED
    BY <1>1, <2>2, <2>3, <2>4 DEF OwnerTypes
<1>4. <<>> \in Seq(Opened) /\ <<>> \in Seq(Payload) /\ Len(<<>>) = 0
      /\ <<>> \in Seq([chan : Opened, msg : Payload])
  BY EmptySeq
<1>5. QueueSize \in Nat /\ CtrlSize \in Nat
  BY ChannelsAssumption
<1>6. TaskTypes
  <2>1. task \in [Chans -> {"none", "requested"} \cup Spawned \cup Over]
    BY DEF Init
  <2>2. requests = <<>> /\ deaf = {} /\ spawner = "unborn"
        /\ spawnerDeaf = FALSE /\ linkLost = FALSE /\ link \in {"dialing", "open"}
    BY DEF Init
  <2>3. requests \in Seq(Opened) /\ Len(requests) <= CtrlSize
    BY <1>4, <1>5, <2>2
  <2>4. deaf \subseteq Opened /\ link \in {"dialing", "open", "closed"}
    BY <2>2
  <2>5. QED
    BY <2>1, <2>2, <2>3, <2>4 DEF TaskTypes
<1>7. SendTypes
  BY <1>4, <1>5 DEF Init, SendTypes
<1>8. WireTypes
  BY <1>4, <1>5 DEF Init, WireTypes
<1>9. QED
  BY <1>3, <1>6, <1>7, <1>8, TypesByOwner

(* Requests nobody took are dropped.                                       *)
LEMMA DropTypes ==
  ASSUME TypeOK, DropRequests, UNCHANGED channel
  PROVE  /\ requests' \in Seq(Opened) /\ Len(requests') <= CtrlSize
         /\ task' \in [Chans -> {"none", "requested"} \cup Spawned \cup Over]
         /\ buffer' \in [Chans -> Seq(Payload)]
         /\ \A i \in Chans : Len(buffer'[i]) <= QueueSize
         /\ wasted' \subseteq [chan : Opened, msg : Payload]
<1>1. OwnerTypes /\ TaskTypes /\ SendTypes
  BY TypesByOwner
<1>2. /\ <<>> \in Seq(Opened) /\ <<>> \in Seq(Payload) /\ Len(<<>>) = 0
      /\ QueueSize \in Nat /\ CtrlSize \in Nat
  BY EmptySeq, ChannelsAssumption
<1>3. requests' \in Seq(Opened) /\ Len(requests') <= CtrlSize
  BY <1>2 DEF DropRequests
<1>4. ToSet(requests) \subseteq Opened
  BY <1>1, ToSetIs DEF TaskTypes
<1>5. task' \in [Chans -> {"none", "requested"} \cup Spawned \cup Over]
  BY <1>1 DEF DropRequests, TaskTypes, Over
<1>6. buffer' \in [Chans -> Seq(Payload)] /\ \A i \in Chans : Len(buffer'[i]) <= QueueSize
  BY <1>1, <1>2 DEF DropRequests, SendTypes
<1>7. \A i \in ToSet(requests) : On(i, ToSet(buffer[i])) \subseteq [chan : Opened, msg : Payload]
  BY <1>1, <1>4, OpenedIs, BufferIs, WasteTyped
<1>8. wasted' \subseteq [chan : Opened, msg : Payload]
  BY <1>1, <1>7 DEF DropRequests, SendTypes
<1>9. QED
  BY <1>3, <1>5, <1>6, <1>8

sendVars == <<buffer, flying, sent, wasted>>
wireVars == <<wire, reading, listening, inbox, got>>

LEMMA Frames ==
  ASSUME TypeOK, UNCHANGED channel
  PROVE  /\ UNCHANGED <<side, owner, slots, available, closing, closeSent>> => OwnerTypes'
         /\ UNCHANGED <<requests, spawner, spawnerDeaf, task, deaf, link, linkLost>>
              => TaskTypes'
         /\ UNCHANGED sendVars => SendTypes'
         /\ UNCHANGED wireVars => WireTypes'
<1>1. Opened' = Opened
  BY DEF Opened
<1>2. OwnerTypes /\ TaskTypes /\ SendTypes /\ WireTypes
  BY TypesByOwner
<1>3. UNCHANGED <<side, owner, slots, available, closing, closeSent>> => OwnerTypes'
  BY <1>1, <1>2 DEF OwnerTypes
<1>4. UNCHANGED <<requests, spawner, spawnerDeaf, task, deaf, link, linkLost>> => TaskTypes'
  BY <1>1, <1>2 DEF TaskTypes
<1>5. UNCHANGED sendVars => SendTypes'
  BY <1>1, <1>2 DEF SendTypes, sendVars
<1>6. UNCHANGED wireVars => WireTypes'
  BY <1>1, <1>2 DEF WireTypes, wireVars
<1>7. QED
  BY <1>3, <1>4, <1>5, <1>6

LEMMA OpenTypes == ASSUME TypeOK, NEW type \in UNION ToSet(Plan[side]), OpenChannel(type)
                   PROVE  TypeOK'
<1> DEFINE d == Min(available)
           m == Len(channel) + 1
           C == [id : Ids, type : UNION ToSet(Plan[side])]
<1>1. OwnerTypes /\ TaskTypes /\ SendTypes /\ WireTypes
  BY TypesByOwner
<1>2. d \in available /\ d \in Ids
  <2>1. available \subseteq Ids /\ Ids \subseteq Nat /\ available # {}
    BY <1>1, ChannelsAssumption DEF OwnerTypes, OpenChannel
  <2>2. QED
    BY <2>1, LeastId
<1>3. /\ channel' = Append(channel, [id |-> d, type |-> type])
      /\ slots' = [slots EXCEPT ![d] = m]
      /\ available' = available \ {d}
      /\ requests' = Append(requests, m)
      /\ task' = [task EXCEPT ![m] = "requested"]
      /\ Len(requests) < CtrlSize /\ Len(channel) < Len(Plan[side])
  BY DEF OpenChannel
<1>4. UNCHANGED <<side, owner, closing, closeSent, spawner, spawnerDeaf, deaf, link,
                  linkLost, sendVars, wireVars>>
  BY DEF OpenChannel, sendVars, wireVars, peerVars, linkVars
<1> HIDE DEF d
<1>5. [id |-> d, type |-> type] \in C
  BY <1>2
<1>6. channel' \in Seq(C) /\ Len(channel') = m /\ Len(channel) \in Nat
  BY <1>1, <1>3, <1>5, AppendProperties, LenProperties DEF OwnerTypes
<1>7. Opened' = 1..m /\ Opened \subseteq Opened' /\ m \in Opened'
  BY <1>6 DEF Opened
<1>8. m <= Len(Plan[side]) /\ m \in Chans
  <2>1. /\ Len(Plan[side]) \in Nat
        /\ \A i \in 1..Len(Plan[side]) : i \in Chans
    BY <1>1, Planned DEF OwnerTypes
  <2>2. QED
    BY <1>3, <1>6, <2>1
<1>9. OwnerTypes'
  <2>1. slots' \in [Ids -> 0..m]
    BY <1>1, <1>3, <1>6 DEF OwnerTypes
  <2>2. available' = {id \in Ids : slots'[id] = 0}
    BY <1>1, <1>2, <1>3, <1>6 DEF OwnerTypes
  <2>3. closing' \subseteq Opened'
    BY <1>1, <1>4, <1>7 DEF OwnerTypes
  <2>4. side' \in Sides /\ owner' \in {"holding", "closed", "dropped"}
        /\ closeSent' \in BOOLEAN /\ side' = side
    BY <1>1, <1>4 DEF OwnerTypes
  <2>5. QED
    BY <1>6, <1>8, <2>1, <2>2, <2>3, <2>4 DEF OwnerTypes
<1>10. TaskTypes'
  <2>1. requests \in Seq(Opened')
    BY <1>1, <1>7, SeqMonotonic DEF TaskTypes
  <2>2. requests' \in Seq(Opened') /\ Len(requests') = Len(requests) + 1
    BY <1>3, <1>7, <2>1, AppendProperties
  <2>3. Len(requests) \in Nat /\ CtrlSize \in Nat
    BY <2>1, LenProperties, ChannelsAssumption
  <2>4. Len(requests') <= CtrlSize
    BY <1>3, <2>2, <2>3
  <2>5. task' \in [Chans -> {"none", "requested"} \cup Spawned \cup Over]
    BY <1>1, <1>3 DEF TaskTypes
  <2>6. deaf' \subseteq Opened'
    BY <1>1, <1>4, <1>7 DEF TaskTypes
  <2>7. QED
    BY <1>1, <1>4, <2>2, <2>4, <2>5, <2>6 DEF TaskTypes
<1>11. SendTypes'
  BY <1>1, <1>4, <1>7 DEF SendTypes, sendVars
<1>12. WireTypes'
  <2>1. [chan : Opened, msg : Payload] \subseteq [chan : Opened', msg : Payload]
    BY <1>7
  <2>2. inbox' \in Seq([chan : Opened', msg : Payload])
    BY <1>1, <1>4, <2>1, SeqMonotonic DEF WireTypes, wireVars
  <2>3. QED
    BY <1>1, <1>4, <2>2 DEF WireTypes, wireVars
<1>13. QED
  BY <1>9, <1>10, <1>11, <1>12, TypesByOwner DEF TypeOK, OwnerTypes, TaskTypes, SendTypes, WireTypes

LEMMA TypesNext == OwnerTypes' /\ TaskTypes' /\ SendTypes' /\ WireTypes' => TypeOK'
  BY DEF TypeOK, OwnerTypes, TaskTypes, SendTypes, WireTypes

(* The actions of the owner.                                               *)
LEMMA OwnerKeepsTypes == ASSUME TypeOK, Owner PROVE TypeOK'
<1>1. OwnerTypes /\ TaskTypes /\ SendTypes /\ WireTypes
  BY TypesByOwner
<1>2. ASSUME NEW type \in UNION ToSet(Plan[side]), OpenChannel(type) PROVE TypeOK'
  BY <1>2, OpenTypes
<1>3. ASSUME NEW d \in Ids, CloseChannel(d) PROVE TypeOK'
  <2>1. UNCHANGED channel /\ Opened' = Opened
    BY <1>3 DEF CloseChannel, Opened
  <2>2. TaskTypes' /\ SendTypes' /\ WireTypes'
    BY <1>3, <2>1, Frames DEF CloseChannel, taskVars, peerVars, linkVars, sendVars, wireVars
  <2>3. /\ slots' = [slots EXCEPT ![d] = 0] /\ available' = available \cup {d}
        /\ closing' = closing \cup {slots[d]} /\ slots[d] # 0
        /\ UNCHANGED <<side, owner, closeSent>>
    BY <1>3 DEF CloseChannel
  <2>4. slots[d] \in Opened /\ Len(channel) \in Nat
    BY <1>1, <2>3, OpenedIs DEF OwnerTypes, Opened
  <2>5. slots' \in [Ids -> 0..Len(channel)] /\ available' = {e \in Ids : slots'[e] = 0}
    BY <1>1, <2>3, <2>4 DEF OwnerTypes
  <2>6. OwnerTypes'
    BY <1>1, <2>1, <2>3, <2>4, <2>5 DEF OwnerTypes
  <2>7. QED
    BY <2>2, <2>6, TypesNext
<1>4. ASSUME NEW d \in Ids, NEW size \in UNION ToSet(Sizes), SendPayload(d, size)
      PROVE  TypeOK'
  <2> DEFINE i == slots[d]
             p == [n |-> Len(sent[i]) + 1, size |-> size]
  <2>1. UNCHANGED channel /\ Opened' = Opened
    BY <1>4 DEF SendPayload, Opened
  <2>2. OwnerTypes' /\ TaskTypes' /\ WireTypes'
    BY <1>4, <2>1, Frames DEF SendPayload, taskVars, peerVars, linkVars, wireVars
  <2>3. /\ p \in Payload /\ Len(buffer[i]) < QueueSize
        /\ buffer' = [buffer EXCEPT ![i] = Append(@, p)]
        /\ sent' = [sent EXCEPT ![i] = Append(@, p)]
        /\ UNCHANGED <<flying, wasted>>
    BY <1>4 DEF SendPayload, taskVars, Payload
  <2>4. i \in Opened /\ i \in Chans
    BY <1>1, <1>4, OpenedIs DEF OwnerTypes, Opened, SendPayload, ClientSends, EndpointSends
  <2> HIDE DEF i, p
  <2>5. buffer[i] \in Seq(Payload) /\ sent[i] \in Seq(Payload)
    BY <1>1, <2>4 DEF SendTypes
  <2>6. /\ Append(buffer[i], p) \in Seq(Payload) /\ Append(sent[i], p) \in Seq(Payload)
        /\ Len(Append(buffer[i], p)) = Len(buffer[i]) + 1 /\ Len(buffer[i]) \in Nat
        /\ QueueSize \in Nat
    BY <2>3, <2>5, AppendProperties, LenProperties, ChannelsAssumption
  <2>7. \A j \in Chans : Len(buffer'[j]) <= QueueSize
    BY <1>1, <2>3, <2>4, <2>6 DEF SendTypes
  <2>8. SendTypes'
    BY <1>1, <2>1, <2>3, <2>6, <2>7 DEF SendTypes
  <2>9. QED
    BY <2>2, <2>8, TypesNext
<1>5. ASSUME Disconnect \/ Drop PROVE TypeOK'
  <2>1. UNCHANGED channel /\ Opened' = Opened
    BY <1>5 DEF Disconnect, Drop, Opened
  <2>2. TaskTypes' /\ SendTypes' /\ WireTypes'
    BY <1>5, <2>1, Frames
       DEF Disconnect, Drop, taskVars, peerVars, linkVars, sendVars, wireVars
  <2>3. /\ UNCHANGED <<side, slots, available, closing>> /\ closeSent' = TRUE
        /\ owner' \in {"closed", "dropped"}
    BY <1>5 DEF Disconnect, Drop
  <2>4. OwnerTypes'
    BY <1>1, <2>1, <2>3 DEF OwnerTypes
  <2>5. QED
    BY <2>2, <2>4, TypesNext
<1>6. QED
  BY <1>2, <1>3, <1>4, <1>5 DEF Owner

(* The spawner, and the link.                                              *)
LEMMA SpawnerKeepsTypes ==
  ASSUME TypeOK, Spawner \/ Connects \/ Fails PROVE TypeOK'
<1>1. OwnerTypes /\ TaskTypes /\ SendTypes /\ WireTypes
  BY TypesByOwner
<1>2. UNCHANGED channel /\ Opened' = Opened
  BY DEF Spawner, Start, Spawn, StopSpawning, Join, Connects, Fails, Opened
<1>3. OwnerTypes' /\ WireTypes'
  <2>1. UNCHANGED <<side, owner, slots, available, closing, closeSent>> /\ UNCHANGED wireVars
    BY DEF Spawner, Start, Spawn, StopSpawning, Join, Connects, Fails, ownerVars,
           peerVars, wireVars
  <2>2. QED
    BY <1>2, <2>1, Frames
<1>4. CASE Connects
  <2>1. SendTypes'
    BY <1>2, <1>4, Frames DEF Connects, taskVars, ownerVars, sendVars
  <2>2. UNCHANGED <<requests, spawner, spawnerDeaf, task, deaf, linkLost>> /\ link' = "open"
    BY <1>4 DEF Connects, taskVars
  <2>3. TaskTypes'
    BY <1>1, <1>2, <2>2 DEF TaskTypes
  <2>4. QED
    BY <1>3, <2>1, <2>3, TypesNext
<1>5. CASE Start \/ StopSpawning
  <2>1. SendTypes'
    BY <1>2, <1>5, Frames DEF Start, StopSpawning, ownerVars, sendVars
  <2>2. /\ UNCHANGED <<requests, task, deaf, link, linkLost>>
        /\ spawner' \in {"serving", "joining"} /\ spawnerDeaf' \in BOOLEAN
    BY <1>1, <1>5 DEF Start, StopSpawning, linkVars, TaskTypes, OwnerTypes
  <2>3. TaskTypes'
    BY <1>1, <1>2, <2>2 DEF TaskTypes
  <2>4. QED
    BY <1>3, <2>1, <2>3, TypesNext
<1>6. CASE Spawn
  <2>1. SendTypes'
    BY <1>2, <1>6, Frames DEF Spawn, ownerVars, sendVars
  <2> DEFINE h == Head(requests)
  <2>2. /\ UNCHANGED <<spawner, spawnerDeaf, link, linkLost>>
        /\ requests # <<>> /\ requests' = Tail(requests)
        /\ task' = [task EXCEPT ![h] =
                      IF Type(h) = "OrderedReliable" THEN "opening" ELSE "sending"]
        /\ deaf' = IF closeSent THEN deaf \cup {h} ELSE deaf
    BY <1>6 DEF Spawn, linkVars
  <2>3. /\ h \in Opened /\ Tail(requests) \in Seq(Opened)
        /\ Len(Tail(requests)) = Len(requests) - 1 /\ Len(requests) \in Nat
    BY <1>1, <2>2, HeadTailProperties, LenProperties DEF TaskTypes
  <2> HIDE DEF h
  <2>4. task' \in [Chans -> {"none", "requested"} \cup Spawned \cup Over]
    BY <1>1, <2>2 DEF TaskTypes, Spawned
  <2>5. requests' \in Seq(Opened) /\ Len(requests') <= CtrlSize
    BY <1>1, <2>2, <2>3, ChannelsAssumption DEF TaskTypes
  <2>6. deaf' \subseteq Opened
    BY <1>1, <2>2, <2>3 DEF TaskTypes
  <2>7. TaskTypes'
    BY <1>1, <1>2, <2>2, <2>4, <2>5, <2>6 DEF TaskTypes
  <2>8. QED
    BY <1>3, <2>1, <2>7, TypesNext
<1>7. CASE Join \/ Fails
  <2>1. /\ DropRequests /\ UNCHANGED <<spawnerDeaf, deaf, flying, sent>>
        /\ spawner' = "done" /\ link' = "closed" /\ linkLost' \in {TRUE, linkLost}
    BY <1>7 DEF Join, Fails, ownerVars
  <2>2. /\ requests' \in Seq(Opened) /\ Len(requests') <= CtrlSize
        /\ task' \in [Chans -> {"none", "requested"} \cup Spawned \cup Over]
        /\ buffer' \in [Chans -> Seq(Payload)]
        /\ \A i \in Chans : Len(buffer'[i]) <= QueueSize
        /\ wasted' \subseteq [chan : Opened, msg : Payload]
    BY <1>2, <2>1, DropTypes
  <2>3. TaskTypes'
    BY <1>1, <1>2, <2>1, <2>2 DEF TaskTypes
  <2>4. SendTypes'
    BY <1>1, <1>2, <2>1, <2>2 DEF SendTypes
  <2>5. QED
    BY <1>3, <2>3, <2>4, TypesNext
<1>8. QED
  BY <1>4, <1>5, <1>6, <1>7 DEF Spawner

(* The tasks of a channel.                                                 *)
LEMMA TaskKeepsTypes ==
  ASSUME TypeOK, NEW i \in Opened, Task(i) \/ Help(i) PROVE TypeOK'
<1>1. OwnerTypes /\ TaskTypes /\ SendTypes /\ WireTypes
  BY TypesByOwner
<1>2. UNCHANGED channel /\ Opened' = Opened
  BY DEF Task, OpenStream, Transmit, Stop, Finish, Help, Opened
<1>3. OwnerTypes'
  <2>1. UNCHANGED <<side, owner, slots, available, closing, closeSent>>
    BY DEF Task, OpenStream, Transmit, Stop, Finish, Help, ownerVars
  <2>2. QED
    BY <1>2, <2>1, Frames
<1>4. i \in Chans /\ buffer[i] \in Seq(Payload) /\ ToSet(buffer[i]) \subseteq Payload
  BY <1>1, OpenedIs, BufferIs
<1>5. On(i, ToSet(buffer[i])) \subseteq [chan : Opened, msg : Payload]
  BY <1>4, WasteTyped
<1>0. <<>> \in Seq(Payload) /\ Len(<<>>) = 0 /\ QueueSize \in Nat
  BY EmptySeq, ChannelsAssumption
<1>6. <<>> \in Seq(Payload) /\ Len(<<>>) <= QueueSize
  BY <1>0
<1>7. CASE OpenStream(i) \/ Finish(i)
  <2>1. /\ UNCHANGED <<requests, spawner, spawnerDeaf, deaf, link, linkLost, wire,
                       peerVars, flying, sent>>
    BY <1>7 DEF OpenStream, Finish, ownerVars, linkVars
  <2>2. /\ task' \in {[task EXCEPT ![i] = "sending"], [task EXCEPT ![i] = "gone"],
                      [task EXCEPT ![i] = "done"]}
        /\ buffer' \in {buffer, [buffer EXCEPT ![i] = <<>>]}
        /\ wasted' \in {wasted, wasted \cup On(i, ToSet(buffer[i]))}
    BY <1>7 DEF OpenStream, Finish, Waste
  <2>3. task' \in [Chans -> {"none", "requested"} \cup Spawned \cup Over]
    BY <1>1, <2>2 DEF TaskTypes, Spawned, Over
  <2>4. TaskTypes'
    BY <1>1, <1>2, <2>1, <2>3 DEF TaskTypes
  <2>5. buffer' \in [Chans -> Seq(Payload)] /\ \A j \in Chans : Len(buffer'[j]) <= QueueSize
    <3>1. CASE buffer' = buffer
      BY <1>1, <3>1 DEF SendTypes
    <3>2. CASE buffer' = [buffer EXCEPT ![i] = <<>>]
      <4>1. \A j \in Chans : buffer'[j] \in {<<>>, buffer[j]}
        BY <1>1, <3>2 DEF SendTypes
      <4>2. \A j \in Chans : Len(buffer[j]) <= QueueSize
        BY <1>1 DEF SendTypes
      <4>3. \A j \in Chans : Len(buffer'[j]) <= QueueSize
        BY <1>6, <4>1, <4>2, Zenon
      <4>4. QED
        BY <1>1, <1>6, <3>2, <4>3 DEF SendTypes
    <3>3. QED
      BY <2>2, <3>1, <3>2
  <2>6. SendTypes'
    BY <1>1, <1>2, <1>5, <2>1, <2>2, <2>5 DEF SendTypes
  <2>7. WireTypes'
    BY <1>2, <2>1, Frames DEF wireVars, peerVars
  <2>8. QED
    BY <1>3, <2>4, <2>6, <2>7, TypesNext
<1>8. CASE Stop(i)
  <2>1. UNCHANGED <<wireVars, sendVars, requests, spawner, spawnerDeaf, deaf, link, linkLost>>
        /\ task' = [task EXCEPT ![i] = "draining"]
    BY <1>8 DEF Stop, ownerVars, linkVars, peerVars, sendVars, wireVars
  <2>2. task' \in [Chans -> {"none", "requested"} \cup Spawned \cup Over]
    BY <1>1, <2>1 DEF TaskTypes, Spawned
  <2>3. TaskTypes'
    BY <1>1, <1>2, <2>1, <2>2 DEF TaskTypes
  <2>4. QED
    BY <1>2, <1>3, <2>1, <2>3, Frames, TypesNext
<1>9. CASE Transmit(i)
  <2> DEFINE p == Head(buffer[i])
  <2>1. buffer[i] # <<>>
    BY <1>9 DEF Transmit
  <2>2. /\ p \in Payload /\ Tail(buffer[i]) \in Seq(Payload)
        /\ Len(Tail(buffer[i])) <= QueueSize
    BY <1>1, <1>4, <2>1, QueueTypes
  <2>3. /\ buffer' \in {[buffer EXCEPT ![i] = <<>>], [buffer EXCEPT ![i] = Tail(@)]}
        /\ task' \in {task, [task EXCEPT ![i] = "gone"]}
        /\ wire' \in {wire, [wire EXCEPT ![i] = Append(@, p)]}
        /\ flying' \in {flying, [flying EXCEPT ![i] = @ \cup {p}]}
        /\ wasted' \in {wasted, wasted \cup On(i, ToSet(buffer[i])), wasted \cup On(i, {p})}
        /\ UNCHANGED <<requests, spawner, spawnerDeaf, deaf, link, linkLost, peerVars, sent>>
    BY <1>9 DEF Transmit, Writes, SendsDatagram, Fail, Waste, ownerVars, linkVars
  <2> HIDE DEF p
  <2>4. On(i, {p}) \subseteq [chan : Opened, msg : Payload]
    BY <2>2, WasteTyped
  <2>5. task' \in [Chans -> {"none", "requested"} \cup Spawned \cup Over]
    BY <1>1, <2>3 DEF TaskTypes, Over
  <2>6. TaskTypes'
    BY <1>1, <1>2, <2>3, <2>5 DEF TaskTypes
  <2>7. buffer' \in [Chans -> Seq(Payload)] /\ \A j \in Chans : Len(buffer'[j]) <= QueueSize
    <3>1. PICK s \in {<<>>, Tail(buffer[i])} : buffer' = [buffer EXCEPT ![i] = s]
      BY <2>3
    <3>2. s \in Seq(Payload) /\ Len(s) <= QueueSize
      BY <1>6, <2>2, <3>1, Zenon
    <3>3. \A j \in Chans : buffer'[j] \in {s, buffer[j]}
      BY <1>1, <3>1 DEF SendTypes
    <3>4. \A j \in Chans : Len(buffer[j]) <= QueueSize
      BY <1>1 DEF SendTypes
    <3>5. \A j \in Chans : Len(buffer'[j]) <= QueueSize
      BY <3>2, <3>3, <3>4, Zenon
    <3>6. QED
      BY <1>1, <3>1, <3>2, <3>5 DEF SendTypes
  <2>8. flying' \in [Chans -> SUBSET Payload]
    BY <1>1, <2>2, <2>3 DEF SendTypes
  <2>9. wasted' \subseteq [chan : Opened, msg : Payload]
    BY <1>1, <1>5, <2>3, <2>4 DEF SendTypes
  <2>10. SendTypes'
    BY <1>1, <1>2, <2>3, <2>7, <2>8, <2>9 DEF SendTypes
  <2>11. wire' \in [Chans -> Seq(Payload)]
    <3>1. wire[i] \in Seq(Payload)
      BY <1>1, <1>4 DEF WireTypes
    <3>2. Append(wire[i], p) \in Seq(Payload)
      BY <2>2, <3>1, AppendProperties
    <3>3. QED
      BY <1>1, <2>3, <3>2 DEF WireTypes
  <2>12. WireTypes'
    BY <1>1, <1>2, <2>3, <2>11 DEF WireTypes, peerVars
  <2>13. QED
    BY <1>3, <2>6, <2>10, <2>12, TypesNext
<1>10. CASE Help(i)
  <2>1. PICK p \in flying[i] :
          /\ flying' = [flying EXCEPT ![i] = @ \ {p}]
          /\ \/ Writes(i, p) /\ UNCHANGED wasted
             \/ WriteFails(i, p) /\ Waste(i, {p}) /\ UNCHANGED wire
    BY <1>10 DEF Help
  <2>2. UNCHANGED <<requests, spawner, spawnerDeaf, task, deaf, link, linkLost, buffer, sent,
                    reading, listening, inbox, got>>
    BY <1>10 DEF Help, ownerVars, linkVars, peerVars
  <2>3. p \in Payload
    BY <1>1, <1>4 DEF SendTypes
  <2>4. On(i, {p}) \subseteq [chan : Opened, msg : Payload]
    BY <2>3, WasteTyped
  <2>5. /\ wire' \in {wire, [wire EXCEPT ![i] = Append(@, p)]}
        /\ wasted' \in {wasted, wasted \cup On(i, {p})}
    BY <2>1 DEF Writes, Waste
  <2>6. TaskTypes'
    BY <1>2, <2>2, Frames
  <2>7. SendTypes'
    BY <1>1, <1>2, <2>1, <2>2, <2>4, <2>5 DEF SendTypes
  <2>8. wire' \in [Chans -> Seq(Payload)]
    <3>1. wire[i] \in Seq(Payload)
      BY <1>1, <1>4 DEF WireTypes
    <3>2. Append(wire[i], p) \in Seq(Payload)
      BY <2>3, <3>1, AppendProperties
    <3>3. QED
      BY <1>1, <2>5, <3>2 DEF WireTypes
  <2>9. WireTypes'
    BY <1>1, <1>2, <2>2, <2>8 DEF WireTypes
  <2>10. QED
    BY <1>3, <2>6, <2>7, <2>9, TypesNext
<1>11. QED
  BY <1>7, <1>8, <1>9, <1>10 DEF Task

(* The other end, and the loss of the link.                                *)
LEMMA PeerKeepsTypes == ASSUME TypeOK, Peer \/ LinkLost PROVE TypeOK'
<1>1. OwnerTypes /\ TaskTypes /\ SendTypes /\ WireTypes
  BY TypesByOwner
<1>2. UNCHANGED channel /\ Opened' = Opened
  BY DEF Peer, ReadStream, LoseDatagram, Take, PeerCloses, LinkLost, Opened
<1>3. OwnerTypes' /\ SendTypes'
  <2>1. UNCHANGED <<side, owner, slots, available, closing, closeSent>> /\ UNCHANGED sendVars
    BY DEF Peer, ReadStream, LoseDatagram, Take, PeerCloses, LinkLost, ownerVars,
           taskVars, sendVars
  <2>2. QED
    BY <1>2, <2>1, Frames
<1>4. <<>> \in Seq(Payload) /\ <<>> \in Seq([chan : Opened, msg : Payload])
      /\ Len(<<>>) = 0 /\ QueueSize \in Nat
  BY EmptySeq, ChannelsAssumption
<1>5. ASSUME NEW i \in Opened, ReadStream(i) PROVE TypeOK'
  <2>1. PICK k \in 1..Len(wire[i]) :
          \/ /\ inbox' = Append(inbox, [chan |-> i, msg |-> wire[i][k]])
             /\ wire' = [wire EXCEPT ![i] = RemoveAt(@, k)]
             /\ UNCHANGED reading
          \/ /\ reading' = ReadOn(i)
             /\ wire' = [wire EXCEPT ![i] =
                  IF Type(i) = "OrderedReliable" THEN <<>> ELSE RemoveAt(@, k)]
             /\ UNCHANGED inbox
    <3>1. PICK k \in IF Type(i) = "OrderedReliable" THEN {1} ELSE 1..Len(wire[i]) :
          \/ /\ inbox' = Append(inbox, [chan |-> i, msg |-> wire[i][k]])
             /\ wire' = [wire EXCEPT ![i] = RemoveAt(@, k)]
             /\ UNCHANGED reading
          \/ /\ reading' = ReadOn(i)
             /\ wire' = [wire EXCEPT ![i] =
                  IF Type(i) = "OrderedReliable" THEN <<>> ELSE RemoveAt(@, k)]
             /\ UNCHANGED inbox
      BY <1>5 DEF ReadStream
    <3>2. wire[i] # <<>> /\ wire[i] \in Seq(Payload)
      BY <1>1, <1>5, OpenedIs DEF ReadStream, WireTypes
    <3>3. 1 \in 1..Len(wire[i])
      BY <3>2, EmptySeq
    <3>4. k \in 1..Len(wire[i])
      BY <3>3
    <3>5. QED
      BY <3>1, <3>4
  <2>2. /\ UNCHANGED <<requests, spawner, spawnerDeaf, task, deaf, link, linkLost, listening, got>>
        /\ Len(inbox) < QueueSize
    BY <1>5 DEF ReadStream, taskVars, linkVars
  <2>3. TaskTypes'
    BY <1>2, <2>2, Frames
  <2>4. /\ wire[i] \in Seq(Payload) /\ i \in Chans /\ wire[i][k] \in Payload
        /\ RemoveAt(wire[i], k) \in Seq(Payload)
    <3>1. wire[i] \in Seq(Payload) /\ i \in Chans
      BY <1>1, OpenedIs DEF WireTypes
    <3>2. QED
      BY <3>1, RemovedSet, ElementOfSeq
  <2> DEFINE m == [chan |-> i, msg |-> wire[i][k]]
  <2>5. /\ Append(inbox, m) \in Seq([chan : Opened, msg : Payload])
        /\ Len(Append(inbox, m)) = Len(inbox) + 1 /\ Len(inbox) \in Nat
    <3>1. m \in [chan : Opened, msg : Payload]
      BY <2>4
    <3> HIDE DEF m
    <3>2. QED
      BY <1>1, <3>1, AppendProperties, LenProperties DEF WireTypes
  <2>6. wire' \in [Chans -> Seq(Payload)]
    BY <1>1, <1>4, <2>1, <2>4 DEF WireTypes
  <2>7. inbox' \in Seq([chan : Opened, msg : Payload]) /\ Len(inbox') <= QueueSize
    <3>1. CASE inbox' = Append(inbox, m)
      BY <1>4, <2>2, <2>5, <3>1
    <3>2. CASE UNCHANGED inbox
      BY <1>1, <3>2 DEF WireTypes
    <3>3. QED
      BY <2>1, <3>1, <3>2
  <2>8. reading' \subseteq Chans
    BY <1>1, <2>1 DEF WireTypes, ReadOn
  <2>9. WireTypes'
    BY <1>1, <1>2, <2>2, <2>6, <2>7, <2>8 DEF WireTypes
  <2>10. QED
    BY <1>3, <2>3, <2>9, TypesNext
<1>6. ASSUME NEW i \in Opened, LoseDatagram(i) PROVE TypeOK'
  <2>1. /\ UNCHANGED <<requests, spawner, spawnerDeaf, task, deaf, link, linkLost,
                       reading, listening, inbox, got>>
        /\ wire[i] # <<>> /\ wire' = [wire EXCEPT ![i] = Tail(@)]
    BY <1>6 DEF LoseDatagram, taskVars, linkVars, peerVars
  <2>2. wire[i] \in Seq(Payload)
    BY <1>1, OpenedIs DEF WireTypes
  <2>3. Tail(wire[i]) \in Seq(Payload)
    BY <2>1, <2>2, HeadTailProperties
  <2>4. WireTypes'
    BY <1>1, <1>2, <2>1, <2>3 DEF WireTypes
  <2>5. QED
    BY <1>2, <1>3, <2>1, <2>4, Frames, TypesNext
<1>7. CASE Take
  <2> DEFINE m == Head(inbox)
  <2>1. /\ UNCHANGED <<requests, spawner, spawnerDeaf, task, deaf, link, linkLost,
                       reading, listening, wire>>
        /\ inbox # <<>> /\ inbox' = Tail(inbox)
        /\ got' = [got EXCEPT ![m.chan] = Append(@, m.msg)]
    BY <1>7 DEF Take, taskVars, linkVars
  <2>2. /\ m \in [chan : Opened, msg : Payload]
        /\ Tail(inbox) \in Seq([chan : Opened, msg : Payload])
        /\ Len(Tail(inbox)) = Len(inbox) - 1 /\ Len(inbox) \in Nat
    BY <1>1, <2>1, HeadTailProperties, LenProperties DEF WireTypes
  <2> HIDE DEF m
  <2>3. m.chan \in Chans /\ m.msg \in Payload
    BY <1>1, <2>2, OpenedIs
  <2>4. Append(got[m.chan], m.msg) \in Seq(Payload)
    <3>1. got[m.chan] \in Seq(Payload)
      BY <1>1, <2>3 DEF WireTypes
    <3>2. QED
      BY <2>3, <3>1, AppendProperties
  <2>5. got' \in [Chans -> Seq(Payload)]
    BY <1>1, <2>1, <2>4 DEF WireTypes
  <2>6. Len(inbox') <= QueueSize
    BY <1>1, <1>4, <2>1, <2>2 DEF WireTypes
  <2>7. WireTypes'
    BY <1>1, <1>2, <2>1, <2>2, <2>5, <2>6 DEF WireTypes
  <2>8. QED
    BY <1>2, <1>3, <2>1, <2>7, Frames, TypesNext
<1>8. CASE PeerCloses
  <2>1. /\ UNCHANGED <<requests, spawner, spawnerDeaf, task, deaf, link, linkLost,
                       reading, got>>
        /\ inbox' = <<>> /\ wire' = [j \in Chans |-> <<>>] /\ listening' = FALSE
    BY <1>8 DEF PeerCloses, taskVars, linkVars
  <2>2. wire' \in [Chans -> Seq(Payload)]
    BY <1>4, <2>1
  <2>3. inbox' \in Seq([chan : Opened, msg : Payload]) /\ Len(inbox') <= QueueSize
    BY <1>4, <2>1
  <2>4. WireTypes'
    BY <1>1, <1>2, <2>1, <2>2, <2>3 DEF WireTypes
  <2>5. QED
    BY <1>2, <1>3, <2>1, <2>4, Frames, TypesNext
<1>9. CASE LinkLost
  <2>1. PICK k \in [Chans -> 0..Window] :
          /\ \A i \in Chans : k[i] <= Len(wire[i])
          /\ wire' = [i \in Chans |-> SubSeq(wire[i], 1, k[i])]
    BY <1>9 DEF LinkLost
  <2>2. /\ UNCHANGED <<requests, spawner, spawnerDeaf, task, deaf, peerVars>>
        /\ link' = "closed" /\ linkLost' = TRUE
    BY <1>9 DEF LinkLost, taskVars
  <2>3. ASSUME NEW i \in Chans PROVE SubSeq(wire[i], 1, k[i]) \in Seq(Payload)
    <3>1. wire[i] \in Seq(Payload) /\ k[i] \in Nat /\ k[i] <= Len(wire[i])
      BY <1>1, <2>1, ChannelsAssumption DEF WireTypes
    <3>2. QED
      BY <3>1, Prefix
  <2>4. WireTypes'
    BY <1>1, <1>2, <2>1, <2>2, <2>3 DEF WireTypes, peerVars
  <2>5. TaskTypes'
    BY <1>1, <1>2, <2>2 DEF TaskTypes
  <2>6. QED
    BY <1>3, <2>4, <2>5, TypesNext
<1>10. QED
  BY <1>5, <1>6, <1>7, <1>8, <1>9 DEF Peer

LEMMA TypesStay == TypeOK /\ [Next]_vars => TypeOK'
<1> SUFFICES ASSUME TypeOK, [Next]_vars PROVE TypeOK'
  OBVIOUS
<1>1. CASE Next
  BY <1>1, OwnerKeepsTypes, SpawnerKeepsTypes, TaskKeepsTypes, PeerKeepsTypes
     DEF Next, Tasks
<1>2. CASE UNCHANGED vars
  BY <1>2 DEF vars, ownerVars, taskVars, peerVars, linkVars, TypeOK, Opened
<1>3. QED
  BY <1>1, <1>2

(* The owner, the tasks and the other end keep to the types of their       *)
(* variables: among them that a queue never holds more than its size, and  *)
(* that an id is available exactly when its slot is empty.                 *)
THEOREM TypeCorrect == Spec => []TypeOK
  BY InitTypes, TypesStay, PTL DEF Spec

----------------------------------------------------------------------------
(* The tasks, the requests for them, and the end of the link.              *)

LEMMA RequestsAre ==
  ASSUME TypeOK
  PROVE  /\ Len(requests) \in Nat /\ ToSet(requests) \subseteq Opened
         /\ \A k \in 1..Len(requests) : requests[k] \in Opened
         /\ \A i \in ToSet(requests) : \E k \in 1..Len(requests) : i = requests[k]
<1>1. requests \in Seq(Opened)
  BY DEF TypeOK
<1>2. Len(requests) \in Nat
  BY <1>1, LenProperties
<1>3. ToSet(requests) = {requests[k] : k \in 1..Len(requests)}
      /\ ToSet(requests) \subseteq Opened
  BY <1>1, ToSetIs
<1>4. QED
  BY <1>2, <1>3

(* Where a task can go in a step of its own.                               *)
LEMMA TaskMoves ==
  ASSUME TypeOK, NEW i \in Opened, Task(i) \/ Help(i)
  PROVE  /\ UNCHANGED <<channel, requests, spawner, link, linkLost>> /\ Opened' = Opened
         /\ \A j \in Chans \ {i} : task'[j] = task[j] /\ flying'[j] = flying[j]
         /\ \/ task'[i] = task[i]
            \/ task[i] \in Spawned /\ task'[i] \in Spawned \cup Over
         /\ task[i] \in Spawned \/ flying[i] # {}
<1>1. i \in Chans /\ TaskTypes /\ SendTypes
  BY TypesByOwner, OpenedIs
<1>2. UNCHANGED <<channel, requests, spawner, link, linkLost>> /\ Opened' = Opened
  BY DEF Task, OpenStream, Transmit, Stop, Finish, Help, linkVars, Opened
<1>3. CASE OpenStream(i) \/ Stop(i) \/ Finish(i)
  <2>1. /\ task[i] \in Spawned
        /\ \E v \in Spawned \cup Over : task' = [task EXCEPT ![i] = v]
    BY <1>3 DEF OpenStream, Stop, Finish, Spawned, Over
  <2>2. UNCHANGED flying
    BY <1>3 DEF OpenStream, Stop, Finish
  <2>3. QED
    BY <1>1, <1>2, <2>1, <2>2 DEF TaskTypes
<1>4. CASE Transmit(i)
  <2>1. /\ task[i] \in Spawned
        /\ task' = task \/ task' = [task EXCEPT ![i] = "gone"]
    BY <1>4 DEF Transmit, Fail, Spawned
  <2>2. flying' = flying \/ \E F : flying' = [flying EXCEPT ![i] = F]
    BY <1>4 DEF Transmit
  <2>3. \A j \in Chans \ {i} : task'[j] = task[j] /\ flying'[j] = flying[j]
    BY <1>1, <2>1, <2>2 DEF TaskTypes, SendTypes
  <2>4. task'[i] = task[i] \/ task'[i] \in Over
    BY <1>1, <2>1 DEF TaskTypes, Over
  <2>5. QED
    BY <1>2, <2>1, <2>3, <2>4
<1>5. CASE Help(i)
  <2>1. UNCHANGED task /\ flying[i] # {} /\ \E F : flying' = [flying EXCEPT ![i] = F]
    BY <1>5 DEF Help
  <2>2. \A j \in Chans \ {i} : flying'[j] = flying[j]
    BY <1>1, <2>1 DEF SendTypes
  <2>3. QED
    BY <1>2, <2>1, <2>2
<1>6. QED
  BY <1>3, <1>4, <1>5 DEF Task

LEMMA TasksStay == ASSUME TypeOK, TaskInv, Next PROVE TaskInv'
<1>0. TaskTypes /\ OwnerTypes
  BY TypesByOwner
<1>1. CASE UNCHANGED <<channel, requests, task>>
  BY <1>1 DEF TaskInv, Opened
<1>2. ASSUME NEW type \in UNION ToSet(Plan[side]), OpenChannel(type) PROVE TaskInv'
  <2> DEFINE m == Len(channel) + 1
  <2>1. /\ requests' = Append(requests, m) /\ task' = [task EXCEPT ![m] = "requested"]
        /\ \E c \in [id : Ids, type : UNION ToSet(Plan[side])] : channel' = Append(channel, c)
        /\ Len(channel) < Len(Plan[side])
    <3>1. available \subseteq Ids /\ Ids \subseteq Nat /\ available # {}
      BY <1>0, <1>2, ChannelsAssumption DEF OwnerTypes, OpenChannel
    <3>2. Min(available) \in Ids
      BY <3>1, LeastId
    <3>3. [id |-> Min(available), type |-> type] \in [id : Ids, type : UNION ToSet(Plan[side])]
      BY <3>2
    <3>4. QED
      BY <1>2, <3>3 DEF OpenChannel
  <2>2. Len(channel) \in Nat /\ Len(channel') = m
    BY <1>0, <2>1, OpenedIs, AppendProperties DEF OwnerTypes
  <2>3. Opened' = Opened \cup {m} /\ m \notin Opened /\ m \in Chans
    <3>1. Len(Plan[side]) \in Nat /\ \A i \in 1..Len(Plan[side]) : i \in Chans
      BY <1>0, Planned DEF OwnerTypes
    <3>2. QED
      BY <2>1, <2>2, <3>1 DEF Opened
  <2>4. requests \in Seq(Opened') /\ m \in Opened'
    BY <1>0, <2>3, SeqMonotonic DEF TaskTypes
  <2>5. /\ Len(requests') = Len(requests) + 1 /\ requests'[Len(requests) + 1] = m
        /\ \A k \in 1..Len(requests) : requests'[k] = requests[k]
    BY <2>1, <2>4, AppendProperties
  <2> HIDE DEF m
  <2>6. Len(requests) \in Nat /\ \A k \in 1..Len(requests) : requests[k] \in Opened
    BY RequestsAre
  <2>7. \A k \in 1..Len(requests') : k \in 1..Len(requests) \/ k = Len(requests) + 1
    BY <2>5, <2>6
  <2>8. task'[m] = "requested" /\ \A i \in Chans \ {m} : task'[i] = task[i]
    BY <1>0, <2>1, <2>3 DEF TaskTypes
  <2>9. \A i \in Chans : task'[i] = "none" <=> i \notin Opened'
    BY <2>3, <2>8 DEF TaskInv
  <2>10. \A k \in 1..Len(requests') : task'[requests'[k]] = "requested"
    <3>1. \A k \in 1..Len(requests) : requests[k] \in Chans \ {m}
      BY <1>0, <2>3, <2>6, OpenedIs
    <3>2. \A k \in 1..Len(requests) : task'[requests'[k]] = "requested"
      BY <2>5, <2>8, <3>1 DEF TaskInv
    <3>3. QED
      BY <2>5, <2>7, <2>8, <3>2
  <2>11. \A k, l \in 1..Len(requests') : k # l => requests'[k] # requests'[l]
    <3>1. \A k \in 1..Len(requests) : requests'[k] # m
      BY <2>3, <2>5, <2>6
    <3>2. \A k, l \in 1..Len(requests) : k # l => requests'[k] # requests'[l]
      BY <2>5 DEF TaskInv
    <3>3. QED
      BY <2>5, <2>7, <3>1, <3>2, Zenon
  <2>12. QED
    BY <2>9, <2>10, <2>11 DEF TaskInv
<1>3. CASE Spawn
  <2> DEFINE h == Head(requests)
             t == Tail(requests)
  <2>1. /\ requests # <<>> /\ requests' = t /\ UNCHANGED channel
        /\ \E v \in {"opening", "sending"} : task' = [task EXCEPT ![h] = v]
    BY <1>3 DEF Spawn
  <2>2. /\ Len(t) = Len(requests) - 1 /\ Len(requests) \in Nat \ {0} /\ h = requests[1]
        /\ \A k \in 1..Len(t) : t[k] = requests[k + 1]
    BY <1>0, <2>1, HeadTailProperties, EmptySeq DEF TaskTypes
  <2>3. h \in Opened /\ \A k \in 1..Len(requests) : requests[k] \in Chans
    BY <1>0, <2>2, RequestsAre, OpenedIs
  <2> HIDE DEF h, t
  <2>4. \A k \in 1..Len(t) : k + 1 \in 1..Len(requests) /\ t[k] = requests[k + 1] /\ t[k] # h
    BY <2>2 DEF TaskInv
  <2>5. task'[h] # "none" /\ task[h] # "none" /\ \A i \in Chans \ {h} : task'[i] = task[i]
    BY <1>0, <2>1, <2>3, OpenedIs DEF TaskTypes, TaskInv
  <2>6. \A i \in Chans : task'[i] = "none" <=> i \notin Opened'
    BY <2>1, <2>5 DEF TaskInv, Opened
  <2>7. \A k \in 1..Len(t) : task'[t[k]] = "requested"
    BY <2>3, <2>4, <2>5 DEF TaskInv
  <2>8. \A k, l \in 1..Len(t) : k # l => t[k] # t[l]
    BY <2>2, <2>4 DEF TaskInv
  <2>9. QED
    BY <2>1, <2>6, <2>7, <2>8 DEF TaskInv
<1>4. CASE Join \/ Fails
  <2>1. /\ requests' = <<>> /\ UNCHANGED channel
        /\ task' = [i \in Chans |-> IF i \in ToSet(requests) THEN "gone" ELSE task[i]]
    BY <1>4 DEF Join, Fails, DropRequests
  <2>2. ToSet(requests) \subseteq Opened
    BY RequestsAre
  <2>3. \A i \in Chans : task'[i] = "none" <=> i \notin Opened'
    BY <2>1, <2>2 DEF TaskInv, Opened
  <2>4. Len(requests') = 0
    BY <2>1, EmptySeq
  <2>5. QED
    BY <2>3, <2>4 DEF TaskInv
<1>5. ASSUME NEW i \in Opened, Task(i) \/ Help(i) PROVE TaskInv'
  <2>1. /\ UNCHANGED requests /\ Opened' = Opened
        /\ \A j \in Chans \ {i} : task'[j] = task[j]
        /\ \/ task'[i] = task[i]
           \/ task[i] \in Spawned /\ task'[i] \in Spawned \cup Over
    BY <1>5, TaskMoves
  <2>2. \A j \in Chans : task[j] \in {"none", "requested"} => task'[j] = task[j]
    BY <2>1 DEF Spawned
  <2>3. \A j \in Chans : task'[j] = "none" => task[j] = "none"
    BY <2>1 DEF Spawned, Over
  <2>4. \A k \in 1..Len(requests) : requests[k] \in Chans
    BY <1>0, RequestsAre, OpenedIs
  <2>5. \A j \in Chans : task'[j] = "none" <=> j \notin Opened'
    BY <2>1, <2>2, <2>3 DEF TaskInv
  <2>6. \A k \in 1..Len(requests') : task'[requests'[k]] = "requested"
    BY <2>1, <2>2, <2>4 DEF TaskInv
  <2>7. QED
    BY <2>1, <2>5, <2>6 DEF TaskInv
<1>6. CASE \/ \E d \in Ids : CloseChannel(d)
           \/ \E d \in Ids, size \in UNION ToSet(Sizes) : SendPayload(d, size)
           \/ Disconnect \/ Drop \/ Start \/ StopSpawning \/ Connects \/ LinkLost \/ Peer
  <2>1. UNCHANGED <<channel, requests, task>>
    BY <1>6 DEF CloseChannel, SendPayload, Disconnect, Drop, Start, StopSpawning, Connects,
                LinkLost, Peer, ReadStream, LoseDatagram, Take, PeerCloses, taskVars
  <2>2. QED
    BY <1>1, <2>1
<1>7. QED
  BY <1>2, <1>3, <1>4, <1>5, <1>6 DEF Next, Owner, Tasks, Spawner

(* A task that still runs has its link: unless that was lost.              *)
LEMMA Working ==
  ASSUME LinkInv, NEW i \in Opened, task[i] \in Spawned \/ flying[i] # {}
  PROVE  link = "closed" \/ spawner = "done" => linkLost
  BY DEF LinkInv, AllFinished

LEMMA LinkStays == ASSUME TypeOK, TaskInv, LinkInv, Next PROVE LinkInv'
<1>0. OwnerTypes /\ TaskTypes /\ SendTypes /\ Opened \subseteq Chans
  BY TypesByOwner, OpenedIs
<1>1. CASE UNCHANGED <<channel, task, flying, link, linkLost, spawner>>
  BY <1>1 DEF LinkInv, AllFinished, Opened
<1>2. ASSUME NEW type \in UNION ToSet(Plan[side]), OpenChannel(type) PROVE LinkInv'
  <2>1. spawner' # "done" /\ UNCHANGED <<link, linkLost, spawner, flying>>
    BY <1>2 DEF OpenChannel, linkVars
  <2>2. Opened \subseteq Opened'
    <3>1. OwnerTypes'
      BY <1>2, OpenTypes DEF TypeOK, OwnerTypes
    <3>2. channel' = Append(channel, [id |-> Min(available), type |-> type])
      BY <1>2 DEF OpenChannel
    <3>3. available \subseteq Ids /\ Ids \subseteq Nat /\ available # {}
      BY <1>0, <1>2, ChannelsAssumption DEF OwnerTypes, OpenChannel
    <3>4. Min(available) \in Ids
      BY <3>3, LeastId
    <3>5. [id |-> Min(available), type |-> type] \in [id : Ids, type : UNION ToSet(Plan[side])]
      BY <3>4
    <3>6. Len(channel') = Len(channel) + 1 /\ Len(channel) \in Nat
      BY <1>0, <3>2, <3>5, AppendProperties, OpenedIs DEF OwnerTypes
    <3>7. QED
      BY <3>6 DEF Opened
  <2>3. QED
    BY <2>1, <2>2 DEF LinkInv
<1>3. CASE Start \/ Spawn \/ StopSpawning \/ Connects
  <2>1. /\ UNCHANGED <<channel, flying, linkLost>> /\ link' \in {link, "open"}
        /\ (spawner' # "done" /\ spawner # "done") \/ UNCHANGED <<spawner, task>>
    BY <1>3 DEF Start, Spawn, StopSpawning, Connects, linkVars, taskVars
  <2>2. CASE spawner' # "done" /\ spawner # "done"
    BY <2>1, <2>2 DEF LinkInv, Opened
  <2>3. CASE UNCHANGED <<spawner, task>>
    BY <2>1, <2>3 DEF LinkInv, Opened, AllFinished
  <2>4. QED
    BY <2>1, <2>2, <2>3
<1>4. CASE Fails \/ LinkLost
  <2>1. linkLost' = TRUE /\ UNCHANGED <<channel, flying>>
    BY <1>4 DEF Fails, LinkLost, taskVars
  <2>2. QED
    BY <2>1 DEF LinkInv, Opened
<1>5. CASE Join
  <2>1. /\ UNCHANGED <<channel, flying, linkLost>> /\ spawner' = "done" /\ AllFinished
        /\ task' = [i \in Chans |-> IF i \in ToSet(requests) THEN "gone" ELSE task[i]]
    BY <1>5 DEF Join, DropRequests
  <2>2. \A i \in Opened : task'[i] \notin Spawned /\ flying'[i] = {}
    BY <1>0, <2>1 DEF AllFinished, Spawned
  <2>3. QED
    BY <2>1, <2>2 DEF LinkInv, AllFinished, Opened
<1>6. ASSUME NEW i \in Opened, Task(i) \/ Help(i) PROVE LinkInv'
  <2>1. /\ UNCHANGED <<link, linkLost, spawner>> /\ Opened' = Opened
        /\ \A j \in Chans \ {i} : flying'[j] = flying[j]
        /\ task[i] \in Spawned \/ flying[i] # {}
    BY <1>6, TaskMoves
  <2>2. link = "closed" \/ spawner = "done" => linkLost
    BY <2>1, Working
  <2>3. \A j \in Chans : flying'[j] # {} => j \in Opened'
    BY <2>1 DEF LinkInv
  <2>4. QED
    BY <2>1, <2>2, <2>3 DEF LinkInv
<1>7. CASE \/ \E d \in Ids : CloseChannel(d)
           \/ \E d \in Ids, size \in UNION ToSet(Sizes) : SendPayload(d, size)
           \/ Disconnect \/ Drop \/ Peer
  <2>1. UNCHANGED <<channel, task, flying, link, linkLost, spawner>>
    BY <1>7 DEF CloseChannel, SendPayload, Disconnect, Drop, Peer, ReadStream, LoseDatagram,
                Take, PeerCloses, taskVars, linkVars
  <2>2. QED
    BY <1>1, <2>1
<1>8. QED
  BY <1>2, <1>3, <1>4, <1>5, <1>6, <1>7 DEF Next, Owner, Tasks, Spawner

(* An excuse stays one.                                                    *)
LEMMA ExcusesStay ==
  ASSUME TypeOK, TaskInv, Next, NEW i \in Opened
  PROVE  /\ task[i] = "gone" => task'[i] = "gone"
         /\ linkLost => linkLost'
         /\ ~listening => ~listening'
         /\ i \notin reading => i \notin reading'
         /\ i \in Opened' /\ channel'[i] = channel[i]
<1>0. OwnerTypes /\ TaskTypes /\ Opened \subseteq Chans
  BY TypesByOwner, OpenedIs
<1>1. ASSUME NEW type \in UNION ToSet(Plan[side]), OpenChannel(type)
      PROVE  /\ task[i] = "gone" => task'[i] = "gone"
             /\ UNCHANGED <<linkLost, listening, reading>>
             /\ i \in Opened' /\ channel'[i] = channel[i]
  <2>1. channel' = Append(channel, [id |-> Min(available), type |-> type])
        /\ task' = [task EXCEPT ![Len(channel) + 1] = "requested"]
        /\ UNCHANGED <<linkLost, listening, reading>>
    BY <1>1 DEF OpenChannel, peerVars, linkVars
  <2>2. available \subseteq Ids /\ Ids \subseteq Nat /\ available # {}
    BY <1>0, <1>1, ChannelsAssumption DEF OwnerTypes, OpenChannel
  <2>3. Min(available) \in Ids
    BY <2>2, LeastId
  <2>4. [id |-> Min(available), type |-> type] \in [id : Ids, type : UNION ToSet(Plan[side])]
    BY <2>3
  <2>5. /\ Len(channel') = Len(channel) + 1 /\ Len(channel) \in Nat
        /\ \A k \in 1..Len(channel) : channel'[k] = channel[k]
    BY <1>0, <2>1, <2>4, AppendProperties, OpenedIs DEF OwnerTypes
  <2>6. i # Len(channel) + 1
    BY <2>5 DEF Opened
  <2>7. QED
    BY <1>0, <2>1, <2>5, <2>6 DEF Opened, TaskTypes
<1>2. CASE Spawn
  <2>1. /\ UNCHANGED <<channel, linkLost, listening, reading>>
        /\ \E v : task' = [task EXCEPT ![Head(requests)] = v]
    BY <1>2 DEF Spawn, linkVars, peerVars
  <2>2. Len(requests) \in Nat \ {0} /\ Head(requests) = requests[1]
    BY <1>0, <1>2, EmptySeq DEF TaskTypes, Spawn
  <2>3. task[Head(requests)] = "requested"
    BY <2>2 DEF TaskInv
  <2>4. QED
    BY <1>0, <2>1, <2>3 DEF TaskTypes, Opened
<1>3. CASE Join \/ Fails
  <2>1. /\ UNCHANGED <<channel, listening, reading>> /\ (linkLost => linkLost')
        /\ task' = [j \in Chans |-> IF j \in ToSet(requests) THEN "gone" ELSE task[j]]
    BY <1>3 DEF Join, Fails, DropRequests, peerVars
  <2>2. QED
    BY <1>0, <2>1 DEF Opened
<1>4. ASSUME NEW k \in Opened, Task(k) \/ Help(k)
      PROVE  /\ task[i] = "gone" => task'[i] = "gone"
             /\ UNCHANGED <<channel, linkLost, listening, reading>>
  <2>1. UNCHANGED <<channel, linkLost, listening, reading>>
    BY <1>4 DEF Task, OpenStream, Transmit, Stop, Finish, Help, linkVars, peerVars
  <2>2. /\ \A j \in Chans \ {k} : task'[j] = task[j]
        /\ \/ task'[k] = task[k]
           \/ task[k] \in Spawned /\ task'[k] \in Spawned \cup Over
    BY <1>4, TaskMoves
  <2>3. task[i] = "gone" => task'[i] = "gone"
    BY <1>0, <2>2 DEF Spawned
  <2>4. QED
    BY <2>1, <2>3
<1>5. CASE \/ \E d \in Ids : CloseChannel(d)
           \/ \E d \in Ids, size \in UNION ToSet(Sizes) : SendPayload(d, size)
           \/ Disconnect \/ Drop \/ Start \/ StopSpawning \/ Connects
  <2>1. UNCHANGED <<channel, task, linkLost, reading, listening>>
    BY <1>5 DEF CloseChannel, SendPayload, Disconnect, Drop, Start, StopSpawning, Connects,
                peerVars, taskVars, linkVars
  <2>2. QED
    BY <2>1 DEF Opened
<1>6. CASE LinkLost
  <2>1. UNCHANGED <<channel, task, reading, listening>> /\ linkLost' = TRUE
    BY <1>6 DEF LinkLost, peerVars, taskVars
  <2>2. QED
    BY <2>1 DEF Opened
<1>7. CASE Peer
  <2>1. UNCHANGED <<channel, task, linkLost>>
    BY <1>7 DEF Peer, ReadStream, LoseDatagram, Take, PeerCloses, taskVars, linkVars
  <2>2. reading' \subseteq reading
    BY <1>7 DEF Peer, ReadStream, ReadOn, LoseDatagram, Take, PeerCloses, peerVars
  <2>3. listening' = FALSE \/ listening' = listening
    BY <1>7 DEF Peer, ReadStream, LoseDatagram, Take, PeerCloses, peerVars
  <2>4. QED
    BY <2>1, <2>2, <2>3 DEF Opened
<1>8. QED
  BY <1>1, <1>2, <1>3, <1>4, <1>5, <1>6, <1>7 DEF Next, Owner, Tasks, Spawner, Opened

LEMMA OnIs == ASSUME NEW i, NEW P, NEW w \in On(i, P)
              PROVE  w.chan = i /\ w.msg \in P
  BY DEF On

(* What a write that fails on an open link has against it stays.           *)
LEMMA FailedWrite ==
  ASSUME TypeOK, LinkInv, NEW i \in Opened, NEW p, WriteFails(i, p),
         task[i] \in Spawned \/ flying[i] # {},
         UNCHANGED <<link, linkLost, reading, listening>>,
         NEW w \in On(i, {p})
  PROVE  Excused(w)'
<1>1. link = "closed" => linkLost
  BY Working
<1>2. w.chan = i /\ w.msg = p
  BY OnIs
<1>3. CASE ~Encodes(p)
  BY <1>2, <1>3 DEF Excused, Encodes
<1>4. CASE Broken(i)
  BY <1>1, <1>2, <1>4 DEF Broken, Excused
<1>5. QED
  BY <1>3, <1>4 DEF WriteFails

LEMMA ClosesStays ==
  ASSUME TypeOK, TaskInv, LinkInv, ClosesAfterSending, Next
  PROVE  ClosesAfterSending'
<1>0. /\ OwnerTypes /\ TaskTypes /\ SendTypes /\ Opened \subseteq Chans
      /\ \A w \in wasted : w.chan \in Opened
  BY TypesByOwner, OpenedIs DEF SendTypes
<1>1. ASSUME NEW w \in wasted, Reliable(w.chan)' PROVE Excused(w)' \/ Orphan(w.chan)'
  <2>1. /\ Orphan(w.chan) => Orphan(w.chan)'
        /\ linkLost => linkLost'
        /\ ~listening => ~listening'
        /\ w.chan \notin reading => w.chan \notin reading'
        /\ channel'[w.chan] = channel[w.chan]
    BY <1>0, ExcusesStay DEF Orphan
  <2>2. Reliable(w.chan)
    BY <1>1, <2>1 DEF Reliable, Type
  <2>3. Excused(w) \/ Orphan(w.chan)
    BY <2>2 DEF ClosesAfterSending
  <2>4. Excused(w) => Excused(w)'
    BY <2>1 DEF Excused, Encodes
  <2>5. QED
    BY <2>1, <2>3, <2>4
<1>2. ASSUME UNCHANGED wasted PROVE ClosesAfterSending'
  BY <1>1, <1>2 DEF ClosesAfterSending
<1>3. ASSUME NEW Q, wasted' = wasted \cup Q,
             \A w \in Q : Reliable(w.chan)' => Excused(w)' \/ Orphan(w.chan)'
      PROVE  ClosesAfterSending'
  BY <1>1, <1>3 DEF ClosesAfterSending
<1>4. CASE Join \/ Fails
  <2> DEFINE R == ToSet(requests)
             Q == UNION {On(i, ToSet(buffer[i])) : i \in R}
  <2>1. /\ wasted' = wasted \cup Q
        /\ task' = [i \in Chans |-> IF i \in R THEN "gone" ELSE task[i]]
    BY <1>4 DEF Join, Fails, DropRequests
  <2>2. R \subseteq Chans
    BY <1>0, RequestsAre
  <2>3. \A w \in Q : w.chan \in R
    BY OnIs
  <2> HIDE DEF R, Q
  <2>4. \A w \in Q : Orphan(w.chan)'
    BY <2>1, <2>2, <2>3 DEF Orphan
  <2>5. QED
    BY <1>3, <2>1, <2>4
<1>5. ASSUME NEW i \in Opened, OpenStream(i) PROVE ClosesAfterSending'
  <2>1. CASE UNCHANGED wasted
    BY <1>2, <2>1
  <2>2. CASE task' = [task EXCEPT ![i] = "gone"] /\ Waste(i, ToSet(buffer[i]))
    <3>1. \A w \in On(i, ToSet(buffer[i])) : Orphan(w.chan)'
      BY <1>0, <2>2, OnIs DEF Orphan, TaskTypes
    <3>2. QED
      BY <1>3, <2>2, <3>1 DEF Waste
  <2>3. QED
    BY <1>5, <2>1, <2>2 DEF OpenStream
<1>6. ASSUME NEW i \in Opened, Finish(i) PROVE ClosesAfterSending'
  <2>1. wasted' = wasted \cup On(i, ToSet(buffer[i])) /\ buffer[i] = <<>>
    BY <1>6 DEF Finish, Waste, Drained
  <2>2. On(i, ToSet(buffer[i])) = {}
    BY <2>1, ToSetEmpty DEF On
  <2>3. QED
    BY <1>2, <2>1, <2>2
<1>7. ASSUME NEW i \in Opened, Help(i) PROVE ClosesAfterSending'
  <2>1. CASE UNCHANGED wasted
    BY <1>2, <2>1
  <2>2. ASSUME NEW p \in flying[i], WriteFails(i, p), Waste(i, {p})
        PROVE  ClosesAfterSending'
    <3>1. flying[i] # {} /\ UNCHANGED <<link, linkLost, reading, listening>>
      BY <1>7 DEF Help, linkVars, peerVars
    <3>2. \A w \in On(i, {p}) : Excused(w)'
      BY <2>2, <3>1, FailedWrite
    <3>3. QED
      BY <1>3, <2>2, <3>2 DEF Waste
  <2>3. QED
    BY <1>7, <2>1, <2>2 DEF Help
<1>8. ASSUME NEW i \in Opened, Transmit(i) PROVE ClosesAfterSending'
  <2> DEFINE p == Head(buffer[i])
  <2>1. CASE UNCHANGED wasted
    BY <1>2, <2>1
  <2>2. CASE /\ IF Reliable(i) THEN Type(i) = "OrderedReliable" /\ WriteFails(i, p)
                               ELSE DatagramFails(p)
             /\ Fail(i, p)
    <3>1. /\ task[i] \in Spawned
          /\ UNCHANGED <<channel, link, linkLost, reading, listening>>
      BY <1>8 DEF Transmit, Spawned, linkVars, peerVars
    <3>2. CASE task' = [task EXCEPT ![i] = "gone"] /\ Waste(i, ToSet(buffer[i]))
      <4>1. \A w \in On(i, ToSet(buffer[i])) : Orphan(w.chan)'
        BY <1>0, <3>2, OnIs DEF Orphan, TaskTypes
      <4>2. QED
        BY <1>3, <3>2, <4>1 DEF Waste
    <3>3. CASE Waste(i, {p})
      <4>1. ASSUME Reliable(i), NEW w \in On(i, {p}) PROVE Excused(w)'
        <5>1. WriteFails(i, p)
          BY <2>2, <4>1
        <5>2. QED
          BY <3>1, <4>1, <5>1, FailedWrite
      <4>2. \A w \in On(i, {p}) : Reliable(w.chan)' => Reliable(i)
        BY <3>1, OnIs DEF Reliable, Type
      <4>3. QED
        BY <1>3, <3>3, <4>1, <4>2 DEF Waste
    <3>4. QED
      BY <2>2, <3>2, <3>3 DEF Fail
  <2>3. QED
    BY <1>8, <2>1, <2>2 DEF Transmit
<1>9. CASE Owner \/ Start \/ Spawn \/ StopSpawning \/ Connects \/ LinkLost \/ Peer
           \/ \E i \in Opened : Stop(i)
  <2>1. UNCHANGED wasted
    BY <1>9 DEF Owner, OpenChannel, CloseChannel, SendPayload, Disconnect, Drop, Start, Spawn,
                StopSpawning, Connects, LinkLost, Peer, ReadStream, LoseDatagram, Take,
                PeerCloses, Stop, taskVars
  <2>2. QED
    BY <1>2, <2>1
<1>10. QED
  BY <1>4, <1>5, <1>6, <1>7, <1>8, <1>9 DEF Next, Tasks, Spawner, Task

CloseInv == TypeOK /\ TaskInv /\ LinkInv /\ ClosesAfterSending

LEMMA InitCloses == Init => CloseInv
<1> SUFFICES ASSUME Init PROVE CloseInv
  OBVIOUS
<1>1. TypeOK
  BY InitTypes
<1>2. Len(channel) = 0 /\ Len(requests) = 0
  BY EmptySeq DEF Init
<1>3. Opened = {}
  BY <1>2 DEF Opened
<1>4. TaskInv
  BY <1>2, <1>3 DEF Init, TaskInv
<1>5. LinkInv /\ ClosesAfterSending
  BY DEF Init, LinkInv, ClosesAfterSending
<1>6. QED
  BY <1>1, <1>4, <1>5 DEF CloseInv

LEMMA CloseInvStays == CloseInv /\ [Next]_vars => CloseInv'
<1> SUFFICES ASSUME CloseInv, [Next]_vars PROVE CloseInv'
  OBVIOUS
<1>1. CASE Next
  BY <1>1, TypesStay, TasksStay, LinkStays, ClosesStays DEF CloseInv
<1>2. CASE UNCHANGED vars
  <2>1. TypeOK'
    BY <1>2, TypesStay DEF CloseInv
  <2>2. UNCHANGED <<channel, task, flying, link, linkLost, spawner, requests, wasted, reading,
                    listening>>
    BY <1>2 DEF vars, taskVars, linkVars, peerVars
  <2>3. TaskInv' /\ LinkInv'
    BY <2>2 DEF CloseInv, TaskInv, LinkInv, AllFinished, Opened
  <2>4. ClosesAfterSending'
    BY <2>2 DEF CloseInv, ClosesAfterSending, Reliable, Type, Excused, Encodes, Orphan
  <2>5. QED
    BY <2>1, <2>3, <2>4 DEF CloseInv
<1>3. QED
  BY <1>1, <1>2

LEMMA ClosesInductively == Spec => []CloseInv
  BY InitCloses, CloseInvStays, PTL DEF Spec

(* Whatever is opened, closed and disconnected around it, a payload queued *)
(* on a reliable channel is written before this end closes the link,       *)
(* unless one of the exceptions applies.  The link is only closed when no  *)
(* task is left that has anything to write.                                *)
THEOREM ClosesOnlyAfterSending == Spec => []ClosesAfterSending
  BY ClosesInductively, PTL DEF CloseInv

----------------------------------------------------------------------------
(* What the other end has received, of one channel.                        *)

LEMMA InAppend ==
  ASSUME NEW M, NEW q \in Seq(M), NEW m \in M
  PROVE  /\ InOf(Append(q, m), m.chan) = InOf(q, m.chan) \cup {m.msg}
         /\ \A i : i # m.chan => InOf(Append(q, m), i) = InOf(q, i)
         /\ InRises(q, m.chan) /\ (\A p \in InOf(q, m.chan) : p.n < m.msg.n)
              => InRises(Append(q, m), m.chan)
         /\ InApart(q, m.chan) /\ m.msg \notin InOf(q, m.chan)
              => InApart(Append(q, m), m.chan)
         /\ \A i : i # m.chan => /\ (InRises(q, i) => InRises(Append(q, m), i))
                                /\ (InApart(q, i) => InApart(Append(q, m), i))
<1> DEFINE r == Append(q, m)
<1>1. /\ Len(r) = Len(q) + 1 /\ r[Len(q) + 1] = m
      /\ \A k \in 1..Len(q) : r[k] = q[k]
  BY AppendProperties
<1>2. Len(q) \in Nat
  BY LenProperties
<1> HIDE DEF r
<1>3. /\ \A k \in 1..Len(r) : k \in 1..Len(q) \/ k = Len(q) + 1
      /\ 1..Len(q) \subseteq 1..Len(r) /\ Len(q) + 1 \in 1..Len(r)
      /\ \A k, l \in 1..Len(r) : k < l => k \in 1..Len(q)
  BY <1>1, <1>2
<1>4. InOf(r, m.chan) = InOf(q, m.chan) \cup {m.msg}
  BY <1>1, <1>3, Zenon DEF InOf
<1>5. ASSUME NEW i, i # m.chan PROVE InOf(r, i) = InOf(q, i)
  BY <1>1, <1>3, <1>5, Zenon DEF InOf
<1>6. ASSUME InRises(q, m.chan), \A p \in InOf(q, m.chan) : p.n < m.msg.n
      PROVE  InRises(r, m.chan)
  <2>1. \A k \in 1..Len(q) : q[k].chan = m.chan => q[k].msg.n < m.msg.n
    BY <1>6, Zenon DEF InOf
  <2>2. QED
    BY <1>1, <1>3, <1>6, <2>1, Zenon DEF InRises
<1>7. ASSUME InApart(q, m.chan), m.msg \notin InOf(q, m.chan) PROVE InApart(r, m.chan)
  <2>1. \A k \in 1..Len(q) : q[k].chan = m.chan => q[k].msg # m.msg
    BY <1>7, Zenon DEF InOf
  <2>2. ASSUME NEW k \in 1..Len(r), NEW l \in 1..Len(r), k # l,
               r[k].chan = m.chan, r[l].chan = m.chan
        PROVE  r[k].msg # r[l].msg
    <3>1. CASE k \in 1..Len(q) /\ l \in 1..Len(q)
      BY <1>1, <1>7, <2>2, <3>1 DEF InApart
    <3>2. CASE k = Len(q) + 1 /\ l \in 1..Len(q)
      BY <1>1, <2>1, <2>2, <3>2
    <3>3. CASE l = Len(q) + 1 /\ k \in 1..Len(q)
      BY <1>1, <2>1, <2>2, <3>3
    <3>4. QED
      BY <1>3, <2>2, <3>1, <3>2, <3>3
  <2>3. QED
    BY <2>2 DEF InApart
<1>8. ASSUME NEW i, i # m.chan
      PROVE  (InRises(q, i) => InRises(r, i)) /\ (InApart(q, i) => InApart(r, i))
  <2>1. \A k \in 1..Len(r) : r[k].chan = i => k \in 1..Len(q) /\ r[k] = q[k]
    BY <1>1, <1>3, <1>8, Zenon
  <2>2. QED
    BY <2>1, Zenon DEF InRises, InApart
<1>9. QED
  BY <1>4, <1>5, <1>6, <1>7, <1>8, Zenon DEF r

LEMMA InTail ==
  ASSUME NEW M, NEW q \in Seq(M), q # <<>>, NEW m, m = Head(q)
  PROVE  /\ InOf(q, m.chan) = {m.msg} \cup InOf(Tail(q), m.chan)
         /\ \A i : i # m.chan => InOf(Tail(q), i) = InOf(q, i)
         /\ InRises(q, m.chan) => \A x \in InOf(Tail(q), m.chan) : m.msg.n < x.n
         /\ InApart(q, m.chan) => m.msg \notin InOf(Tail(q), m.chan)
<1> DEFINE t == Tail(q)
<1>1. /\ t \in Seq(M) /\ Len(t) = Len(q) - 1
      /\ \A k \in 1..Len(t) : t[k] = q[k + 1]
  BY HeadTailProperties
<1>2. Len(q) \in Nat \ {0} /\ m = q[1]
  BY EmptySeq
<1> HIDE DEF t
<1>3. /\ \A k \in 1..Len(q) : k = 1 \/ \E l \in 1..Len(t) : l + 1 = k
      /\ \A k \in 1..Len(t) : k + 1 \in 1..Len(q) /\ t[k] = q[k + 1]
      /\ 1 \in 1..Len(q)
  <2>1. ASSUME NEW k \in 1..Len(q), k # 1 PROVE \E l \in 1..Len(t) : l + 1 = k
    <3>1. k - 1 \in 1..Len(t) /\ (k - 1) + 1 = k
      BY <1>1, <1>2, <2>1
    <3>2. QED
      BY <3>1
  <2>2. QED
    BY <1>1, <1>2, <2>1
<1>4. \A k \in 1..Len(t) : 1 < k + 1 /\ k + 1 # 1
  BY <1>1, <1>2
<1>5. ASSUME NEW i, NEW x \in InOf(q, i) PROVE x \in InOf(t, i) \/ (i = m.chan /\ x = m.msg)
  <2>1. PICK k \in 1..Len(q) : q[k].chan = i /\ q[k].msg = x
    BY <1>5, Zenon DEF InOf
  <2>2. CASE k = 1
    BY <1>2, <2>1, <2>2
  <2>3. ASSUME NEW l \in 1..Len(t), l + 1 = k PROVE x \in InOf(t, i)
    <3>1. t[l].chan = i /\ t[l].msg = x
      BY <1>3, <2>1, <2>3
    <3>2. QED
      BY <3>1 DEF InOf
  <2>4. QED
    BY <1>3, <2>2, <2>3
<1>6. ASSUME NEW i, NEW x \in InOf(t, i)
      PROVE  \E l \in 1..Len(t) : /\ t[l].chan = i /\ t[l].msg = x
                                 /\ l + 1 \in 1..Len(q) /\ t[l] = q[l + 1]
  BY <1>3, <1>6, Zenon DEF InOf
<1>7. ASSUME NEW i, NEW x \in InOf(t, i) PROVE x \in InOf(q, i)
  <2>1. PICK l \in 1..Len(t) : /\ q[l + 1].chan = i /\ q[l + 1].msg = x
                              /\ l + 1 \in 1..Len(q)
    BY <1>6, <1>7
  <2>2. QED
    BY <2>1 DEF InOf
<1>8. m.msg \in InOf(q, m.chan)
  BY <1>2, <1>3 DEF InOf
<1>9. InOf(q, m.chan) = {m.msg} \cup InOf(t, m.chan)
  BY <1>5, <1>7, <1>8, Zenon
<1>10. ASSUME NEW i, i # m.chan PROVE InOf(t, i) = InOf(q, i)
  <2>1. \A x \in InOf(q, i) : x \in InOf(t, i)
    BY <1>5, <1>10
  <2>2. \A x \in InOf(t, i) : x \in InOf(q, i)
    BY <1>7
  <2>3. QED
    BY <2>1, <2>2, Zenon
<1>11. ASSUME InRises(q, m.chan), NEW x \in InOf(t, m.chan) PROVE m.msg.n < x.n
  <2>1. PICK l \in 1..Len(t) : /\ q[l + 1].chan = m.chan /\ q[l + 1].msg = x
                              /\ l + 1 \in 1..Len(q)
    BY <1>6
  <2>2. 1 < l + 1 /\ q[1].chan = m.chan
    BY <1>2, <1>4
  <2>3. q[1].msg.n < q[l + 1].msg.n
    BY <1>3, <1>11, <2>1, <2>2, Zenon DEF InRises
  <2>4. QED
    BY <1>2, <2>1, <2>3
<1>12. ASSUME InApart(q, m.chan), m.msg \in InOf(t, m.chan) PROVE FALSE
  <2>1. PICK l \in 1..Len(t) : /\ q[l + 1].chan = m.chan /\ q[l + 1].msg = m.msg
                              /\ l + 1 \in 1..Len(q)
    BY <1>6, <1>12
  <2>2. 1 # l + 1 /\ q[1].chan = m.chan
    BY <1>2, <1>4
  <2>3. q[1].msg # q[l + 1].msg
    BY <1>3, <1>12, <2>1, <2>2, Zenon DEF InApart
  <2>4. QED
    BY <1>2, <2>1, <2>3
<1>13. QED
  BY <1>9, <1>10, <1>11, <1>12, Zenon DEF t

LEMMA InTailKeeps ==
  ASSUME NEW M, NEW q \in Seq(M), q # <<>>, NEW i
  PROVE  /\ InRises(q, i) => InRises(Tail(q), i)
         /\ InApart(q, i) => InApart(Tail(q), i)
<1> DEFINE t == Tail(q)
<1>1. /\ t \in Seq(M) /\ Len(t) = Len(q) - 1 /\ Len(q) \in Nat \ {0}
      /\ \A k \in 1..Len(t) : t[k] = q[k + 1]
  BY HeadTailProperties, EmptySeq
<1> HIDE DEF t
<1>2. /\ \A k \in 1..Len(t) : k + 1 \in 1..Len(q) /\ t[k] = q[k + 1]
      /\ \A k, l \in 1..Len(t) : (k < l => k + 1 < l + 1) /\ (k # l => k + 1 # l + 1)
  BY <1>1
<1>3. ASSUME InRises(q, i), NEW k \in 1..Len(t), NEW l \in 1..Len(t), k < l,
             t[k].chan = i, t[l].chan = i
      PROVE  t[k].msg.n < t[l].msg.n
  <2>1. k + 1 \in 1..Len(q) /\ l + 1 \in 1..Len(q) /\ k + 1 < l + 1
        /\ t[k] = q[k + 1] /\ t[l] = q[l + 1]
    BY <1>2, <1>3
  <2>2. QED
    BY <1>3, <2>1 DEF InRises
<1>4. ASSUME InApart(q, i), NEW k \in 1..Len(t), NEW l \in 1..Len(t), k # l,
             t[k].chan = i, t[l].chan = i
      PROVE  t[k].msg # t[l].msg
  <2>1. k + 1 \in 1..Len(q) /\ l + 1 \in 1..Len(q) /\ k + 1 # l + 1
        /\ t[k] = q[k + 1] /\ t[l] = q[l + 1]
    BY <1>2, <1>4
  <2>2. QED
    BY <1>4, <2>1 DEF InApart
<1>5. QED
  BY <1>3, <1>4 DEF InRises, InApart, t

LEMMA InEmpty == \A i : InOf(<<>>, i) = {} /\ InRises(<<>>, i) /\ InApart(<<>>, i)
<1>1. Len(<<>>) = 0
  BY EmptySeq
<1>2. 1..Len(<<>>) = {}
  BY <1>1
<1>3. QED
  BY <1>2, Zenon DEF InOf, InRises, InApart

LEMMA RemoveHead == ASSUME NEW D, NEW s \in Seq(D), s # <<>>
                     PROVE  RemoveAt(s, 1) = Tail(s)
<1>1. /\ Tail(s) \in Seq(D) /\ Len(Tail(s)) = Len(s) - 1
      /\ \A k \in 1..Len(Tail(s)) : Tail(s)[k] = s[k + 1]
  BY HeadTailProperties
<1>2. Len(s) \in Nat \ {0}
  BY EmptySeq
<1>3. 1 \in 1..Len(s)
  BY <1>2
<1>4. /\ RemoveAt(s, 1) \in Seq(D) /\ Len(RemoveAt(s, 1)) = Len(s) - 1
      /\ \A j \in 1..Len(s) - 1 : RemoveAt(s, 1)[j] = s[IF j < 1 THEN j ELSE j + 1]
  BY <1>3, Removed
<1>5. \A j \in 1..Len(s) - 1 : RemoveAt(s, 1)[j] = s[j + 1]
  BY <1>2, <1>4
<1>6. QED
  BY <1>1, <1>2, <1>4, <1>5, SeqEqual

----------------------------------------------------------------------------
(* The places of the payloads of a channel.                                *)

LEMMA PartsAre ==
  ASSUME TypeOK, NEW i \in Chans
  PROVE  /\ sent[i] \in Seq(Payload) /\ Len(sent[i]) \in Nat
         /\ DOMAIN sent[i] = 1..Len(sent[i])
         /\ buffer[i] \in Seq(Payload) /\ wire[i] \in Seq(Payload)
         /\ got[i] \in Seq(Payload) /\ flying[i] \subseteq Payload
         /\ inbox \in Seq([chan : Opened, msg : Payload])
         /\ Whole(i) \in BOOLEAN
<1>1. sent[i] \in Seq(Payload)
  BY DEF TypeOK
<1>2. DOMAIN sent[i] = 1..Len(sent[i]) /\ Len(sent[i]) \in Nat
  BY <1>1, LenProperties
<1>3. Whole(i) \in BOOLEAN
  BY DEF Whole
<1>4. QED
  BY <1>1, <1>2, <1>3 DEF TypeOK

LEMMA TakenIs ==
  ASSUME TypeOK, NEW i \in Chans, LineInv(i) PROVE Taken(i) \in 0..Len(sent[i])
<1>1. got[i] \in Seq(Payload) /\ DOMAIN sent[i] = 1..Len(sent[i]) /\ Len(sent[i]) \in Nat
  BY PartsAre
<1>2. CASE got[i] = <<>>
  BY <1>1, <1>2 DEF Taken
<1>3. CASE got[i] # <<>>
  <2>1. Len(got[i]) \in 1..Len(got[i])
    BY <1>1, <1>3, EmptySeq
  <2>2. got[i][Len(got[i])] \in ToSet(got[i])
    BY <1>1, <2>1, ToSetIs
  <2>3. got[i][Len(got[i])].n \in 1..Len(sent[i])
    BY <1>1, <2>2 DEF LineInv, Known
  <2>4. QED
    BY <1>3, <2>3 DEF Taken
<1>4. QED
  BY <1>2, <1>3

LEMMA LineWeaken ==
  ASSUME NEW S, NEW last, NEW I, NEW W, NEW B, NEW a \in BOOLEAN, NEW b \in BOOLEAN,
         Line(S, last, I, W, B, a), b => a
  PROVE  Line(S, last, I, W, B, b)
  BY DEF Line

LEMMA FlowFrame ==
  ASSUME NEW i \in Chans, FlowOf(i),
         sent'[i] = sent[i], got'[i] = got[i], wire'[i] = wire[i],
         flying'[i] = flying[i], buffer'[i] = buffer[i],
         InOf(inbox', i) = InOf(inbox, i),
         InRises(inbox, i) => InRises(inbox', i), InApart(inbox, i) => InApart(inbox', i),
         i \in Opened' <=> i \in Opened, i \in Opened => channel'[i] = channel[i],
         InOrder(i) => (Whole(i)' => Whole(i))
  PROVE  FlowOf(i)'
<1>1. InOrder(i)' <=> InOrder(i)
  BY DEF InOrder, Type
<1>2. Taken(i)' = Taken(i) /\ In(i)' = In(i)
  BY DEF Taken, In
<1>3. (i \notin Opened => sent[i] = <<>>)' /\ Numbered(i)' /\ Rising(buffer[i])'
  BY DEF FlowOf, Numbered, Rising
<1>4. ASSUME InOrder(i) PROVE LineInv(i)'
  <2>1. LineInv(i)
    BY <1>4 DEF FlowOf
  <2>2. Line(sent[i], Taken(i), In(i), ToSet(wire[i]), ToSet(buffer[i]), Whole(i)')
    <3>1. Whole(i) \in BOOLEAN /\ Whole(i)' \in BOOLEAN
      BY DEF Whole
    <3>2. Whole(i)' => Whole(i)
      BY <1>4
    <3>3. QED
      BY <2>1, <3>1, <3>2, LineWeaken DEF LineInv, LineAt
  <2>3. LineAt(i)'
    BY <1>2, <2>2 DEF LineAt
  <2>4. (Rising(wire[i]) /\ InRises(inbox, i) /\ flying[i] = {})'
    BY <2>1 DEF LineInv, Rising
  <2>5. Known(sent[i], ToSet(got[i]))'
    BY <2>1 DEF LineInv
  <2>6. QED
    BY <2>3, <2>4, <2>5 DEF LineInv
<1>5. ASSUME ~InOrder(i) PROVE HeapInv(i)'
  <2>1. HeapInv(i)
    BY <1>5 DEF FlowOf
  <2>2. HeapAt(i)'
    BY <1>2, <2>1 DEF HeapInv, HeapAt
  <2>3. (Apart(got[i]) /\ Apart(wire[i]) /\ InApart(inbox, i))'
    BY <2>1 DEF HeapInv, Apart
  <2>4. QED
    BY <2>2, <2>3 DEF HeapInv
<1>6. QED
  BY <1>1, <1>3, <1>4, <1>5 DEF FlowOf

(* A stream that is closed stays closed.                                   *)
LEMMA WholeShrinks ==
  ASSUME TypeOK, TaskInv, Next, NEW i \in Chans, i \in Opened
  PROVE  Whole(i)' => Whole(i)
<1>1. /\ task[i] = "gone" => task'[i] = "gone"
      /\ ~listening => ~listening'
      /\ i \notin reading => i \notin reading'
  BY ExcusesStay
<1>2. link = "closed" => link' = "closed"
  BY DEF Next, Owner, OpenChannel, CloseChannel, SendPayload, Disconnect, Drop, Tasks, Spawner,
         Start, Spawn, StopSpawning, Join, Task, OpenStream, Transmit, Stop, Finish, Help,
         Connects, Fails, LinkLost, Peer, ReadStream, LoseDatagram, Take, PeerCloses,
         taskVars, linkVars, peerVars
<1>3. QED
  BY <1>1, <1>2 DEF Whole

FlowPre == TypeOK /\ TaskInv /\ FlowInv /\ Next

(* The steps that move no payload.                                         *)
LEMMA FlowUnmoved ==
  ASSUME FlowPre, UNCHANGED <<channel, sent, got, wire, flying, buffer, inbox>>
  PROVE  FlowInv'
<1>1. Opened' = Opened
  BY DEF Opened
<1>2. ASSUME NEW i \in Chans PROVE FlowOf(i)'
  <2>1. FlowOf(i) /\ (InOrder(i) => (Whole(i)' => Whole(i)))
    BY WholeShrinks DEF FlowPre, FlowInv, InOrder
  <2>2. QED
    BY <1>1, <2>1, FlowFrame
<1>3. QED
  BY <1>2 DEF FlowInv

(* What an opened channel finds: nothing.                                  *)
LEMMA OpenedEmpty ==
  ASSUME FlowPre, NEW m \in Chans, m \notin Opened, m \in Opened',
         UNCHANGED <<sent, got, wire, flying, buffer, inbox>>
  PROVE  FlowOf(m)'
<1>1. TypeOK /\ FlowOf(m) /\ sent[m] = <<>> /\ HeapInv(m)
  BY DEF FlowPre, FlowInv, FlowOf, InOrder
<1>2. DOMAIN sent[m] = {}
  BY <1>1
<1>3. /\ ToSet(got[m]) = {} /\ In(m) = {} /\ ToSet(wire[m]) = {} /\ flying[m] = {}
      /\ ToSet(buffer[m]) = {}
  BY <1>1, <1>2 DEF HeapInv, HeapAt, Heap, Known
<1>4. ASSUME NEW s \in Seq(Payload), ToSet(s) = {} PROVE s = <<>>
  <2>1. SUFFICES ASSUME s # <<>> PROVE FALSE
    OBVIOUS
  <2>2. QED
    BY <1>4, <2>1, ToSetTail
<1>5. got[m] = <<>> /\ wire[m] = <<>> /\ buffer[m] = <<>>
  BY <1>1, <1>3, <1>4, PartsAre
<1>6. HeapInv(m)'
  BY <1>1 DEF HeapInv, HeapAt, In, Apart
<1>7. LineInv(m)'
  <2>1. Taken(m)' = 0 /\ In(m)' = {} /\ sent'[m] = <<>> /\ Whole(m)' \in BOOLEAN
        /\ ToSet(wire'[m]) = {} /\ ToSet(buffer'[m]) = {} /\ ToSet(got'[m]) = {}
    BY <1>1, <1>3, <1>5 DEF Taken, In, Whole
  <2>2. LineAt(m)'
    BY <2>1, LineStart DEF LineAt
  <2>3. Rising(wire'[m])
    BY <1>5 DEF Rising
  <2>4. InRises(inbox', m)
    <3>1. \A k \in 1..Len(inbox) : inbox[k].chan # m
      BY <1>3, Zenon DEF In, InOf
    <3>2. QED
      BY <3>1 DEF InRises
  <2>5. Known(sent'[m], ToSet(got'[m])) /\ flying'[m] = {}
    BY <1>1, <1>3, <2>1 DEF Known
  <2>6. QED
    BY <2>2, <2>3, <2>4, <2>5 DEF LineInv
<1>8. Numbered(m)' /\ Rising(buffer[m])'
  BY <1>1 DEF FlowOf, Numbered, Rising
<1>9. QED
  BY <1>6, <1>7, <1>8 DEF FlowOf

LEMMA OpenKeepsFlow ==
  ASSUME FlowPre, NEW type \in UNION ToSet(Plan[side]), OpenChannel(type)
  PROVE  FlowInv'
<1>0. OwnerTypes /\ TypeOK /\ TaskInv /\ Opened \subseteq Chans
  BY TypesByOwner, OpenedIs DEF FlowPre
<1>1. /\ channel' = Append(channel, [id |-> Min(available), type |-> type])
      /\ UNCHANGED <<sent, got, wire, flying, buffer, inbox>>
  BY DEF OpenChannel, peerVars
<1>2. /\ Len(channel') = Len(channel) + 1 /\ Len(channel) \in Nat
      /\ \A k \in 1..Len(channel) : channel'[k] = channel[k]
  <2>1. available \subseteq Ids /\ Ids \subseteq Nat /\ available # {}
    BY <1>0, ChannelsAssumption DEF OwnerTypes, OpenChannel
  <2>2. Min(available) \in Ids
    BY <2>1, LeastId
  <2>3. [id |-> Min(available), type |-> type] \in [id : Ids, type : UNION ToSet(Plan[side])]
    BY <2>2
  <2>4. QED
    BY <1>0, <1>1, <2>3, AppendProperties, OpenedIs DEF OwnerTypes
<1>3. Opened' = Opened \cup {Len(channel) + 1} /\ Len(channel) + 1 \notin Opened
  BY <1>2 DEF Opened
<1>4. ASSUME NEW i \in Chans PROVE FlowOf(i)'
  <2>1. CASE i = Len(channel) + 1
    BY <1>1, <1>3, <2>1, OpenedEmpty
  <2>2. CASE i # Len(channel) + 1
    <3>1. FlowOf(i) /\ (InOrder(i) => (Whole(i)' => Whole(i)))
      BY WholeShrinks DEF FlowPre, FlowInv, InOrder
    <3>2. /\ i \in Opened' <=> i \in Opened
          /\ i \in Opened => channel'[i] = channel[i]
      BY <1>2, <1>3, <2>2 DEF Opened
    <3>3. QED
      BY <1>1, <3>1, <3>2, FlowFrame
  <2>3. QED
    BY <2>1, <2>2
<1>5. QED
  BY <1>4 DEF FlowInv

(* A step that moves payloads of one channel leaves the others alone.      *)
LEMMA OneMoves ==
  ASSUME FlowPre, UNCHANGED channel, NEW i \in Chans, FlowOf(i)',
         \A j \in Chans \ {i} :
           /\ sent'[j] = sent[j] /\ got'[j] = got[j] /\ wire'[j] = wire[j]
           /\ flying'[j] = flying[j] /\ buffer'[j] = buffer[j],
         \A j \in Chans \ {i} :
           /\ InOf(inbox', j) = InOf(inbox, j)
           /\ InRises(inbox, j) => InRises(inbox', j)
           /\ InApart(inbox, j) => InApart(inbox', j)
  PROVE  FlowInv'
<1>1. Opened' = Opened
  BY DEF Opened
<1>2. ASSUME NEW j \in Chans \ {i} PROVE FlowOf(j)'
  <2>1. FlowOf(j) /\ (InOrder(j) => (Whole(j)' => Whole(j)))
    BY WholeShrinks DEF FlowPre, FlowInv, InOrder
  <2>2. QED
    BY <1>1, <2>1, FlowFrame
<1>3. QED
  BY <1>2 DEF FlowInv

LEMMA FlowParts ==
  ASSUME FlowPre, NEW i \in Opened
  PROVE  /\ TypeOK /\ i \in Chans /\ FlowOf(i) /\ Type(i) \in Types
         /\ sent[i] \in Seq(Payload) /\ Len(sent[i]) \in Nat
         /\ DOMAIN sent[i] = 1..Len(sent[i])
         /\ (\A k \in 1..Len(sent[i]) : sent[i][k].n = k) /\ Rising(buffer[i])
         /\ buffer[i] \in Seq(Payload) /\ wire[i] \in Seq(Payload)
         /\ got[i] \in Seq(Payload) /\ flying[i] \subseteq Payload
         /\ inbox \in Seq([chan : Opened, msg : Payload])
         /\ Whole(i) \in BOOLEAN
<1>1. TypeOK /\ i \in Chans /\ Type(i) \in Types
  BY TypesByOwner, OpenedIs DEF FlowPre
<1>2. FlowOf(i) /\ Numbered(i) /\ Rising(buffer[i])
  BY <1>1 DEF FlowPre, FlowInv, FlowOf
<1>3. QED
  BY <1>1, <1>2, PartsAre DEF Numbered

(* What is queued.                                                         *)
LEMMA SendOne ==
  ASSUME FlowPre, UNCHANGED <<channel, inbox, link, reading, listening, task>>,
         NEW i \in Opened, NEW p \in Payload, p.n = Len(sent[i]) + 1,
         sent'[i] = Append(sent[i], p), buffer'[i] = Append(buffer[i], p),
         got'[i] = got[i], wire'[i] = wire[i], flying'[i] = flying[i]
  PROVE  FlowOf(i)'
<1>1. /\ TypeOK /\ i \in Chans /\ FlowOf(i)
      /\ sent[i] \in Seq(Payload) /\ Len(sent[i]) \in Nat
      /\ DOMAIN sent[i] = 1..Len(sent[i])
      /\ \A k \in 1..Len(sent[i]) : sent[i][k].n = k
      /\ buffer[i] \in Seq(Payload) /\ Rising(buffer[i]) /\ Whole(i) \in BOOLEAN
  BY FlowParts
<1>2. /\ sent'[i] \in Seq(Payload) /\ Len(sent'[i]) = Len(sent[i]) + 1
      /\ sent'[i][Len(sent[i]) + 1] = p
      /\ \A k \in 1..Len(sent[i]) : sent'[i][k] = sent[i][k]
  BY <1>1, AppendProperties
<1>3. DOMAIN sent'[i] = 1..(Len(sent[i]) + 1)
  BY <1>1, <1>2, LenProperties
<1>4. ToSet(buffer'[i]) = ToSet(buffer[i]) \cup {p}
  BY <1>1, ToSetAppend
<1>5. /\ InOrder(i)' <=> InOrder(i)
      /\ Opened' = Opened /\ In(i)' = In(i) /\ Taken(i)' = Taken(i) /\ Whole(i)' = Whole(i)
  BY DEF InOrder, Opened, Type, In, Taken, Whole
<1>6. Numbered(i)'
  <2>1. \A k \in 1..(Len(sent[i]) + 1) : k \in 1..Len(sent[i]) \/ k = Len(sent[i]) + 1
    BY <1>1
  <2>2. QED
    BY <1>1, <1>2, <2>1 DEF Numbered
<1>7. ASSUME Known(sent[i], ToSet(buffer[i])) PROVE Rising(buffer'[i])
  <2>1. \A q \in ToSet(buffer[i]) : q.n < p.n
    BY <1>1, <1>7 DEF Known
  <2>2. QED
    BY <1>1, <2>1, RisingAppend
<1>8. ASSUME InOrder(i) PROVE LineInv(i)' /\ Rising(buffer'[i])
  <2>1. LineInv(i) /\ Taken(i) \in 0..Len(sent[i])
    BY <1>1, <1>8, TakenIs DEF FlowOf
  <2>2. LineAt(i)'
    BY <1>1, <1>4, <1>5, <2>1, LineQueue DEF LineInv, LineAt
  <2>3. Known(sent'[i], ToSet(got'[i]))
    BY <1>1, <1>2, <1>3, <2>1 DEF LineInv, Known
  <2>4. Rising(buffer'[i])
    BY <1>7, <2>1 DEF LineInv, LineAt, Line, Known
  <2>5. QED
    BY <2>1, <2>2, <2>3, <2>4 DEF LineInv, Rising
<1>9. ASSUME ~InOrder(i) PROVE HeapInv(i)' /\ Rising(buffer'[i])
  <2>1. HeapInv(i)
    BY <1>1, <1>9 DEF FlowOf
  <2>2. HeapAt(i)'
    BY <1>1, <1>4, <1>5, <2>1, HeapQueue DEF HeapInv, HeapAt
  <2>3. Rising(buffer'[i])
    BY <1>7, <2>1 DEF HeapInv, HeapAt, Heap, Known
  <2>4. QED
    BY <2>1, <2>2, <2>3 DEF HeapInv, Apart
<1>10. QED
  BY <1>5, <1>6, <1>8, <1>9 DEF FlowOf

LEMMA SendKeepsFlow ==
  ASSUME FlowPre, NEW id \in Ids, NEW size \in UNION ToSet(Sizes), SendPayload(id, size)
  PROVE  FlowInv'
<1>1. /\ slots[id] \in Opened /\ TypeOK /\ slots[id] \in Chans
  <2>1. OwnerTypes /\ TypeOK /\ slots[id] # 0
    BY TypesByOwner DEF FlowPre, SendPayload, ClientSends, EndpointSends
  <2>2. Len(channel) \in Nat /\ Opened \subseteq Chans /\ slots[id] \in 0..Len(channel)
    BY <2>1, OpenedIs DEF OwnerTypes
  <2>3. QED
    BY <2>1, <2>2 DEF Opened
<1>2. PICK i \in Opened : i = slots[id]
  BY <1>1
<1>3. PICK p : p = [n |-> Len(sent[i]) + 1, size |-> size]
  OBVIOUS
<1>4. /\ p.n = Len(sent[i]) + 1 /\ p.n \in DOMAIN Sizes
      /\ buffer' = [buffer EXCEPT ![i] = Append(@, p)]
      /\ sent' = [sent EXCEPT ![i] = Append(@, p)]
      /\ UNCHANGED <<channel, wire, got, flying, inbox, link, reading, listening, task>>
  BY <1>2, <1>3 DEF SendPayload, taskVars, peerVars, linkVars
<1>5. p \in Payload
  BY <1>3, <1>4 DEF Payload
<1>6. buffer \in [Chans -> Seq(Payload)] /\ sent \in [Chans -> Seq(Payload)] /\ i \in Chans
  BY <1>1, <1>2 DEF TypeOK
<1>7. FlowOf(i)'
  BY <1>4, <1>5, <1>6, SendOne
<1>8. QED
  BY <1>4, <1>6, <1>7, OneMoves

LEMMA CutAt ==
  ASSUME NEW i, NEW N, N = Len(sent[i]), N \in Nat, DOMAIN sent[i] = 1..N,
         \A k \in 1..N : sent[i][k].n = k, Whole(i) \in BOOLEAN,
         NEW J, NEW V, NEW C,
         J \subseteq In(i), V \subseteq ToSet(wire[i]), C \subseteq ToSet(buffer[i]),
         First(J \cup V, In(i) \cup ToSet(wire[i])),
         Line(sent[i], Taken(i), In(i), ToSet(wire[i]), ToSet(buffer[i]), Whole(i))
  PROVE  Line(sent[i], Taken(i), J, V, C, FALSE)
  BY LineCut, ZenonT(60)

(* What is dropped: a last part of an ordered channel whose stream or task *)
(* is over, anything of another.                                           *)
LEMMA CutOne ==
  ASSUME FlowPre, UNCHANGED channel, NEW i \in Chans,
         sent'[i] = sent[i], got'[i] = got[i], flying'[i] \subseteq flying[i],
         Rising(buffer'[i]), ToSet(buffer'[i]) \subseteq ToSet(buffer[i]),
         ToSet(wire'[i]) \subseteq ToSet(wire[i]), In(i)' \subseteq In(i),
         InOrder(i) => /\ Rising(wire'[i]) /\ InRises(inbox', i) /\ ~Whole(i)'
                       /\ First(In(i)' \cup ToSet(wire'[i]), In(i) \cup ToSet(wire[i])),
         ~InOrder(i) => Apart(wire'[i]) /\ InApart(inbox', i)
  PROVE  FlowOf(i)'
<1>1. /\ TypeOK /\ i \in Chans /\ FlowOf(i) /\ Len(sent[i]) \in Nat
      /\ DOMAIN sent[i] = 1..Len(sent[i])
      /\ \A k \in 1..Len(sent[i]) : sent[i][k].n = k
      /\ Whole(i) \in BOOLEAN
  BY PartsAre DEF FlowPre, FlowInv, FlowOf, Numbered
<1>2. /\ InOrder(i)' <=> InOrder(i)
      /\ Opened' = Opened /\ Taken(i)' = Taken(i) /\ Numbered(i)'
  BY <1>1 DEF InOrder, Opened, Type, Taken, Numbered
<1>3. ASSUME InOrder(i) PROVE LineInv(i)'
  <2>1. LineInv(i)
    BY <1>1, <1>3 DEF FlowOf
  <2>2. Line(sent[i], Taken(i), In(i), ToSet(wire[i]), ToSet(buffer[i]), Whole(i))
    BY <2>1 DEF LineInv, LineAt
  <2>3. /\ First(In(i)' \cup ToSet(wire'[i]), In(i) \cup ToSet(wire[i]))
        /\ Whole(i)' = FALSE /\ Rising(wire'[i]) /\ InRises(inbox', i)
    BY <1>3 DEF Whole
  <2>4. Line(sent[i], Taken(i), In(i)', ToSet(wire'[i]), ToSet(buffer'[i]), FALSE)
    <3>1. PICK J, V, C : J = In(i)' /\ V = ToSet(wire'[i]) /\ C = ToSet(buffer'[i])
      OBVIOUS
    <3>2. /\ J \subseteq In(i) /\ V \subseteq ToSet(wire[i]) /\ C \subseteq ToSet(buffer[i])
          /\ First(J \cup V, In(i) \cup ToSet(wire[i]))
      BY <2>3, <3>1
    <3>3. Line(sent[i], Taken(i), J, V, C, FALSE)
      BY <1>1, <2>2, <3>2, CutAt
    <3>4. QED
      BY <3>1, <3>3
  <2>5. LineAt(i)'
    BY <1>2, <2>3, <2>4 DEF LineAt
  <2>6. Known(sent[i], ToSet(got[i]))' /\ flying'[i] = {}
    BY <2>1 DEF LineInv
  <2>7. QED
    BY <2>3, <2>5, <2>6 DEF LineInv
<1>4. ASSUME ~InOrder(i) PROVE HeapInv(i)'
  <2>1. HeapInv(i)
    BY <1>1, <1>4 DEF FlowOf
  <2>2. Heap(sent[i], ToSet(got[i]), In(i), ToSet(wire[i]), flying[i], ToSet(buffer[i]))
    BY <2>1 DEF HeapInv, HeapAt
  <2>3. Heap(sent[i], ToSet(got[i]), In(i)', ToSet(wire'[i]), flying'[i], ToSet(buffer'[i]))
    BY <2>2, HeapLess
  <2>4. HeapAt(i)'
    BY <2>3 DEF HeapAt
  <2>5. QED
    BY <1>4, <2>1, <2>4 DEF HeapInv, Apart
<1>5. QED
  BY <1>1, <1>2, <1>3, <1>4 DEF FlowOf

(* What the buffer's head is.                                              *)
LEMMA HeadIs ==
  ASSUME FlowPre, NEW i \in Opened, buffer[i] # <<>>, NEW p, p = Head(buffer[i])
  PROVE  /\ p \in Payload /\ p.n \in Nat
         /\ ToSet(buffer[i]) = {p} \cup ToSet(Tail(buffer[i]))
         /\ Rising(Tail(buffer[i])) /\ p \notin ToSet(Tail(buffer[i]))
         /\ \A q \in ToSet(Tail(buffer[i])) : p.n < q.n
<1>1. buffer[i] \in Seq(Payload) /\ Rising(buffer[i])
  BY FlowParts
<1>2. /\ p \in Payload /\ ToSet(buffer[i]) = {p} \cup ToSet(Tail(buffer[i]))
      /\ Rising(Tail(buffer[i])) /\ \A q \in ToSet(Tail(buffer[i])) : p.n < q.n
  BY <1>1, ToSetTail, RisingTail
<1>3. p.n \in Nat
  BY <1>2, PayloadIs
<1>4. p \notin ToSet(Tail(buffer[i]))
  BY <1>2, <1>3
<1>5. QED
  BY <1>2, <1>3, <1>4

(* What is written.                                                        *)
LEMMA WriteOne ==
  ASSUME FlowPre, UNCHANGED <<channel, inbox>>, NEW i \in Opened,
         buffer[i] # <<>>, NEW p, p = Head(buffer[i]),
         buffer'[i] = Tail(buffer[i]), wire'[i] = Append(wire[i], p),
         sent'[i] = sent[i], got'[i] = got[i], flying'[i] = flying[i],
         InOrder(i) => Encodes(p) /\ Whole(i)
  PROVE  FlowOf(i)'
<1>1. /\ TypeOK /\ i \in Chans /\ FlowOf(i) /\ Len(sent[i]) \in Nat
      /\ DOMAIN sent[i] = 1..Len(sent[i])
      /\ \A k \in 1..Len(sent[i]) : sent[i][k].n = k
      /\ wire[i] \in Seq(Payload) /\ Whole(i) \in BOOLEAN
  BY FlowParts
<1>2. /\ p \in Payload /\ ToSet(buffer[i]) = {p} \cup ToSet(Tail(buffer[i]))
      /\ Rising(Tail(buffer[i])) /\ p \notin ToSet(Tail(buffer[i]))
      /\ \A q \in ToSet(Tail(buffer[i])) : p.n < q.n
  BY HeadIs
<1>3. ToSet(wire'[i]) = ToSet(wire[i]) \cup {p}
  BY <1>1, <1>2, ToSetAppend
<1>4. /\ InOrder(i)' <=> InOrder(i)
      /\ Opened' = Opened /\ Taken(i)' = Taken(i) /\ Numbered(i)' /\ In(i)' = In(i)
      /\ Whole(i)' \in BOOLEAN
  BY <1>1 DEF InOrder, Opened, Type, Taken, Numbered, In, Whole
<1>5. ASSUME InOrder(i) PROVE LineInv(i)'
  <2>1. LineInv(i) /\ Taken(i) \in Nat
    BY <1>1, <1>5, TakenIs DEF FlowOf
  <2>2. Line(sent[i], Taken(i), In(i), ToSet(wire[i]), ToSet(buffer[i]), TRUE)
    BY <1>5, <2>1 DEF LineInv, LineAt, Whole
  <2>3. Line(sent[i], Taken(i), In(i), ToSet(wire[i]) \cup {p}, ToSet(Tail(buffer[i])), TRUE)
    BY <1>1, <1>2, <1>5, <2>1, <2>2, LineWrite
  <2>4. LineAt(i)'
    BY <1>3, <1>4, <2>3, LineWeaken DEF LineAt
  <2>5. \A q \in ToSet(wire[i]) : q.n < p.n
    BY <1>2, <2>2 DEF Line, Before
  <2>6. Rising(wire'[i])
    BY <1>1, <1>2, <2>1, <2>5, RisingAppend DEF LineInv
  <2>7. QED
    BY <2>1, <2>4, <2>6 DEF LineInv
<1>6. ASSUME ~InOrder(i) PROVE HeapInv(i)'
  <2>1. HeapInv(i)
    BY <1>1, <1>6 DEF FlowOf
  <2>2. Heap(sent[i], ToSet(got[i]), In(i), ToSet(wire[i]), flying[i], ToSet(buffer[i]))
    BY <2>1 DEF HeapInv, HeapAt
  <2>3. Heap(sent[i], ToSet(got[i]), In(i), ToSet(wire[i]) \cup {p}, flying[i],
             ToSet(buffer[i]) \ {p})
    BY <1>2, <2>2, HeapMove
  <2>4. HeapAt(i)'
    BY <1>2, <1>3, <1>4, <2>3 DEF HeapAt
  <2>5. p \notin ToSet(wire[i])
    BY <1>2, <2>2 DEF Heap
  <2>6. Apart(wire'[i])
    BY <1>1, <1>2, <2>1, <2>5, ApartAppend DEF HeapInv
  <2>7. QED
    BY <2>1, <2>4, <2>6 DEF HeapInv, Apart
<1>7. QED
  BY <1>2, <1>4, <1>5, <1>6 DEF FlowOf

(* What is skipped: too long to be encoded.                                *)
LEMMA SkipOne ==
  ASSUME FlowPre, UNCHANGED <<channel, inbox>>, NEW i \in Opened,
         buffer[i] # <<>>, NEW p, p = Head(buffer[i]), ~Encodes(p),
         buffer'[i] = Tail(buffer[i]), wire'[i] = wire[i],
         sent'[i] = sent[i], got'[i] = got[i], flying'[i] = flying[i], InOrder(i)
  PROVE  FlowOf(i)'
<1>1. TypeOK /\ TaskInv /\ Next /\ i \in Chans /\ FlowOf(i)
  BY FlowParts DEF FlowPre
<1>2. /\ ToSet(buffer[i]) = {p} \cup ToSet(Tail(buffer[i])) /\ Rising(Tail(buffer[i]))
  BY HeadIs
<1>3. /\ InOrder(i)' <=> InOrder(i)
      /\ Opened' = Opened /\ Taken(i)' = Taken(i) /\ In(i)' = In(i)
      /\ Whole(i) \in BOOLEAN /\ Whole(i)' \in BOOLEAN
  BY DEF InOrder, Opened, Type, Taken, In, Whole
<1>4. Numbered(i)'
  BY <1>1 DEF FlowOf, Numbered
<1>5. Whole(i)' => Whole(i)
  BY <1>1, WholeShrinks
<1>6. LineInv(i)
  BY <1>1 DEF FlowOf
<1>7. Line(sent[i], Taken(i), In(i), ToSet(wire[i]), ToSet(Tail(buffer[i])), Whole(i))
  BY <1>2, <1>3, <1>6, LineSkip DEF LineInv, LineAt
<1>8. LineAt(i)'
  BY <1>3, <1>5, <1>7, LineWeaken DEF LineAt
<1>9. LineInv(i)'
  BY <1>6, <1>8 DEF LineInv, Rising
<1>10. QED
  BY <1>2, <1>3, <1>4, <1>9 DEF FlowOf

(* What gets a task of its own, and what that task writes.                 *)
LEMMA FlyOne ==
  ASSUME FlowPre, UNCHANGED <<channel, inbox>>, NEW i \in Opened, ~InOrder(i), NEW p,
         sent'[i] = sent[i], got'[i] = got[i],
         \/ /\ buffer[i] # <<>> /\ p = Head(buffer[i]) /\ buffer'[i] = Tail(buffer[i])
            /\ flying'[i] = flying[i] \cup {p} /\ wire'[i] = wire[i]
         \/ /\ p \in flying[i] /\ buffer'[i] = buffer[i]
            /\ flying'[i] = flying[i] \ {p} /\ wire'[i] = Append(wire[i], p)
  PROVE  FlowOf(i)'
<1>1. /\ FlowOf(i) /\ i \in Chans /\ Rising(buffer[i]) /\ wire[i] \in Seq(Payload)
      /\ flying[i] \subseteq Payload
  BY FlowParts
<1>2. /\ InOrder(i)' <=> InOrder(i)
      /\ Opened' = Opened /\ In(i)' = In(i) /\ Numbered(i)'
  BY <1>1 DEF InOrder, Opened, Type, In, FlowOf, Numbered
<1>3. /\ HeapInv(i)
      /\ Heap(sent[i], ToSet(got[i]), In(i), ToSet(wire[i]), flying[i], ToSet(buffer[i]))
  BY <1>1 DEF FlowOf, HeapInv, HeapAt
<1>4. HeapAt(i)' /\ Rising(buffer'[i]) /\ Apart(wire'[i])
  <2>1. CASE /\ buffer[i] # <<>> /\ p = Head(buffer[i]) /\ buffer'[i] = Tail(buffer[i])
             /\ flying'[i] = flying[i] \cup {p} /\ wire'[i] = wire[i]
    <3>1. /\ ToSet(buffer[i]) = {p} \cup ToSet(Tail(buffer[i])) /\ Rising(Tail(buffer[i]))
          /\ p \notin ToSet(Tail(buffer[i]))
      BY <2>1, HeadIs
    <3>2. ToSet(buffer[i]) \ {p} = ToSet(Tail(buffer[i])) /\ p \in ToSet(buffer[i])
      BY <3>1
    <3>3. Heap(sent[i], ToSet(got[i]), In(i), ToSet(wire[i]), flying[i] \cup {p},
               ToSet(Tail(buffer[i])))
      <4>1. Heap(sent[i], ToSet(got[i]), In(i), ToSet(wire[i]), flying[i] \cup {p},
                 ToSet(buffer[i]) \ {p})
        BY <1>3, <3>2, HeapMove
      <4>2. QED
        BY <3>2, <4>1
    <3>4. QED
      BY <1>2, <1>3, <2>1, <3>1, <3>3 DEF HeapAt, HeapInv
  <2>2. CASE /\ p \in flying[i] /\ buffer'[i] = buffer[i]
             /\ flying'[i] = flying[i] \ {p} /\ wire'[i] = Append(wire[i], p)
    <3>1. p \in Payload /\ p \notin ToSet(wire[i])
      BY <1>1, <1>3, <2>2 DEF Heap
    <3>2. ToSet(wire'[i]) = ToSet(wire[i]) \cup {p}
      BY <1>1, <2>2, <3>1, ToSetAppend
    <3>3. Heap(sent[i], ToSet(got[i]), In(i), ToSet(wire[i]) \cup {p}, flying[i] \ {p},
               ToSet(buffer[i]))
      BY <1>3, <2>2, HeapMove
    <3>4. Apart(wire'[i])
      BY <1>1, <1>3, <2>2, <3>1, ApartAppend DEF HeapInv
    <3>5. QED
      BY <1>1, <1>2, <2>2, <3>2, <3>3, <3>4 DEF HeapAt
  <2>3. QED
    BY <2>1, <2>2
<1>5. HeapInv(i)'
  BY <1>3, <1>4 DEF HeapInv, Apart
<1>6. QED
  BY <1>2, <1>4, <1>5 DEF FlowOf

(* What a failed write or a panic leaves.                                  *)
LEMMA LoseOne ==
  ASSUME FlowPre, UNCHANGED <<channel, inbox>>, NEW i \in Opened,
         sent'[i] = sent[i], got'[i] = got[i], wire'[i] = wire[i],
         flying'[i] \subseteq flying[i],
         \/ buffer'[i] = buffer[i] \/ buffer'[i] = <<>>
         \/ buffer[i] # <<>> /\ buffer'[i] = Tail(buffer[i]),
         InOrder(i) => ~Whole(i)'
  PROVE  FlowOf(i)'
<1>1. FlowOf(i) /\ i \in Chans /\ Rising(buffer[i])
  BY FlowParts
<1>2. Rising(buffer'[i]) /\ ToSet(buffer'[i]) \subseteq ToSet(buffer[i])
  <2>1. CASE buffer'[i] = buffer[i]
    BY <1>1, <2>1
  <2>2. CASE buffer'[i] = <<>>
    BY <2>2, ToSetEmpty DEF Rising
  <2>3. CASE buffer[i] # <<>> /\ buffer'[i] = Tail(buffer[i])
    <3>1. /\ ToSet(buffer[i]) = {Head(buffer[i])} \cup ToSet(Tail(buffer[i]))
          /\ Rising(Tail(buffer[i]))
      BY <2>3, HeadIs
    <3>2. QED
      BY <2>3, <3>1
  <2>4. QED
    BY <2>1, <2>2, <2>3
<1>3. In(i)' = In(i)
  BY DEF In
<1>4. InOrder(i) => Rising(wire[i]) /\ InRises(inbox, i)
  BY <1>1 DEF FlowOf, LineInv
<1>5. ~InOrder(i) => Apart(wire[i]) /\ InApart(inbox, i)
  BY <1>1 DEF FlowOf, HeapInv
<1>6. First(In(i)' \cup ToSet(wire'[i]), In(i) \cup ToSet(wire[i]))
  BY <1>3 DEF First
<1>7. QED
  BY <1>1, <1>2, <1>3, <1>4, <1>5, <1>6, CutOne

(* The steps of the tasks.                                                 *)
LEMMA TransmitKeepsFlow ==
  ASSUME FlowPre, NEW i \in Opened, Transmit(i) PROVE FlowInv'
<1>1. /\ TypeOK /\ i \in Chans /\ Type(i) \in Types /\ task[i] \in {"sending", "draining"}
      /\ buffer[i] # <<>>
  BY FlowParts DEF Transmit
<1>2. PICK p : p = Head(buffer[i])
  OBVIOUS
<1>3. UNCHANGED <<channel, sent, got, inbox, link, reading, listening>>
  BY DEF Transmit, ownerVars, peerVars, linkVars
<1>4. /\ wire \in [Chans -> Seq(Payload)] /\ buffer \in [Chans -> Seq(Payload)]
      /\ flying \in [Chans -> SUBSET Payload] /\ DOMAIN task = Chans
  BY <1>1 DEF TypeOK
<1>5. InOrder(i) <=> Type(i) = "OrderedReliable"
  BY DEF InOrder
<1>6. \/ /\ IF Reliable(i) THEN Type(i) = "OrderedReliable" /\ Writes(i, p)
                           ELSE SendsDatagram(i, p)
         /\ buffer' = [buffer EXCEPT ![i] = Tail(@)] /\ UNCHANGED <<task, flying>>
      \/ /\ IF Reliable(i) THEN Type(i) = "OrderedReliable" /\ WriteFails(i, p)
                           ELSE DatagramFails(p)
         /\ Fail(i, p) /\ UNCHANGED <<wire, flying>>
      \/ /\ Type(i) = "UnorderedReliable"
         /\ flying' = [flying EXCEPT ![i] = @ \cup {p}]
         /\ buffer' = [buffer EXCEPT ![i] = Tail(@)] /\ UNCHANGED <<wire, task>>
  BY <1>2 DEF Transmit
<1>7. CASE /\ IF Reliable(i) THEN Type(i) = "OrderedReliable" /\ Writes(i, p)
                             ELSE SendsDatagram(i, p)
           /\ buffer' = [buffer EXCEPT ![i] = Tail(@)] /\ UNCHANGED <<task, flying>>
  <2>1. wire' = [wire EXCEPT ![i] = Append(@, p)]
    BY <1>7 DEF Writes, SendsDatagram
  <2>2. InOrder(i) => Encodes(p) /\ Whole(i)
    BY <1>1, <1>5, <1>7 DEF Reliable, Writes, Room, Whole
  <2>3. /\ wire'[i] = Append(wire[i], p) /\ buffer'[i] = Tail(buffer[i])
        /\ \A j \in Chans \ {i} : wire'[j] = wire[j] /\ buffer'[j] = buffer[j]
    BY <1>1, <1>4, <1>7, <2>1
  <2>4. FlowOf(i)'
    BY <1>1, <1>2, <1>3, <1>7, <2>2, <2>3, WriteOne
  <2>5. QED
    BY <1>1, <1>3, <1>7, <2>3, <2>4, OneMoves
<1>8. CASE /\ IF Reliable(i) THEN Type(i) = "OrderedReliable" /\ WriteFails(i, p)
                             ELSE DatagramFails(p)
           /\ Fail(i, p) /\ UNCHANGED <<wire, flying>>
  <2>1. /\ \A j \in Chans \ {i} : buffer'[j] = buffer[j]
        /\ \/ buffer'[i] = <<>> /\ task'[i] = "gone"
           \/ buffer'[i] = Tail(buffer[i])
    BY <1>1, <1>4, <1>8 DEF Fail
  <2>2. InOrder(i) => ~Encodes(p) \/ ~Whole(i)'
    BY <1>3, <1>5, <1>8 DEF Reliable, WriteFails, Broken, Whole
  <2>3. FlowOf(i)'
    <3>1. CASE InOrder(i) /\ Whole(i)'
      <4>1. ~Encodes(p) /\ buffer'[i] = Tail(buffer[i])
        BY <2>1, <2>2, <3>1 DEF Whole
      <4>2. QED
        BY <1>1, <1>2, <1>3, <1>8, <3>1, <4>1, SkipOne
    <3>2. CASE ~(InOrder(i) /\ Whole(i)')
      BY <1>1, <1>3, <1>8, <2>1, <3>2, LoseOne
    <3>3. QED
      BY <3>1, <3>2
  <2>4. QED
    BY <1>1, <1>3, <1>8, <2>1, <2>3, OneMoves
<1>9. CASE /\ Type(i) = "UnorderedReliable"
           /\ flying' = [flying EXCEPT ![i] = @ \cup {p}]
           /\ buffer' = [buffer EXCEPT ![i] = Tail(@)] /\ UNCHANGED <<wire, task>>
  <2>1. /\ flying'[i] = flying[i] \cup {p} /\ buffer'[i] = Tail(buffer[i])
        /\ \A j \in Chans \ {i} : flying'[j] = flying[j] /\ buffer'[j] = buffer[j]
    BY <1>1, <1>4, <1>9
  <2>2. FlowOf(i)'
    BY <1>1, <1>2, <1>3, <1>5, <1>9, <2>1, FlyOne
  <2>3. QED
    BY <1>1, <1>3, <1>9, <2>1, <2>2, OneMoves
<1>10. QED
  BY <1>6, <1>7, <1>8, <1>9

LEMMA HelpKeepsFlow ==
  ASSUME FlowPre, NEW i \in Opened, Help(i) PROVE FlowInv'
<1>1. TypeOK /\ i \in Chans /\ FlowOf(i)
  BY FlowParts
<1>2. UNCHANGED <<channel, sent, got, inbox, buffer>>
  BY DEF Help, ownerVars, peerVars
<1>3. wire \in [Chans -> Seq(Payload)] /\ flying \in [Chans -> SUBSET Payload]
  BY <1>1 DEF TypeOK
<1>4. PICK p \in flying[i] : /\ flying' = [flying EXCEPT ![i] = @ \ {p}]
                             /\ Writes(i, p) \/ UNCHANGED wire
  BY DEF Help
<1>5. ~InOrder(i)
  BY <1>1, <1>4 DEF FlowOf, LineInv
<1>6. flying'[i] = flying[i] \ {p} /\ \A j \in Chans \ {i} : flying'[j] = flying[j]
  BY <1>1, <1>3, <1>4
<1>7. CASE Writes(i, p)
  <2>1. wire'[i] = Append(wire[i], p) /\ \A j \in Chans \ {i} : wire'[j] = wire[j]
    BY <1>1, <1>3, <1>7 DEF Writes
  <2>2. FlowOf(i)'
    BY <1>1, <1>2, <1>4, <1>5, <1>6, <2>1, FlyOne
  <2>3. QED
    BY <1>1, <1>2, <1>6, <2>1, <2>2, OneMoves
<1>8. CASE UNCHANGED wire
  <2>1. FlowOf(i)'
    BY <1>1, <1>2, <1>5, <1>6, <1>8, LoseOne
  <2>2. QED
    BY <1>1, <1>2, <1>6, <1>8, <2>1, OneMoves
<1>9. QED
  BY <1>4, <1>7, <1>8

LEMMA StreamKeepsFlow ==
  ASSUME FlowPre, NEW i \in Opened, OpenStream(i) \/ Stop(i) \/ Finish(i) PROVE FlowInv'
<1>1. TypeOK /\ i \in Chans /\ FlowOf(i)
  BY FlowParts
<1>2. UNCHANGED <<channel, sent, got, wire, flying, inbox>>
  BY DEF OpenStream, Stop, Finish, ownerVars, peerVars
<1>3. buffer \in [Chans -> Seq(Payload)] /\ DOMAIN task = Chans
  BY <1>1 DEF TypeOK
<1>4. \/ UNCHANGED buffer
      \/ buffer' = [buffer EXCEPT ![i] = <<>>] /\ (buffer[i] = <<>> \/ task'[i] = "gone")
  BY <1>1, <1>3 DEF OpenStream, Stop, Finish, Drained
<1>5. CASE UNCHANGED buffer
  BY <1>2, <1>5, FlowUnmoved
<1>6. CASE buffer' = [buffer EXCEPT ![i] = <<>>] /\ (buffer[i] = <<>> \/ task'[i] = "gone")
  <2>1. buffer'[i] = <<>> /\ \A j \in Chans \ {i} : buffer'[j] = buffer[j]
    BY <1>1, <1>3, <1>6
  <2>2. CASE buffer[i] = <<>>
    <3>1. UNCHANGED buffer
      BY <1>1, <1>3, <1>6, <2>2
    <3>2. QED
      BY <1>2, <3>1, FlowUnmoved
  <2>3. CASE task'[i] = "gone"
    <3>1. FlowOf(i)'
      BY <1>1, <1>2, <2>1, <2>3, LoseOne DEF Whole
    <3>2. QED
      BY <1>1, <1>2, <2>1, <3>1, OneMoves
  <2>4. QED
    BY <1>6, <2>2, <2>3
<1>7. QED
  BY <1>4, <1>5, <1>6

(* What goes with the requests nobody took.                                *)
LEMMA DropKeepsFlow ==
  ASSUME FlowPre, DropRequests, UNCHANGED <<channel, sent, got, wire, flying, inbox>>
  PROVE  FlowInv'
<1>1. /\ TypeOK /\ TaskInv /\ Next /\ Opened' = Opened
      /\ ToSet(requests) \subseteq Opened /\ Opened \subseteq Chans
  BY RequestsAre, TypesByOwner, OpenedIs DEF FlowPre, Opened
<1>2. ASSUME NEW i \in Chans PROVE FlowOf(i)'
  <2>1. CASE i \in ToSet(requests)
    <3>1. task'[i] = "gone" /\ buffer'[i] = <<>> /\ i \in Opened
      BY <1>1, <2>1 DEF DropRequests
    <3>2. QED
      BY <3>1, LoseOne DEF Whole
  <2>2. CASE i \notin ToSet(requests)
    <3>1. buffer'[i] = buffer[i]
      BY <2>2 DEF DropRequests
    <3>2. FlowOf(i) /\ (InOrder(i) => (Whole(i)' => Whole(i)))
      BY <1>1, WholeShrinks DEF FlowPre, FlowInv, InOrder
    <3>3. QED
      BY <1>1, <3>1, <3>2, FlowFrame
  <2>3. QED
    BY <2>1, <2>2
<1>3. QED
  BY <1>2 DEF FlowInv

(* What is lost on the way.                                                *)
LEMMA LostKeepsFlow ==
  ASSUME FlowPre, LinkLost PROVE FlowInv'
<1>1. /\ TypeOK /\ link' = "closed"
      /\ UNCHANGED <<channel, sent, got, flying, buffer, inbox>>
  BY DEF FlowPre, LinkLost, ownerVars, taskVars, peerVars
<1>2. PICK k \in [Chans -> 0..Window] :
        /\ \A i \in Chans : k[i] <= Len(wire[i])
        /\ wire' = [i \in Chans |-> SubSeq(wire[i], 1, k[i])]
  BY DEF LinkLost
<1>3. ASSUME NEW i \in Chans PROVE FlowOf(i)'
  <2>1. /\ wire[i] \in Seq(Payload) /\ k[i] \in Nat /\ k[i] <= Len(wire[i])
        /\ wire'[i] = SubSeq(wire[i], 1, k[i]) /\ FlowOf(i) /\ Len(wire[i]) \in Nat
    BY <1>1, <1>2, PartsAre, LenProperties, ChannelsAssumption DEF FlowPre, FlowInv
  <2>2. /\ Len(wire'[i]) = k[i] /\ \A l \in 1..k[i] : wire'[i][l] = wire[i][l]
        /\ ToSet(wire'[i]) = {wire[i][l] : l \in 1..k[i]}
        /\ ToSet(wire[i]) = {wire[i][l] : l \in 1..Len(wire[i])}
    BY <2>1, Prefix, ToSetIs
  <2>3. 1..k[i] \subseteq 1..Len(wire[i])
    BY <2>1
  <2>4. ToSet(wire'[i]) \subseteq ToSet(wire[i])
    BY <2>2, <2>3, Zenon
  <2>5. /\ Rising(wire[i]) => Rising(wire'[i])
        /\ Apart(wire[i]) => Apart(wire'[i])
    BY <2>2, <2>3 DEF Rising, Apart
  <2>6. In(i)' = In(i) /\ ~Whole(i)' /\ ToSet(buffer'[i]) = ToSet(buffer[i])
    BY <1>1 DEF In, Whole
  <2>7. ASSUME InOrder(i)
        PROVE  First(In(i)' \cup ToSet(wire'[i]), In(i) \cup ToSet(wire[i]))
    <3>1. Rising(wire[i]) /\ Before(In(i), ToSet(wire[i]))
      BY <2>1, <2>7 DEF FlowOf, LineInv, LineAt, Line
    <3>2. ToSet(wire[i]) \subseteq Payload
      BY <2>1, ToSetIs
    <3>3. ASSUME NEW p \in In(i), NEW q \in ToSet(wire[i]), q.n < p.n PROVE FALSE
      <4>1. p.n < q.n
        BY <3>1 DEF Before
      <4>2. inbox \in Seq([chan : Opened, msg : Payload])
        BY <1>1, <2>1, PartsAre
      <4>3. p \in Payload
        <5>1. PICK l \in 1..Len(inbox) : p = inbox[l].msg
          BY Zenon DEF In, InOf
        <5>2. inbox[l] \in [chan : Opened, msg : Payload]
          BY <4>2, ElementOfSeq
        <5>3. QED
          BY <5>1, <5>2
      <4>4. p.n \in Nat /\ q.n \in Nat
        BY <3>2, <4>3, PayloadIs
      <4>5. QED
        BY <3>3, <4>1, <4>4
    <3>4. ASSUME NEW p \in ToSet(wire'[i]), NEW q \in ToSet(wire[i]), q.n < p.n
          PROVE  q \in ToSet(wire'[i])
      <4>1. PICK l \in 1..k[i] : p = wire[i][l]
        BY <2>2, Zenon
      <4>2. PICK m \in 1..Len(wire[i]) : q = wire[i][m]
        BY <2>2, Zenon
      <4>3. p.n \in Nat /\ q.n \in Nat
        BY <2>4, <3>2, PayloadIs
      <4>4. ~(l < m) /\ l \in 1..Len(wire[i])
        BY <2>3, <3>1, <3>4, <4>1, <4>2, <4>3 DEF Rising
      <4>5. m \in 1..k[i]
        BY <2>1, <4>1, <4>4
      <4>6. QED
        BY <2>2, <4>2, <4>5
    <3>5. QED
      BY <2>6, <3>3, <3>4 DEF First
  <2>8. InOrder(i) => Rising(wire[i]) /\ InRises(inbox, i)
    BY <2>1 DEF FlowOf, LineInv
  <2>9. ~InOrder(i) => Apart(wire[i]) /\ InApart(inbox, i)
    BY <2>1 DEF FlowOf, HeapInv
  <2>10. Rising(buffer'[i])
    BY <1>1, <2>1 DEF FlowOf
  <2>11. QED
    BY <1>1, <2>4, <2>5, <2>6, <2>7, <2>8, <2>9, <2>10, CutOne
<1>4. QED
  BY <1>3 DEF FlowInv

(* What is gone when the other end closes.                                 *)
LEMMA PeerCloseKeepsFlow ==
  ASSUME FlowPre, PeerCloses PROVE FlowInv'
<1>1. /\ inbox' = <<>> /\ wire' = [i \in Chans |-> <<>>] /\ ~listening'
      /\ UNCHANGED <<channel, sent, got, flying, buffer>>
  BY DEF PeerCloses, ownerVars, taskVars
<1>2. ASSUME NEW i \in Chans PROVE FlowOf(i)'
  <2>1. ToSet(wire'[i]) = {} /\ wire'[i] = <<>> /\ ~Whole(i)' /\ Rising(buffer'[i])
    BY <1>1, ToSetEmpty DEF Whole, FlowPre, FlowInv, FlowOf
  <2>2. In(i)' = {} /\ InRises(inbox', i) /\ InApart(inbox', i)
    BY <1>1, InEmpty DEF In
  <2>3. Rising(wire'[i]) /\ Apart(wire'[i])
    BY <2>1 DEF Rising, Apart
  <2>4. First(In(i)' \cup ToSet(wire'[i]), In(i) \cup ToSet(wire[i]))
    BY <2>1, <2>2 DEF First
  <2>5. QED
    BY <1>1, <2>1, <2>2, <2>3, <2>4, CutOne
<1>3. QED
  BY <1>2 DEF FlowInv

(* What is received.                                                       *)
LEMMA ReadOne ==
  ASSUME FlowPre, UNCHANGED channel, NEW i \in Opened, NEW k \in 1..Len(wire[i]),
         InOrder(i) => k = 1, NEW p, p = wire[i][k],
         inbox' = Append(inbox, [chan |-> i, msg |-> p]), wire'[i] = RemoveAt(wire[i], k),
         sent'[i] = sent[i], got'[i] = got[i], flying'[i] = flying[i],
         buffer'[i] = buffer[i]
  PROVE  FlowOf(i)'
<1>1. /\ TypeOK /\ TaskInv /\ Next /\ FlowOf(i) /\ i \in Chans /\ wire[i] \in Seq(Payload)
      /\ inbox \in Seq([chan : Opened, msg : Payload]) /\ Rising(buffer[i])
  BY FlowParts DEF FlowPre
<1>2. PICK m : m = [chan |-> i, msg |-> p]
  OBVIOUS
<1>3. /\ p \in Payload /\ p.n \in Nat /\ p \in ToSet(wire[i])
      /\ ToSet(wire'[i]) \subseteq ToSet(wire[i])
      /\ Apart(wire[i]) => Apart(wire'[i]) /\ p \notin ToSet(wire'[i])
      /\ Rising(wire[i]) => Rising(wire'[i])
  <2>1. p \in Payload
    BY <1>1, ElementOfSeq
  <2>2. QED
    BY <1>1, <2>1, RemovedSet, PayloadIs
<1>4. m.chan = i /\ m.msg = p /\ m \in [chan : Opened, msg : Payload]
  BY <1>2, <1>3
<1>5. /\ In(i)' = In(i) \cup {p}
      /\ InRises(inbox, i) /\ (\A q \in In(i) : q.n < p.n) => InRises(inbox', i)
      /\ InApart(inbox, i) /\ p \notin In(i) => InApart(inbox', i)
  <2>1. /\ InOf(Append(inbox, m), m.chan) = InOf(inbox, m.chan) \cup {m.msg}
        /\ InRises(inbox, m.chan) /\ (\A q \in InOf(inbox, m.chan) : q.n < m.msg.n)
             => InRises(Append(inbox, m), m.chan)
        /\ InApart(inbox, m.chan) /\ m.msg \notin InOf(inbox, m.chan)
             => InApart(Append(inbox, m), m.chan)
    <3>1. PICK M : M = [chan : Opened, msg : Payload]
      OBVIOUS
    <3>2. inbox \in Seq(M) /\ m \in M
      BY <1>1, <1>4, <3>1
    <3>3. QED
      BY ONLY <3>2, InAppend
  <2>2. inbox' = Append(inbox, m)
    BY <1>2
  <2>3. QED
    BY <1>4, <2>1, <2>2 DEF In
<1>6. /\ InOrder(i)' <=> InOrder(i)
      /\ Opened' = Opened /\ Taken(i)' = Taken(i) /\ Numbered(i)'
      /\ Whole(i) \in BOOLEAN /\ Whole(i)' \in BOOLEAN
  BY <1>1 DEF InOrder, Opened, Type, Taken, FlowOf, Numbered, Whole
<1>7. ASSUME InOrder(i) PROVE LineInv(i)'
  <2>1. LineInv(i) /\ (Whole(i)' => Whole(i))
    BY <1>1, <1>7, WholeShrinks DEF FlowOf
  <2>2. wire[i] # <<>> /\ p = Head(wire[i]) /\ wire'[i] = Tail(wire[i])
    <3>1. wire[i] # <<>> /\ k = 1
      BY <1>7
    <3>2. Head(wire[i]) = wire[i][1]
      BY <1>1, <3>1
    <3>3. RemoveAt(wire[i], 1) = Tail(wire[i])
      BY <1>1, <3>1, RemoveHead
    <3>4. QED
      BY <3>1, <3>2, <3>3
  <2>3. /\ ToSet(wire[i]) = {p} \cup ToSet(wire'[i])
        /\ Rising(wire'[i]) /\ \A q \in ToSet(wire'[i]) : p.n < q.n
    BY <1>1, <2>1, <2>2, ToSetTail, RisingTail DEF LineInv
  <2>4. Line(sent[i], Taken(i), In(i), ToSet(wire[i]), ToSet(buffer[i]), Whole(i))
    BY <2>1 DEF LineInv, LineAt
  <2>5. Line(sent[i], Taken(i), In(i) \cup {p}, ToSet(wire'[i]), ToSet(buffer[i]), Whole(i))
    <3>1. PICK V : V = ToSet(wire'[i])
      OBVIOUS
    <3>2. ToSet(wire[i]) = {p} \cup V /\ \A q \in V : p.n < q.n
      BY <2>3, <3>1
    <3>3. Line(sent[i], Taken(i), In(i) \cup {p}, V, ToSet(buffer[i]), Whole(i))
      BY <1>6, <2>4, <3>2, LineRead, SMTT(60)
    <3>4. QED
      BY <3>1, <3>3
  <2>6. LineAt(i)'
    BY <1>5, <1>6, <2>1, <2>5, LineWeaken DEF LineAt
  <2>7. \A q \in In(i) : q.n < p.n
    BY <1>3, <2>4 DEF Line, Before
  <2>8. InRises(inbox', i)
    BY <1>5, <2>1, <2>7 DEF LineInv
  <2>9. QED
    BY <2>1, <2>3, <2>6, <2>8 DEF LineInv
<1>8. ASSUME ~InOrder(i) PROVE HeapInv(i)'
  <2>1. HeapInv(i)
    BY <1>1, <1>8 DEF FlowOf
  <2>2. Heap(sent[i], ToSet(got[i]), In(i), ToSet(wire[i]), flying[i], ToSet(buffer[i]))
    BY <2>1 DEF HeapInv, HeapAt
  <2>3. Heap(sent[i], ToSet(got[i]), In(i) \cup {p}, ToSet(wire[i]) \ {p}, flying[i],
             ToSet(buffer[i]))
    BY <1>3, <2>2, HeapMove
  <2>4. ToSet(wire'[i]) \subseteq ToSet(wire[i]) \ {p} /\ Apart(wire'[i])
    BY <1>3, <2>1 DEF HeapInv
  <2>5. Heap(sent[i], ToSet(got[i]), In(i) \cup {p}, ToSet(wire'[i]), flying[i],
             ToSet(buffer[i]))
    BY <2>3, <2>4, HeapLess
  <2>6. HeapAt(i)'
    BY <1>5, <2>5 DEF HeapAt
  <2>7. p \notin In(i)
    BY <1>3, <2>2 DEF Heap
  <2>8. InApart(inbox', i)
    BY <1>5, <2>1, <2>7 DEF HeapInv
  <2>9. QED
    BY <2>1, <2>4, <2>6, <2>8 DEF HeapInv, Apart
<1>9. QED
  BY <1>1, <1>6, <1>7, <1>8 DEF FlowOf

LEMMA ReadKeepsFlow ==
  ASSUME FlowPre, NEW i \in Opened, ReadStream(i) PROVE FlowInv'
<1>1. /\ TypeOK /\ FlowOf(i) /\ i \in Chans /\ wire[i] \in Seq(Payload) /\ wire[i] # <<>>
      /\ inbox \in Seq([chan : Opened, msg : Payload]) /\ Rising(buffer[i])
  BY FlowParts DEF ReadStream
<1>2. UNCHANGED <<channel, sent, got, flying, buffer>>
  BY DEF ReadStream, ownerVars, taskVars
<1>3. wire \in [Chans -> Seq(Payload)] /\ Len(wire[i]) \in Nat \ {0}
  BY <1>1, EmptySeq DEF TypeOK
<1>4. InOrder(i) <=> Type(i) = "OrderedReliable"
  BY DEF InOrder
<1>5. PICK k \in 1..Len(wire[i]) :
        /\ Type(i) = "OrderedReliable" => k = 1
        /\ \/ /\ inbox' = Append(inbox, [chan |-> i, msg |-> wire[i][k]])
              /\ wire' = [wire EXCEPT ![i] = RemoveAt(@, k)]
           \/ /\ reading' = ReadOn(i)
              /\ wire' = [wire EXCEPT ![i] =
                   IF Type(i) = "OrderedReliable" THEN <<>> ELSE RemoveAt(@, k)]
              /\ UNCHANGED inbox
  <2>1. PICK k \in IF Type(i) = "OrderedReliable" THEN {1} ELSE 1..Len(wire[i]) :
          \/ /\ inbox' = Append(inbox, [chan |-> i, msg |-> wire[i][k]])
             /\ wire' = [wire EXCEPT ![i] = RemoveAt(@, k)]
          \/ /\ reading' = ReadOn(i)
             /\ wire' = [wire EXCEPT ![i] =
                  IF Type(i) = "OrderedReliable" THEN <<>> ELSE RemoveAt(@, k)]
             /\ UNCHANGED inbox
    BY DEF ReadStream
  <2>2. k \in 1..Len(wire[i]) /\ (Type(i) = "OrderedReliable" => k = 1)
    BY <1>3, <2>1
  <2>3. QED
    BY <2>1, <2>2
<1>6. CASE /\ inbox' = Append(inbox, [chan |-> i, msg |-> wire[i][k]])
           /\ wire' = [wire EXCEPT ![i] = RemoveAt(@, k)]
  <2>1. wire'[i] = RemoveAt(wire[i], k) /\ \A j \in Chans \ {i} : wire'[j] = wire[j]
    BY <1>1, <1>3, <1>6
  <2>2. FlowOf(i)'
    BY <1>2, <1>4, <1>5, <1>6, <2>1, ReadOne
  <2>3. PICK m : m = [chan |-> i, msg |-> wire[i][k]]
    OBVIOUS
  <2>4. m.chan = i /\ m \in [chan : Opened, msg : Payload]
    BY <1>1, <2>3, ElementOfSeq
  <2>5. \A j \in Chans \ {i} : /\ InOf(inbox', j) = InOf(inbox, j)
                               /\ InRises(inbox, j) => InRises(inbox', j)
                               /\ InApart(inbox, j) => InApart(inbox', j)
    <3>1. inbox' = Append(inbox, m)
      BY <1>6, <2>3
    <3>2. \A j : j # m.chan =>
            /\ InOf(Append(inbox, m), j) = InOf(inbox, j)
            /\ InRises(inbox, j) => InRises(Append(inbox, m), j)
            /\ InApart(inbox, j) => InApart(Append(inbox, m), j)
      <4>1. PICK M : M = [chan : Opened, msg : Payload]
        OBVIOUS
      <4>2. inbox \in Seq(M) /\ m \in M
        BY <1>1, <2>4, <4>1
      <4>3. QED
        BY ONLY <4>2, InAppend
    <3>3. QED
      BY <2>4, <3>1, <3>2
  <2>6. QED
    BY <1>1, <1>2, <2>1, <2>2, <2>5, OneMoves
<1>7. CASE /\ reading' = ReadOn(i)
           /\ wire' = [wire EXCEPT ![i] =
                IF Type(i) = "OrderedReliable" THEN <<>> ELSE RemoveAt(@, k)]
           /\ UNCHANGED inbox
  <2>1. \A j \in Chans \ {i} : wire'[j] = wire[j]
    BY <1>3, <1>7
  <2>2. In(i)' = In(i) /\ Rising(buffer'[i])
    BY <1>1, <1>2, <1>7 DEF In
  <2>3. FlowOf(i)'
    <3>1. CASE InOrder(i)
      <4>1. wire'[i] = <<>> /\ ToSet(wire'[i]) = {} /\ ~Whole(i)'
        BY <1>1, <1>3, <1>4, <1>7, <3>1, ToSetEmpty DEF ReadOn, Whole
      <4>2. LineInv(i)
        BY <1>1, <3>1 DEF FlowOf
      <4>3. Rising(wire'[i]) /\ InRises(inbox', i)
        BY <1>7, <4>1, <4>2 DEF LineInv, Rising
      <4>4. First(In(i)' \cup ToSet(wire'[i]), In(i) \cup ToSet(wire[i]))
        <5>1. Before(In(i), ToSet(wire[i])) /\ Known(sent[i], In(i) \cup ToSet(wire[i]))
          BY <4>2 DEF LineInv, LineAt, Line, Known
        <5>2. DOMAIN sent[i] \subseteq Nat
          BY FlowParts
        <5>3. \A q \in In(i) \cup ToSet(wire[i]) : q.n \in Nat
          BY <5>1, <5>2 DEF Known
        <5>4. ASSUME NEW p \in In(i), NEW q \in ToSet(wire[i]), q.n < p.n PROVE FALSE
          BY <5>1, <5>3, <5>4 DEF Before
        <5>5. QED
          BY <2>2, <4>1, <5>4 DEF First
      <4>5. QED
        BY <1>1, <1>2, <2>2, <3>1, <4>1, <4>3, <4>4, CutOne
    <3>2. CASE ~InOrder(i)
      <4>1. wire'[i] = RemoveAt(wire[i], k)
        BY <1>1, <1>3, <1>4, <1>7, <3>2
      <4>2. HeapInv(i)
        BY <1>1, <3>2 DEF FlowOf
      <4>3. ToSet(wire'[i]) \subseteq ToSet(wire[i]) /\ Apart(wire'[i])
        BY <1>1, <4>1, <4>2, RemovedSet DEF HeapInv
      <4>4. QED
        BY <1>1, <1>2, <1>7, <2>2, <3>2, <4>2, <4>3, CutOne DEF HeapInv
    <3>3. QED
      BY <3>1, <3>2
  <2>4. QED
    BY <1>1, <1>2, <1>7, <2>1, <2>3, OneMoves
<1>8. QED
  BY <1>5, <1>6, <1>7

LEMMA DatagramKeepsFlow ==
  ASSUME FlowPre, NEW i \in Opened, LoseDatagram(i) PROVE FlowInv'
<1>1. /\ TypeOK /\ FlowOf(i) /\ i \in Chans /\ wire[i] \in Seq(Payload) /\ wire[i] # <<>>
      /\ Rising(buffer[i]) /\ ~InOrder(i)
  BY FlowParts DEF LoseDatagram, Reliable, InOrder
<1>2. UNCHANGED <<channel, sent, got, flying, buffer, inbox>>
  BY DEF LoseDatagram, ownerVars, taskVars, peerVars
<1>3. wire'[i] = Tail(wire[i]) /\ \A j \in Chans \ {i} : wire'[j] = wire[j]
  BY <1>1 DEF LoseDatagram, TypeOK
<1>4. HeapInv(i) /\ In(i)' = In(i)
  BY <1>1, <1>2 DEF FlowOf, In
<1>5. ToSet(wire'[i]) \subseteq ToSet(wire[i]) /\ Apart(wire'[i])
  BY <1>1, <1>3, <1>4, ToSetTail, ApartTail DEF HeapInv
<1>6. FlowOf(i)'
  BY <1>1, <1>2, <1>4, <1>5, CutOne DEF HeapInv
<1>7. QED
  BY <1>1, <1>2, <1>3, <1>6, OneMoves

(* What is taken.  An ordered channel hands on the next payload that could *)
(* be encoded, another one it has not handed on before.                    *)
Delivers(i, p) ==
  IF InOrder(i)
    THEN Follows(sent[i], Len(sent[i]), Taken(i), p)
    ELSE /\ p.n \in 1..Len(sent[i]) /\ sent[i][p.n] = p
         /\ \A j \in 1..Len(got[i]) : got[i][j].n # p.n

LEMMA TakeAt ==
  ASSUME NEW i, NEW N, N = Len(sent[i]), N \in Nat, DOMAIN sent[i] = 1..N,
         \A k \in 1..N : sent[i][k].n = k, Whole(i) \in BOOLEAN, Taken(i) \in Nat,
         NEW J, NEW p, In(i) = {p} \cup J, Before({p}, J),
         Line(sent[i], Taken(i), In(i), ToSet(wire[i]), ToSet(buffer[i]), Whole(i))
  PROVE  /\ Line(sent[i], p.n, J, ToSet(wire[i]), ToSet(buffer[i]), Whole(i))
         /\ Follows(sent[i], N, Taken(i), p)
<1>1. Line(sent[i], Taken(i), {p} \cup J, ToSet(wire[i]), ToSet(buffer[i]), Whole(i))
  OBVIOUS
<1>2. QED
  BY <1>1, LineTake, LineNext

LEMMA TakeOne ==
  ASSUME FlowPre, UNCHANGED channel, NEW i \in Opened, NEW p \in Payload, NEW q,
         In(i) = {p} \cup InOf(q, i), inbox' = q,
         InRises(inbox, i) => InRises(q, i) /\ \A x \in InOf(q, i) : p.n < x.n,
         InApart(inbox, i) => InApart(q, i) /\ p \notin InOf(q, i),
         got'[i] = Append(got[i], p), wire'[i] = wire[i],
         sent'[i] = sent[i], flying'[i] = flying[i], buffer'[i] = buffer[i]
  PROVE  FlowOf(i)' /\ Delivers(i, p)
<1>1. /\ TypeOK /\ TaskInv /\ Next /\ FlowOf(i) /\ i \in Chans /\ got[i] \in Seq(Payload)
      /\ Len(sent[i]) \in Nat /\ DOMAIN sent[i] = 1..Len(sent[i])
      /\ (\A k \in 1..Len(sent[i]) : sent[i][k].n = k) /\ Rising(buffer[i])
  BY FlowParts DEF FlowPre
<1>2. /\ InOrder(i)' <=> InOrder(i)
      /\ Opened' = Opened /\ Numbered(i)' /\ In(i)' = InOf(q, i)
      /\ Whole(i) \in BOOLEAN /\ Whole(i)' \in BOOLEAN
  BY <1>1 DEF InOrder, Opened, Type, In, FlowOf, Numbered, Whole
<1>3. ToSet(got'[i]) = ToSet(got[i]) \cup {p}
  BY <1>1, ToSetAppend
<1>4. Taken(i)' = p.n
  <2>1. /\ Len(got'[i]) = Len(got[i]) + 1 /\ got'[i][Len(got[i]) + 1] = p
        /\ Len(got[i]) \in Nat
    BY <1>1, AppendProperties, LenProperties
  <2>2. got'[i] # <<>>
    BY <1>1, <2>1, AppendProperties, EmptySeq
  <2>3. QED
    BY <2>1, <2>2 DEF Taken
<1>5. ASSUME InOrder(i) PROVE LineInv(i)' /\ Delivers(i, p)
  <2>1. LineInv(i) /\ (Whole(i)' => Whole(i)) /\ Taken(i) \in Nat
    BY <1>1, <1>5, WholeShrinks, TakenIs DEF FlowOf
  <2>2. Line(sent[i], Taken(i), In(i), ToSet(wire[i]), ToSet(buffer[i]), Whole(i))
    BY <2>1 DEF LineInv, LineAt
  <2>3. InRises(q, i) /\ \A x \in InOf(q, i) : p.n < x.n
    BY <2>1 DEF LineInv
  <2>4. /\ Line(sent[i], p.n, InOf(q, i), ToSet(wire[i]), ToSet(buffer[i]), Whole(i))
        /\ Follows(sent[i], Len(sent[i]), Taken(i), p)
    <3>1. PICK J : J = InOf(q, i)
      OBVIOUS
    <3>2. Before({p}, J) /\ In(i) = {p} \cup J
      BY <2>3, <3>1 DEF Before
    <3>3. QED
      BY <1>1, <1>2, <2>1, <2>2, <3>1, <3>2, TakeAt
  <2>5. LineAt(i)'
    BY <1>2, <1>4, <2>1, <2>4, LineWeaken DEF LineAt
  <2>6. Known(sent[i], ToSet(got[i]))'
    BY <1>1, <1>3, <2>1, <2>4 DEF LineInv, Known, Follows
  <2>7. (Rising(wire[i]) /\ InRises(inbox, i) /\ flying[i] = {})'
    BY <2>1, <2>3 DEF LineInv
  <2>8. QED
    BY <1>5, <2>4, <2>5, <2>6, <2>7 DEF LineInv, Delivers
<1>6. ASSUME ~InOrder(i) PROVE HeapInv(i)' /\ Delivers(i, p)
  <2>1. HeapInv(i)
    BY <1>1, <1>6 DEF FlowOf
  <2>2. Heap(sent[i], ToSet(got[i]), In(i), ToSet(wire[i]), flying[i], ToSet(buffer[i]))
    BY <2>1 DEF HeapInv, HeapAt
  <2>3. InApart(q, i) /\ p \notin InOf(q, i)
    BY <2>1 DEF HeapInv
  <2>4. p \in In(i) /\ In(i) \ {p} = InOf(q, i)
    BY <2>3
  <2>5. Heap(sent[i], ToSet(got[i]) \cup {p}, In(i) \ {p}, ToSet(wire[i]), flying[i],
             ToSet(buffer[i]))
    BY <2>2, <2>4, HeapMove
  <2>6. HeapAt(i)'
    BY <1>2, <1>3, <2>4, <2>5 DEF HeapAt
  <2>7. p \notin ToSet(got[i])
    BY <2>2, <2>4 DEF Heap
  <2>8. Apart(got'[i])
    BY <1>1, <2>1, <2>7, ApartAppend DEF HeapInv
  <2>9. HeapInv(i)'
    BY <2>1, <2>3, <2>6, <2>8 DEF HeapInv, Apart
  <2>10. p.n \in 1..Len(sent[i]) /\ sent[i][p.n] = p
    BY <1>1, <2>2, <2>4 DEF Heap, Known
  <2>11. ASSUME NEW j \in 1..Len(got[i]), got[i][j].n = p.n PROVE FALSE
    <3>1. got[i][j] \in ToSet(got[i])
      BY <1>1, ToSetIs
    <3>2. sent[i][got[i][j].n] = got[i][j]
      BY <2>2, <3>1 DEF Heap, Known
    <3>3. QED
      BY <2>7, <2>10, <2>11, <3>1, <3>2
  <2>12. QED
    BY <1>6, <2>9, <2>10, <2>11 DEF Delivers
<1>7. QED
  BY <1>1, <1>2, <1>5, <1>6 DEF FlowOf

LEMMA TakeKeepsFlow ==
  ASSUME FlowPre, Take
  PROVE  /\ FlowInv'
         /\ UNCHANGED <<channel, sent>>
         /\ \E i \in Opened, p \in Payload :
              Delivers(i, p) /\ got' = [got EXCEPT ![i] = Append(@, p)]
<1>1. /\ TypeOK /\ inbox # <<>> /\ inbox' = Tail(inbox)
      /\ inbox \in Seq([chan : Opened, msg : Payload])
      /\ got \in [Chans -> Seq(Payload)] /\ Opened \subseteq Chans
      /\ UNCHANGED <<channel, sent, wire, flying, buffer>>
  BY TypesByOwner, OpenedIs DEF FlowPre, TypeOK, Take, ownerVars, taskVars
<1>2. PICK m : m = Head(inbox)
  OBVIOUS
<1>3. m \in [chan : Opened, msg : Payload]
  BY <1>1, <1>2, ToSetTail
<1>4. PICK i \in Opened, p \in Payload : i = m.chan /\ p = m.msg
  BY <1>3
<1>5. got' = [got EXCEPT ![i] = Append(@, p)]
  BY <1>2, <1>4 DEF Take
<1>6. /\ InOf(inbox, i) = {p} \cup InOf(Tail(inbox), i)
      /\ \A j : j # i => InOf(Tail(inbox), j) = InOf(inbox, j)
      /\ InRises(inbox, i) => \A x \in InOf(Tail(inbox), i) : p.n < x.n
      /\ InApart(inbox, i) => p \notin InOf(Tail(inbox), i)
      /\ \A j : InRises(inbox, j) => InRises(Tail(inbox), j)
      /\ \A j : InApart(inbox, j) => InApart(Tail(inbox), j)
  <2>1. PICK M : M = [chan : Opened, msg : Payload]
    OBVIOUS
  <2>2. inbox \in Seq(M) /\ inbox # <<>> /\ m = Head(inbox)
    BY <1>1, <1>2, <2>1
  <2>3. /\ InOf(inbox, m.chan) = {m.msg} \cup InOf(Tail(inbox), m.chan)
        /\ \A j : j # m.chan => InOf(Tail(inbox), j) = InOf(inbox, j)
        /\ InRises(inbox, m.chan) => \A x \in InOf(Tail(inbox), m.chan) : m.msg.n < x.n
        /\ InApart(inbox, m.chan) => m.msg \notin InOf(Tail(inbox), m.chan)
        /\ \A j : InRises(inbox, j) => InRises(Tail(inbox), j)
        /\ \A j : InApart(inbox, j) => InApart(Tail(inbox), j)
    <3>1. /\ InOf(inbox, m.chan) = {m.msg} \cup InOf(Tail(inbox), m.chan)
          /\ InRises(inbox, m.chan) => \A x \in InOf(Tail(inbox), m.chan) : m.msg.n < x.n
          /\ InApart(inbox, m.chan) => m.msg \notin InOf(Tail(inbox), m.chan)
      BY ONLY <2>2, InTail
    <3>2. \A j : j # m.chan => InOf(Tail(inbox), j) = InOf(inbox, j)
      BY ONLY <2>2, InTail
    <3>3. ASSUME NEW j, InRises(inbox, j) PROVE InRises(Tail(inbox), j)
      BY ONLY <2>2, <3>3, InTailKeeps
    <3>4. ASSUME NEW j, InApart(inbox, j) PROVE InApart(Tail(inbox), j)
      BY ONLY <2>2, <3>4, InTailKeeps
    <3>5. QED
      BY <3>1, <3>2, <3>3, <3>4
  <2>4. QED
    BY <1>4, <2>3
<1>7. got'[i] = Append(got[i], p) /\ \A j \in Chans \ {i} : got'[j] = got[j]
  BY <1>1, <1>5
<1>8. FlowOf(i)' /\ Delivers(i, p)
  <2>1. PICK q : q = Tail(inbox)
    OBVIOUS
  <2>2. /\ In(i) = {p} \cup InOf(q, i) /\ inbox' = q
        /\ InRises(inbox, i) => InRises(q, i) /\ \A x \in InOf(q, i) : p.n < x.n
        /\ InApart(inbox, i) => InApart(q, i) /\ p \notin InOf(q, i)
    BY <1>1, <1>6, <2>1 DEF In
  <2>3. QED
    BY <1>1, <1>7, <2>2, TakeOne
<1>9. FlowInv'
  <2>1. i \in Chans
    BY <1>1
  <2>2. QED
    BY <1>1, <1>6, <1>7, <1>8, <2>1, OneMoves
<1>10. QED
  BY <1>1, <1>5, <1>8, <1>9

LEMMA FlowStays == ASSUME TypeOK, TaskInv, FlowInv, Next PROVE FlowInv'
<1>0. FlowPre
  BY DEF FlowPre
<1>1. ASSUME NEW type \in UNION ToSet(Plan[side]), OpenChannel(type) PROVE FlowInv'
  BY <1>0, <1>1, OpenKeepsFlow
<1>2. ASSUME NEW id \in Ids, NEW size \in UNION ToSet(Sizes), SendPayload(id, size)
      PROVE  FlowInv'
  BY <1>0, <1>2, SendKeepsFlow
<1>3. ASSUME NEW i \in Opened, Transmit(i) PROVE FlowInv'
  BY <1>0, <1>3, TransmitKeepsFlow
<1>4. ASSUME NEW i \in Opened, Help(i) PROVE FlowInv'
  BY <1>0, <1>4, HelpKeepsFlow
<1>5. ASSUME NEW i \in Opened, OpenStream(i) \/ Stop(i) \/ Finish(i) PROVE FlowInv'
  BY <1>0, <1>5, StreamKeepsFlow
<1>6. ASSUME NEW i \in Opened, ReadStream(i) PROVE FlowInv'
  BY <1>0, <1>6, ReadKeepsFlow
<1>7. ASSUME NEW i \in Opened, LoseDatagram(i) PROVE FlowInv'
  BY <1>0, <1>7, DatagramKeepsFlow
<1>8. CASE Take
  BY <1>0, <1>8, TakeKeepsFlow
<1>9. CASE PeerCloses
  BY <1>0, <1>9, PeerCloseKeepsFlow
<1>10. CASE LinkLost
  BY <1>0, <1>10, LostKeepsFlow
<1>11. CASE Join \/ Fails
  <2>1. DropRequests /\ UNCHANGED <<channel, sent, got, wire, flying, inbox>>
    BY <1>11 DEF Join, Fails, ownerVars, peerVars
  <2>2. QED
    BY <1>0, <2>1, DropKeepsFlow
<1>12. ASSUME \/ \E id \in Ids : CloseChannel(id)
              \/ Disconnect \/ Drop \/ Start \/ Spawn \/ StopSpawning \/ Connects
       PROVE  FlowInv'
  <2>1. UNCHANGED <<channel, sent, got, wire, flying, buffer, inbox>>
    BY <1>12 DEF CloseChannel, Disconnect, Drop, Start, Spawn, StopSpawning, Connects,
                 ownerVars, taskVars, peerVars
  <2>2. QED
    BY <1>0, <2>1, FlowUnmoved
<1>13. QED
  BY <1>1, <1>2, <1>3, <1>4, <1>5, <1>6, <1>7, <1>8, <1>9, <1>10, <1>11, <1>12
     DEF Next, Owner, Tasks, Spawner, Task, Peer

LEMMA InitFlow == Init => FlowInv
<1> SUFFICES ASSUME Init, NEW i \in Chans PROVE FlowOf(i)
  BY DEF FlowInv
<1>1. /\ channel = <<>> /\ sent[i] = <<>> /\ got[i] = <<>> /\ wire[i] = <<>>
      /\ buffer[i] = <<>> /\ flying[i] = {} /\ inbox = <<>>
  BY DEF Init
<1>2. ~InOrder(i)
  BY <1>1, ChansAreNumbers DEF InOrder, Opened
<1>3. In(i) = {} /\ InApart(inbox, i)
  BY <1>1, InEmpty DEF In
<1>4. ToSet(got[i]) = {} /\ ToSet(wire[i]) = {} /\ ToSet(buffer[i]) = {}
  BY <1>1, ToSetEmpty
<1>5. HeapAt(i)
  BY <1>1, <1>3, <1>4, HeapStart DEF HeapAt
<1>6. HeapInv(i)
  BY <1>1, <1>3, <1>5 DEF HeapInv, Apart
<1>7. Numbered(i) /\ Rising(buffer[i])
  BY <1>1 DEF Numbered, Rising
<1>8. QED
  BY <1>1, <1>2, <1>6, <1>7 DEF FlowOf

LEMMA FlowUnchanged == FlowInv /\ UNCHANGED vars => FlowInv'
<1> SUFFICES ASSUME FlowInv, UNCHANGED vars, NEW i \in Chans PROVE FlowOf(i)'
  BY DEF FlowInv
<1>1. FlowOf(i) /\ Opened' = Opened /\ (Whole(i)' => Whole(i))
  BY DEF FlowInv, Opened, Whole, vars, peerVars, linkVars, taskVars
<1>2. QED
  BY <1>1, FlowFrame DEF vars, ownerVars, taskVars, peerVars, linkVars

LEMMA FlowInductively == Spec => []QInv
<1>1. Init => QInv
  BY InitFlow, InitCloses DEF QInv, CloseInv
<1>2. QInv /\ [Next]_vars => QInv'
  <2>1. SUFFICES ASSUME QInv, [Next]_vars PROVE TypeOK' /\ TaskInv' /\ FlowInv'
    BY DEF QInv
  <2>2. TypeOK'
    BY <2>1, TypesStay DEF QInv
  <2>3. CASE Next
    BY <2>1, <2>2, <2>3, TasksStay, FlowStays DEF QInv
  <2>4. CASE UNCHANGED vars
    <3>1. TaskInv'
      BY <2>1, <2>4 DEF QInv, TaskInv, Opened, vars, taskVars
    <3>2. QED
      BY <2>1, <2>2, <2>4, <3>1, FlowUnchanged DEF QInv
  <2>5. QED
    BY <2>1, <2>3, <2>4
<1>3. QED
  BY <1>1, <1>2, PTL DEF Spec

----------------------------------------------------------------------------
(* The step of the promise that each step of the code makes.               *)
Kind == [i \in Chans |-> IF i \in Opened THEN Type(i) ELSE "None"]

LEMMA KindStays == UNCHANGED channel => Kind' = Kind
  BY DEF Kind, Opened, Type

LEMMA OpenPromises ==
  ASSUME QInv, NEW type \in UNION ToSet(Plan[side]), OpenChannel(type)
  PROVE  \E i \in Chans : Promise!Open(i)
<1>0. OwnerTypes /\ TypeOK
  BY TypesByOwner DEF QInv
<1>1. /\ channel' = Append(channel, [id |-> Min(available), type |-> type])
      /\ UNCHANGED <<sent, got>> /\ Len(channel) < Len(Plan[side]) /\ side \in Sides
  BY <1>0 DEF OpenChannel, peerVars, OwnerTypes
<1>2. /\ Len(channel') = Len(channel) + 1 /\ Len(channel) \in Nat
      /\ channel'[Len(channel) + 1] = [id |-> Min(available), type |-> type]
      /\ \A k \in 1..Len(channel) : channel'[k] = channel[k]
  <2>1. available \subseteq Ids /\ Ids \subseteq Nat /\ available # {}
    BY <1>0, ChannelsAssumption DEF OwnerTypes, OpenChannel
  <2>2. Min(available) \in Ids
    BY <2>1, LeastId
  <2>3. [id |-> Min(available), type |-> type] \in [id : Ids, type : UNION ToSet(Plan[side])]
    BY <2>2
  <2>4. QED
    BY <1>0, <1>1, <2>3, AppendProperties, OpenedIs DEF OwnerTypes
<1>3. PICK m : m = Len(channel) + 1
  OBVIOUS
<1>4. type \in Types /\ m \in Chans
  BY <1>1, <1>2, <1>3, Planned
<1>5. Opened' = Opened \cup {m} /\ m \notin Opened /\ channel'[m].type = type
  BY <1>2, <1>3 DEF Opened
<1>6. \A i \in Opened : channel'[i] = channel[i]
  BY <1>2 DEF Opened
<1>7. Kind[m] = "None"
  BY <1>4, <1>5 DEF Kind
<1>8. Kind' = [Kind EXCEPT ![m] = type]
  BY <1>4, <1>5, <1>6 DEF Kind, Type
<1>9. Promise!Open(m)
  BY <1>1, <1>4, <1>7, <1>8 DEF Promise!Open, Kind, Types
<1>10. QED
  BY <1>4, <1>9

LEMMA SendPromises ==
  ASSUME QInv, NEW id \in Ids, NEW size \in UNION ToSet(Sizes), SendPayload(id, size)
  PROVE  \E i \in Chans : Promise!Send(i)
<1>1. OwnerTypes /\ slots[id] # 0
  BY TypesByOwner DEF QInv, SendPayload, ClientSends, EndpointSends
<1>2. Len(channel) \in Nat /\ Opened \subseteq Chans /\ slots[id] \in 0..Len(channel)
  BY <1>1, OpenedIs DEF OwnerTypes
<1>3. PICK i \in Opened : i = slots[id]
  BY <1>1, <1>2 DEF Opened
<1>4. /\ sent' = [sent EXCEPT ![i] = Append(@, [n |-> Len(@) + 1, size |-> size])]
      /\ UNCHANGED <<channel, got>>
  BY <1>3 DEF SendPayload, peerVars
<1>5. size \in {"fits", "big", "longest", "longer"}
  BY SizesAre
<1>6. Kind[i] # "None" /\ Kind' = Kind /\ i \in Chans
  BY <1>1, <1>2, <1>4, KindStays, OpenedIs DEF Kind, Types
<1>7. Promise!Send(i)
  BY <1>4, <1>5, <1>6 DEF Promise!Send, Kind
<1>8. QED
  BY <1>6, <1>7

LEMMA TakePromises ==
  ASSUME QInv, Take
  PROVE  \E i \in Chans : Promise!DeliverInOrder(i) \/ Promise!DeliverAny(i)
<1>1. OwnerTypes /\ FlowPre
  BY TypesByOwner DEF QInv, FlowPre, Next, Peer
<1>2. PICK i \in Opened, p \in Payload :
        /\ Delivers(i, p) /\ got' = [got EXCEPT ![i] = Append(@, p)]
        /\ UNCHANGED <<channel, sent>>
  BY <1>1, TakeKeepsFlow
<1>3. /\ i \in Chans /\ Type(i) \in Types /\ Kind[i] = Type(i) /\ Kind' = Kind
      /\ got \in [Chans -> Seq(Payload)]
  BY <1>1, <1>2, OpenedIs, KindStays DEF Kind, QInv, TypeOK
<1>4. CASE InOrder(i)
  <2>1. /\ p.n \in (Taken(i) + 1)..Len(sent[i]) /\ sent[i][p.n] = p /\ Encodes(p)
        /\ \A j \in (Taken(i) + 1)..(p.n - 1) : ~Encodes(sent[i][j])
    BY <1>2, <1>4 DEF Delivers, Follows
  <2>2. \A x : Promise!Encodable(x) <=> Encodes(x)
    BY DEF Promise!Encodable, Encodes
  <2>3. Kind[i] = "OrderedReliable"
    BY <1>3, <1>4 DEF InOrder
  <2>4. got' = [got EXCEPT ![i] = Append(@, sent[i][p.n])]
    BY <1>2, <2>1
  <2>5. Promise!DeliverInOrder(i)
    BY <1>2, <1>3, <2>1, <2>2, <2>3, <2>4 DEF Promise!DeliverInOrder, Kind, Taken
  <2>6. QED
    BY <1>3, <2>5
<1>5. CASE ~InOrder(i)
  <2>1. /\ p.n \in 1..Len(sent[i]) /\ sent[i][p.n] = p
        /\ \A j \in 1..Len(got[i]) : got[i][j].n # p.n
    BY <1>2, <1>5 DEF Delivers
  <2>2. Kind[i] \in {"UnorderedReliable", "Unreliable"}
    BY <1>3, <1>5 DEF InOrder, Types
  <2>3. got' = [got EXCEPT ![i] = Append(@, sent[i][p.n])]
    BY <1>2, <2>1
  <2>4. Promise!DeliverAny(i)
    BY <1>2, <1>3, <2>1, <2>2, <2>3 DEF Promise!DeliverAny, Kind
  <2>5. QED
    BY <1>3, <2>4
<1>6. QED
  BY <1>4, <1>5

LEMMA PromiseStutters ==
  ASSUME UNCHANGED <<channel, sent, got>> PROVE UNCHANGED Promise!vars
<1>1. Kind' = Kind
  BY KindStays
<1>2. QED
  BY <1>1 DEF Promise!vars, Kind

LEMMA StepPromises == QInv /\ [Next]_vars => [Promise!Next]_(Promise!vars)
<1> SUFFICES ASSUME QInv, [Next]_vars PROVE [Promise!Next]_(Promise!vars)
  OBVIOUS
<1>1. ASSUME NEW type \in UNION ToSet(Plan[side]), OpenChannel(type) PROVE Promise!Next
  BY <1>1, OpenPromises DEF Promise!Next
<1>2. ASSUME NEW id \in Ids, NEW size \in UNION ToSet(Sizes), SendPayload(id, size)
      PROVE  Promise!Next
  BY <1>2, SendPromises DEF Promise!Next
<1>3. CASE Take
  BY <1>3, TakePromises DEF Promise!Next
<1>4. ASSUME \/ \E id \in Ids : CloseChannel(id)
             \/ Disconnect \/ Drop \/ Tasks \/ Connects \/ Fails \/ LinkLost \/ PeerCloses
             \/ \E i \in Opened : ReadStream(i) \/ LoseDatagram(i)
             \/ UNCHANGED vars
      PROVE  UNCHANGED Promise!vars
  <2>1. CASE Tasks
    BY <2>1, PromiseStutters
       DEF Tasks, Spawner, Start, Spawn, StopSpawning, Join, Task, OpenStream, Transmit, Stop,
           Finish, Help, ownerVars, peerVars
  <2>2. CASE ~Tasks
    BY <1>4, <2>2, PromiseStutters
       DEF CloseChannel, Disconnect, Drop, Connects, Fails, LinkLost, PeerCloses, ReadStream,
           LoseDatagram, vars, ownerVars, peerVars
  <2>3. QED
    BY <2>1, <2>2
<1>5. QED
  BY <1>1, <1>2, <1>3, <1>4 DEF Next, Owner, Peer

LEMMA InitPromises == Init => Promise!Init
<1> SUFFICES ASSUME Init PROVE Promise!Init
  OBVIOUS
<1>1. Opened \cap Chans = {}
  BY ChansAreNumbers DEF Init, Opened
<1>2. Kind = [i \in Chans |-> "None"]
  BY <1>1 DEF Kind
<1>3. QED
  BY <1>2 DEF Init, Promise!Init, Kind

(* Each channel keeps what its type promises: an ordered one delivers in   *)
(* order and leaves out nothing but what was too long to encode, and none  *)
(* delivers anything twice or anything that was not queued.                *)
THEOREM ChannelsKeepTheirPromise == Spec => KeepsPromise
<1>1. Init => Promise!Init
  BY InitPromises
<1>2. QInv /\ [Next]_vars => [Promise!Next]_(Promise!vars)
  BY StepPromises
<1>3. QED
  BY <1>1, <1>2, FlowInductively, PTL DEF Spec, KeepsPromise, Promise!Spec
=============================================================================
