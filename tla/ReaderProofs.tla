---------------------------- MODULE ReaderProofs ----------------------------
(* Proofs about the two parts that read logs they do not write: verify, over  *)
(* the files of a session edited by hand (ChainTamper, first part), and the   *)
(* refresh watcher, over the source logs (RefreshWatch, second part).  For    *)
(* any texts, lengths, numbers of edits, logs, writes and failures.           *)
EXTENDS RefreshWatch, ChainTamper, SequenceTheorems, WellFoundedInduction, TLAPS

-----------------------------------------------------------------------------
(* First part: ChainTamper.                                                   *)

(* A nonempty set of numbers has a least and, when bounded, a greatest one.    *)
LEMMA LeastNumber ==
    ASSUME NEW T \in SUBSET Nat, T # {}
    PROVE  \E x \in T : \A y \in T : x <= y
<1>. DEFINE R == OpToRel(<, Nat)
<1>1. IsWellFoundedOn(R, Nat)
  BY NatLessThanWellFounded
<1>2. \A x, y \in Nat : <<x, y>> \in R <=> x < y
  BY DEF OpToRel
<1>. HIDE DEF R
<1>3. PICK x \in T : \A y \in T : ~(<<y, x>> \in R)
  BY <1>1, WFMin
<1>4. ASSUME NEW y \in T PROVE x <= y
  <2>1. <<y, x>> \in R <=> y < x
    BY <1>2
  <2>2. <<y, x>> \notin R
    BY <1>3
  <2>. QED BY <2>1, <2>2
<1>. QED BY <1>4

LEMMA GreatestNumber ==
    ASSUME NEW n \in Nat, NEW T \in SUBSET (1 .. n), T # {}
    PROVE  \E x \in T : \A y \in T : y <= x
<1>. DEFINE U == {n - x : x \in T}
<1>1. U \in SUBSET Nat /\ U # {}
  <2>1. \A x \in T : n - x \in Nat
    <3>1. \A x \in 1 .. n : n - x \in Nat
      OBVIOUS
    <3>. QED BY <3>1
  <2>. QED BY <2>1
<1>2. PICK u \in U : \A v \in U : u <= v
  BY <1>1, LeastNumber
<1>3. PICK x \in T : u = n - x
  BY <1>2
<1>4. ASSUME NEW y \in T PROVE y <= x
  <2>1. n - y \in U
    BY <1>4
  <2>2. u <= n - y
    BY <1>2, <2>1
  <2>3. n \in Nat /\ x \in 1 .. n /\ y \in 1 .. n
    OBVIOUS
  <2>. QED BY <1>3, <2>2, <2>3
<1>. QED BY <1>4

-----------------------------------------------------------------------------
(* What chainEvents writes.                                                    *)

(* The hashes of a log are threaded through it, each over the one before.      *)
Threads(f, texts, sid) ==
    f = [i \in 1 .. Len(texts) |->
           IF i = 1 THEN Genesis(sid) ELSE <<texts[i - 1], sid, f[i - 1]>>]

Thread(texts, sid) == CHOOSE f : Threads(f, texts, sid)

(* chainEvents, its recursive hashes named.                                   *)
LEMMA Events ==
    ASSUME NEW texts, NEW sid
    PROVE  ChainEvents(texts, sid) =
             [i \in 1 .. Len(texts) |->
                [text |-> texts[i], sid |-> sid, prev |-> Thread(texts, sid)[i]]]
BY DEF ChainEvents, Thread, Threads

Upto(f, texts, sid, n) ==
    \A i \in 1 .. n :
        f[i] = IF i = 1 THEN Genesis(sid) ELSE <<texts[i - 1], sid, f[i - 1]>>

(* Hashes can be threaded through any texts.                                   *)
LEMMA UptoAll ==
    ASSUME NEW texts, NEW sid, NEW n \in Nat
    PROVE  \E f : f = [i \in 1 .. n |-> f[i]] /\ Upto(f, texts, sid, n)
<1>. DEFINE Has(k) == \E f : f = [i \in 1 .. k |-> f[i]] /\ Upto(f, texts, sid, k)
            Bad == {k \in Nat : ~Has(k)}
<1>1. Has(0)
  <2>. DEFINE f == [i \in 1 .. 0 |-> i]
  <2>1. f = [i \in 1 .. 0 |-> f[i]] /\ Upto(f, texts, sid, 0)
    BY DEF Upto
  <2>. QED BY <2>1
<1>2. ASSUME NEW k \in Nat, Has(k) PROVE Has(k + 1)
  <2>1. PICK f : f = [i \in 1 .. k |-> f[i]] /\ Upto(f, texts, sid, k)
    BY <1>2
  <2>. DEFINE g == [i \in 1 .. k + 1 |->
                      IF i = 1 THEN Genesis(sid) ELSE <<texts[i - 1], sid, f[i - 1]>>]
  <2>2. ASSUME NEW i \in 1 .. k PROVE g[i] = f[i]
    <3>1. f[i] = IF i = 1 THEN Genesis(sid) ELSE <<texts[i - 1], sid, f[i - 1]>>
      BY <2>1 DEF Upto
    <3>2. i \in 1 .. k + 1
      OBVIOUS
    <3>. QED BY <3>1, <3>2
  <2>3. ASSUME NEW i \in 1 .. k + 1
        PROVE  g[i] = IF i = 1 THEN Genesis(sid) ELSE <<texts[i - 1], sid, g[i - 1]>>
    <3>1. i # 1 => g[i - 1] = f[i - 1]
      <4>1. i # 1 => i - 1 \in 1 .. k
        OBVIOUS
      <4>. QED BY <2>2, <4>1
    <3>. QED BY <3>1
  <2>4. g = [i \in 1 .. k + 1 |-> g[i]]
    OBVIOUS
  <2>. HIDE DEF g
  <2>. QED BY <2>3, <2>4 DEF Upto
<1>. HIDE DEF Has
<1>3. ASSUME Bad # {} PROVE FALSE
  <2>1. PICK k \in Bad : \A j \in Bad : k <= j
    BY <1>3, LeastNumber
  <2>2. k # 0
    BY <1>1
  <2>3. k - 1 \in Nat /\ k = (k - 1) + 1 /\ k - 1 \notin Bad
    BY <2>1, <2>2
  <2>. QED BY <1>2, <2>3
<1>4. Has(n)
  BY <1>3
<1>. QED BY <1>4 DEF Has

(* The hashes chainEvents writes are threaded through the texts.              *)
LEMMA Threaded ==
    ASSUME NEW texts, Len(texts) \in Nat, NEW sid
    PROVE  Upto(Thread(texts, sid), texts, sid, Len(texts))
<1>. DEFINE n == Len(texts)
<1>1. PICK f : f = [i \in 1 .. n |-> f[i]] /\ Upto(f, texts, sid, n)
  BY UptoAll
<1>2. Threads(f, texts, sid)
  <2>1. \A i \in 1 .. n :
          f[i] = IF i = 1 THEN Genesis(sid) ELSE <<texts[i - 1], sid, f[i - 1]>>
    BY <1>1 DEF Upto
  <2>2. [i \in 1 .. n |-> f[i]] =
          [i \in 1 .. n |-> IF i = 1 THEN Genesis(sid) ELSE <<texts[i - 1], sid, f[i - 1]>>]
    BY <2>1
  <2>. QED BY <1>1, <2>2 DEF Threads
<1>3. Threads(Thread(texts, sid), texts, sid)
  BY <1>2 DEF Thread
<1>. QED BY <1>3 DEF Threads, Upto

-----------------------------------------------------------------------------
(* Logs, and chains of hashes.                                                 *)

LineLike(l) ==
    /\ l = [text |-> l.text, sid |-> l.sid, prev |-> l.prev]
    /\ l.text \in Texts \cup {Chain!Blank, Chain!Malformed}
    /\ l.sid \in {Sid, OtherSid}
Listed(s) == \E S : s \in Seq(S) /\ \A l \in S : LineLike(l)

(* The log of a session, as chainEvents leaves it.                             *)
IsChain(r) ==
    /\ Listed(r)
    /\ \A i \in 1 .. Len(r) : /\ r[i].text \in Texts /\ r[i].sid = Sid
                              /\ r[i].prev = Chain!Expected(r, i, Sid)

(* A listed log is a sequence of lines.                                       *)
LEMMA ListedOne ==
    ASSUME NEW s, Listed(s)
    PROVE  /\ Len(s) \in Nat /\ DOMAIN s = 1 .. Len(s)
           /\ \A i \in 1 .. Len(s) : LineLike(s[i])
<1>1. PICK S : s \in Seq(S) /\ \A l \in S : LineLike(l)
  BY DEF Listed
<1>2. Len(s) \in Nat /\ DOMAIN s = 1 .. Len(s) /\ \A i \in 1 .. Len(s) : s[i] \in S
  BY <1>1
<1>. QED BY <1>1, <1>2

(* The hash a line must carry, spelt out.                                     *)
LEMMA ExpectedOf ==
    ASSUME NEW r, NEW i, NEW sid
    PROVE  /\ i = 1 => Chain!Expected(r, i, sid) = <<sid>>
           /\ i # 1 => Chain!Expected(r, i, sid) = <<r[i - 1].text, r[i - 1].sid, r[i - 1].prev>>
           /\ Chain!Expected(r, i, sid) # NoHash
BY DEF Chain!Expected, Genesis, LineHash, NoHash

(* chainEvents writes a chain.                                                *)
LEMMA EventsChain ==
    ASSUME NEW n \in Nat, NEW texts \in [1 .. n -> Texts]
    PROVE  IsChain(ChainEvents(texts, Sid)) /\ Len(ChainEvents(texts, Sid)) = n
<1>. DEFINE r == ChainEvents(texts, Sid)
            f == Thread(texts, Sid)
            line(i) == [text |-> texts[i], sid |-> Sid, prev |-> f[i]]
            S == {line(i) : i \in 1 .. n}
<1>1. texts \in Seq(Texts) /\ Len(texts) = n
  OBVIOUS
<1>2. r = [i \in 1 .. n |-> line(i)]
  BY <1>1, Events
<1>3. Upto(f, texts, Sid, n)
  BY <1>1, Threaded
<1>4. r \in Seq(S) /\ Len(r) = n
  BY <1>2
<1>5. \A l \in S : LineLike(l)
  <2>1. ASSUME NEW i \in 1 .. n PROVE LineLike(line(i))
    <3>1. texts[i] \in Texts
      OBVIOUS
    <3>. QED BY <3>1 DEF LineLike
  <2>. QED BY <2>1
<1>6. ASSUME NEW i \in 1 .. n
      PROVE  /\ r[i].text \in Texts /\ r[i].sid = Sid
             /\ r[i].prev = Chain!Expected(r, i, Sid)
  <2>1. r[i] = line(i) /\ texts[i] \in Texts
    BY <1>2
  <2>2. CASE i = 1
    <3>1. f[i] = <<Sid>>
      BY <1>3, <2>2 DEF Upto, Genesis
    <3>2. Chain!Expected(r, i, Sid) = <<Sid>>
      BY <2>2, ExpectedOf
    <3>. QED BY <2>1, <3>1, <3>2
  <2>3. CASE i # 1
    <3>1. i - 1 \in 1 .. n
      BY <2>3
    <3>2. r[i - 1] = line(i - 1)
      BY <1>2, <3>1
    <3>3. f[i] = <<texts[i - 1], Sid, f[i - 1]>>
      BY <1>3, <2>3 DEF Upto
    <3>. QED BY <2>1, <2>3, <3>2, <3>3, ExpectedOf
  <2>. QED BY <2>2, <2>3
<1>. HIDE DEF r, S, f
<1>. QED BY <1>4, <1>5, <1>6 DEF IsChain, Listed, r

(* No two places of a chain, its end included, go by one hash.                 *)
LEMMA HashesDiffer ==
    ASSUME NEW r, IsChain(r), NEW i \in 1 .. Len(r) + 1, NEW j \in 1 .. Len(r) + 1,
           Chain!Expected(r, i, Sid) = Chain!Expected(r, j, Sid)
    PROVE  i = j
<1>. DEFINE n == Len(r)
            H(k) == Chain!Expected(r, k, Sid)
            Bad == {k \in 1 .. n + 1 : \E m \in 1 .. n + 1 : k < m /\ H(k) = H(m)}
<1>1. n \in Nat
  BY ListedOne DEF IsChain
<1>2. ASSUME Bad # {} PROVE FALSE
  <2>0. Bad \in SUBSET Nat
    BY <1>1
  <2>. HIDE DEF Bad
  <2>1. PICK k \in Bad : \A b \in Bad : k <= b
    BY <1>2, <2>0, LeastNumber
  <2>. USE DEF Bad
  <2>2. PICK m \in 1 .. n + 1 : k < m /\ H(k) = H(m)
    BY <2>1
  <2>3. k \in 1 .. n + 1 /\ k \in Nat /\ m \in Nat
    BY <1>1, <2>1
  <2>4. H(m) = <<r[m - 1].text, r[m - 1].sid, r[m - 1].prev>>
    BY <2>2, <2>3, ExpectedOf
  <2>5. CASE k = 1
    <3>1. H(k) = <<Sid>>
      BY <2>5, ExpectedOf
    <3>2. Len(H(k)) = 1 /\ Len(H(m)) = 3
      BY <2>4, <3>1
    <3>. QED BY <2>2, <3>2
  <2>6. CASE k # 1
    <3>1. H(k) = <<r[k - 1].text, r[k - 1].sid, r[k - 1].prev>>
      BY <2>6, ExpectedOf
    <3>2. r[k - 1].prev = r[m - 1].prev
      BY <2>2, <2>4, <3>1
    <3>3. k - 1 \in 1 .. n /\ m - 1 \in 1 .. n /\ k - 1 < m - 1 /\ ~(k <= k - 1)
      BY <1>1, <2>2, <2>3, <2>6
    <3>4. H(k - 1) = H(m - 1)
      BY <3>2, <3>3 DEF IsChain
    <3>5. k - 1 \in Bad
      BY <1>1, <3>3, <3>4
    <3>. QED BY <2>1, <3>3, <3>5
  <2>. QED BY <2>5, <2>6
<1>3. i \in Nat /\ j \in Nat
  BY <1>1
<1>4. ~(i < j) /\ ~(j < i)
  BY <1>2
<1>. QED BY <1>3, <1>4

(* What the check of one line finds nothing in.                                *)
Clean(s, i) == Chain!LineFault(s, i, Sid) = "none"

LEMMA CleanLine ==
    ASSUME NEW s, NEW i, Clean(s, i)
    PROVE  s[i].prev = Chain!Expected(s, i, Sid) /\ s[i].prev # NoHash /\ s[i].sid = Sid
BY DEF Clean, Chain!LineFault

(* verify finds nothing in a chain.                                           *)
LEMMA ChainClean ==
    ASSUME NEW r, IsChain(r), NEW i \in 1 .. Len(r)
    PROVE  Clean(r, i)
<1>1. r[i].text \in Texts /\ r[i].sid = Sid /\ r[i].prev = Chain!Expected(r, i, Sid)
  BY DEF IsChain
<1>2. r[i].text \notin {Chain!Blank, Chain!Malformed} /\ r[i].prev # NoHash
  BY <1>1, TextsParse, ExpectedOf
<1>. QED BY <1>1, <1>2 DEF Clean, Chain!LineFault

(* A line is checked by itself and the one before it.                          *)
LEMMA SameFault ==
    ASSUME NEW s, NEW r, NEW i, s[i] = r[i], i # 1 => s[i - 1] = r[i - 1]
    PROVE  Clean(s, i) <=> Clean(r, i)
<1>1. Chain!Expected(s, i, Sid) = Chain!Expected(r, i, Sid)
  BY ExpectedOf
<1>. QED BY <1>1 DEF Clean, Chain!LineFault

(* What a line is, its hash tells.                                             *)
LEMMA HashTells ==
    ASSUME NEW s, Listed(s), NEW r, Listed(r), NEW i \in 1 .. Len(s), i \in 1 .. Len(r),
           Chain!Expected(s, i + 1, Sid) = Chain!Expected(r, i + 1, Sid)
    PROVE  s[i] = r[i]
<1>1. LineLike(s[i]) /\ LineLike(r[i]) /\ Len(s) \in Nat
  BY ListedOne
<1>2. i \in Nat /\ i + 1 # 1 /\ (i + 1) - 1 = i
  BY <1>1
<1>3. <<s[i].text, s[i].sid, s[i].prev>> = <<r[i].text, r[i].sid, r[i].prev>>
  BY <1>2, ExpectedOf
<1>. QED BY <1>1, <1>3 DEF LineLike

-----------------------------------------------------------------------------
(* What an edit leaves of a log.                                               *)

(* A log without its line i.                                                  *)
LEMMA Removed ==
    ASSUME NEW S, NEW r \in Seq(S), NEW i \in 1 .. Len(r)
    PROVE  /\ RemoveAt(r, i) \in Seq(S) /\ Len(RemoveAt(r, i)) = Len(r) - 1
           /\ \A j \in 1 .. Len(r) - 1 :
                RemoveAt(r, i)[j] = IF j < i THEN r[j] ELSE r[j + 1]
<1>. DEFINE n == Len(r)
            a == SubSeq(r, 1, i - 1)
            b == SubSeq(r, i + 1, n)
<1>1. n \in Nat /\ i \in Nat /\ i <= n /\ 1 <= i
  OBVIOUS
<1>2. a \in Seq(S) /\ Len(a) = i - 1 /\ \A j \in 1 .. i - 1 : a[j] = r[j]
  BY <1>1
<1>3. b \in Seq(S) /\ Len(b) = n - i /\ \A j \in 1 .. n - i : b[j] = r[i + j]
  BY <1>1
<1>4. RemoveAt(r, i) = a \o b
  BY DEF RemoveAt
<1>. HIDE DEF a, b
<1>5. /\ a \o b \in Seq(S) /\ Len(a \o b) = n - 1
      /\ \A j \in 1 .. n - 1 : (a \o b)[j] = IF j <= i - 1 THEN a[j] ELSE b[j - (i - 1)]
  <2>1. /\ a \o b \in Seq(S) /\ Len(a \o b) = Len(a) + Len(b)
        /\ \A j \in 1 .. Len(a) + Len(b) :
             (a \o b)[j] = IF j <= Len(a) THEN a[j] ELSE b[j - Len(a)]
    BY <1>2, <1>3, ConcatProperties
  <2>2. Len(a) + Len(b) = n - 1
    BY <1>1, <1>2, <1>3
  <2>. QED BY <1>2, <2>1, <2>2
<1>6. ASSUME NEW j \in 1 .. n - 1
      PROVE  (a \o b)[j] = IF j < i THEN r[j] ELSE r[j + 1]
  <2>1. CASE j < i
    <3>1. j \in 1 .. i - 1 /\ j <= i - 1
      BY <1>1, <2>1
    <3>. QED BY <1>2, <1>5, <2>1, <3>1
  <2>2. CASE ~(j < i)
    <3>1. /\ j - (i - 1) \in 1 .. n - i /\ ~(j <= i - 1)
          /\ i + (j - (i - 1)) = j + 1
      BY <1>1, <2>2
    <3>. QED BY <1>3, <1>5, <2>2, <3>1
  <2>. QED BY <2>1, <2>2
<1>. QED BY <1>4, <1>5, <1>6

(* The lines s are the lines r with e put in as line k.                        *)
Inserts(r, k, e, s) ==
    /\ Len(s) = Len(r) + 1
    /\ \A j \in 1 .. Len(r) + 1 :
         s[j] = IF j < k THEN r[j] ELSE IF j = k THEN e ELSE r[j - 1]

(* A log with a line put in.                                                  *)
LEMMA Inserted ==
    ASSUME NEW S, NEW r \in Seq(S), NEW k \in 1 .. Len(r), NEW e \in S
    PROVE  InsertAt(r, k, e) \in Seq(S) /\ Inserts(r, k, e, InsertAt(r, k, e))
<1>. DEFINE n == Len(r)
            a == SubSeq(r, 1, k - 1)
            b == SubSeq(r, k, n)
            c == a \o <<e>>
<1>1. n \in Nat /\ k \in Nat /\ k <= n /\ 1 <= k
  OBVIOUS
<1>2. a \in Seq(S) /\ Len(a) = k - 1 /\ \A j \in 1 .. k - 1 : a[j] = r[j]
  BY <1>1
<1>3. b \in Seq(S) /\ Len(b) = n - k + 1 /\ \A j \in 1 .. n - k + 1 : b[j] = r[k + j - 1]
  BY <1>1
<1>4. InsertAt(r, k, e) = c \o b
  BY DEF InsertAt
<1>. HIDE DEF a, b
<1>5. c \in Seq(S) /\ Len(c) = k /\ c[k] = e /\ \A j \in 1 .. k - 1 : c[j] = r[j]
  BY <1>1, <1>2
<1>. HIDE DEF c
<1>6. /\ c \o b \in Seq(S) /\ Len(c \o b) = n + 1
      /\ \A j \in 1 .. n + 1 : (c \o b)[j] = IF j <= k THEN c[j] ELSE b[j - k]
  <2>1. /\ c \o b \in Seq(S) /\ Len(c \o b) = Len(c) + Len(b)
        /\ \A j \in 1 .. Len(c) + Len(b) :
             (c \o b)[j] = IF j <= Len(c) THEN c[j] ELSE b[j - Len(c)]
    BY <1>3, <1>5, ConcatProperties
  <2>2. Len(c) + Len(b) = n + 1
    BY <1>1, <1>3, <1>5
  <2>. QED BY <1>5, <2>1, <2>2
<1>7. ASSUME NEW j \in 1 .. n + 1
      PROVE  (c \o b)[j] = IF j < k THEN r[j] ELSE IF j = k THEN e ELSE r[j - 1]
  <2>1. CASE j < k
    <3>1. j \in 1 .. k - 1 /\ j <= k
      BY <1>1, <2>1
    <3>. QED BY <1>5, <1>6, <2>1, <3>1
  <2>2. CASE j = k
    <3>1. j <= k /\ ~(j < k)
      BY <1>1, <2>2
    <3>. QED BY <1>5, <1>6, <2>2, <3>1
  <2>3. CASE ~(j < k) /\ j # k
    <3>1. j - k \in 1 .. n - k + 1 /\ ~(j <= k) /\ k + (j - k) - 1 = j - 1
      BY <1>1, <2>3
    <3>. QED BY <1>3, <1>6, <2>3, <3>1
  <2>. QED BY <2>1, <2>2, <2>3
<1>. QED BY <1>4, <1>6, <1>7 DEF Inserts

(* A log without its last line.                                               *)
LEMMA Torn ==
    ASSUME NEW S, NEW r \in Seq(S), r # <<>>
    PROVE  /\ Front(r) \in Seq(S) /\ Len(Front(r)) = Len(r) - 1
           /\ \A j \in 1 .. Len(r) - 1 : Front(r)[j] = r[j]
<1>1. Len(r) \in Nat /\ Len(r) >= 1
  BY EmptySeq
<1>2. \A j \in 1 .. Len(r) - 1 : r[j] \in S
  BY <1>1
<1>3. /\ SubSeq(r, 1, Len(r) - 1) \in Seq(S)
      /\ Len(SubSeq(r, 1, Len(r) - 1)) = IF 1 <= Len(r) - 1 THEN Len(r) - 1 - 1 + 1 ELSE 0
      /\ \A j \in 1 .. Len(r) - 1 - 1 + 1 : SubSeq(r, 1, Len(r) - 1)[j] = r[1 + j - 1]
  BY <1>1, <1>2, SubSeqProperties
<1>4. Len(Front(r)) = Len(r) - 1
  <2>1. \A n \in Nat : n >= 1 => (IF 1 <= n - 1 THEN n - 1 - 1 + 1 ELSE 0) = n - 1
    OBVIOUS
  <2>2. (IF 1 <= Len(r) - 1 THEN Len(r) - 1 - 1 + 1 ELSE 0) = Len(r) - 1
    BY <1>1, <2>1
  <2>. QED BY <1>3, <2>2 DEF Front
<1>5. \A j \in 1 .. Len(r) - 1 : Front(r)[j] = r[j]
  <2>1. \A j \in 1 .. Len(r) - 1 : j \in 1 .. Len(r) - 1 - 1 + 1 /\ 1 + j - 1 = j
    BY <1>1
  <2>. QED BY <1>3, <2>1 DEF Front
<1>. QED BY <1>3, <1>4, <1>5 DEF Front

(* The recomputed hashes of lines from i on.                                   *)
Rethreads(f, r, i) ==
    f = [k \in 1 .. Len(r) |->
            IF k < i THEN r[k].prev
            ELSE IF k = 1 THEN Genesis(Sid)
            ELSE <<r[k - 1].text, r[k - 1].sid, f[k - 1]>>]

Rethread(r, i) == CHOOSE f : Rethreads(f, r, i)

(* Rehashed, its recursive hashes named.                                      *)
LEMMA RehashedIs ==
    ASSUME NEW r, NEW i
    PROVE  Rehashed(r, i) = [k \in 1 .. Len(r) |-> [r[k] EXCEPT !.prev = Rethread(r, i)[k]]]
BY DEF Rehashed, Rethread, Rethreads

(* Of a chain nothing is left to recompute.                                    *)
LEMMA RehashedSame ==
    ASSUME NEW r, IsChain(r), NEW i \in 1 .. Len(r)
    PROVE  Rehashed(r, i) = r
<1>. DEFINE n == Len(r)
            f == [k \in 1 .. n |-> r[k].prev]
            next(g, k) == IF k < i THEN r[k].prev
                          ELSE IF k = 1 THEN Genesis(Sid)
                          ELSE <<r[k - 1].text, r[k - 1].sid, g[k - 1]>>
            g == Rethread(r, i)
<1>1. n \in Nat /\ DOMAIN r = 1 .. n /\ \A k \in 1 .. n : LineLike(r[k])
  BY ListedOne DEF IsChain
<1>2. ASSUME NEW k \in 1 .. n, NEW h, k # 1 => h[k - 1] = r[k - 1].prev
      PROVE  next(h, k) = r[k].prev
  <2>1. r[k].prev = Chain!Expected(r, k, Sid)
    BY DEF IsChain
  <2>. QED BY <1>2, <2>1, ExpectedOf DEF Genesis
<1>3. Rethreads(f, r, i)
  <2>1. ASSUME NEW k \in 1 .. n PROVE next(f, k) = r[k].prev
    <3>1. k # 1 => k - 1 \in 1 .. n
      BY <1>1
    <3>2. k # 1 => f[k - 1] = r[k - 1].prev
      BY <3>1
    <3>. HIDE DEF next, f
    <3>. QED BY <1>2, <3>2
  <2>2. f = [k \in 1 .. n |-> next(f, k)]
    BY <2>1
  <2>. QED BY <2>2 DEF Rethreads
<1>4. Rethreads(g, r, i)
  BY <1>3 DEF Rethread
<1>5. \A k \in 1 .. n : g[k] = next(g, k)
  BY <1>4 DEF Rethreads
<1>. DEFINE Bad == {k \in 1 .. n : g[k] # r[k].prev}
<1>. HIDE DEF next, g
<1>6. ASSUME Bad # {} PROVE FALSE
  <2>0. Bad \in SUBSET Nat
    BY <1>1
  <2>. HIDE DEF Bad
  <2>1. PICK k \in Bad : \A b \in Bad : k <= b
    BY <1>6, <2>0, LeastNumber
  <2>. USE DEF Bad
  <2>2. k \in 1 .. n /\ g[k] # r[k].prev
    BY <2>1
  <2>3. k # 1 => g[k - 1] = r[k - 1].prev
    <3>1. k # 1 => k - 1 \in 1 .. n /\ ~(k <= k - 1)
      BY <1>1, <2>2
    <3>. QED BY <2>1, <3>1
  <2>4. next(g, k) = r[k].prev
    BY <1>2, <2>2, <2>3
  <2>. QED BY <1>5, <2>2, <2>4
<1>7. Rehashed(r, i) = [k \in 1 .. n |-> [r[k] EXCEPT !.prev = g[k]]]
  BY RehashedIs DEF g
<1>8. \A k \in 1 .. n : [r[k] EXCEPT !.prev = g[k]] = r[k]
  <2>1. ASSUME NEW k \in 1 .. n PROVE [r[k] EXCEPT !.prev = g[k]] = r[k]
    <3>1. g[k] = r[k].prev /\ LineLike(r[k])
      BY <1>1, <1>6
    <3>. QED BY <3>1 DEF LineLike
  <2>. QED BY <2>1
<1>9. PICK S : r \in Seq(S)
  BY DEF IsChain, Listed
<1>10. r = [k \in 1 .. n |-> r[k]]
  BY <1>9
<1>. QED BY <1>7, <1>8, <1>10

-----------------------------------------------------------------------------
(* How the lines s of a log come from the lines r by one edit.                 *)
Reaches(r, s) ==
    \/ \E k \in 1 .. Len(r) :
          Len(s) = Len(r) /\ \A j \in 1 .. Len(r) : j # k => s[j] = r[j]
    \/ \E k \in 1 .. Len(r) :
          /\ Len(s) = Len(r) - 1
          /\ \A j \in 1 .. Len(r) - 1 : s[j] = IF j < k THEN r[j] ELSE r[j + 1]
    \/ \E i, k \in 1 .. Len(r) :
          /\ Len(s) = Len(r) + 1
          /\ \A j \in 1 .. Len(r) + 1 :
               s[j] = IF j < k THEN r[j] ELSE IF j = k THEN r[i] ELSE r[j - 1]
    \/ \A j \in 1 .. Len(s) : s[j].sid = OtherSid \/ s[j].prev = NoHash
    \/ s = r
    \/ Len(s) = Len(r) - 1 /\ \A j \in 1 .. Len(r) - 1 : s[j] = r[j]

(* A clean line that is as recorded vouches for the line before it.            *)
LEMMA LineBefore ==
    ASSUME NEW r, IsChain(r), NEW s, Listed(s), NEW i \in Nat, i >= 1,
           i + 1 <= Len(r), i + 1 <= Len(s), s[i + 1] = r[i + 1], Clean(s, i + 1)
    PROVE  s[i] = r[i]
<1>1. Listed(r) /\ Len(r) \in Nat /\ Len(s) \in Nat
  BY ListedOne DEF IsChain
<1>2. i \in 1 .. Len(s) /\ i \in 1 .. Len(r) /\ i + 1 \in 1 .. Len(r)
  BY <1>1
<1>3. r[i + 1].prev = Chain!Expected(r, i + 1, Sid)
  BY <1>2 DEF IsChain
<1>4. s[i + 1].prev = Chain!Expected(s, i + 1, Sid)
  BY CleanLine
<1>. QED BY <1>1, <1>2, <1>3, <1>4, HashTells

(* With a line out, the line after the gap does not link up.                   *)
LEMMA GapShows ==
    ASSUME NEW r, IsChain(r), NEW s, NEW k \in 1 .. Len(r), k <= Len(r) - 1,
           \A j \in 1 .. Len(r) - 1 : s[j] = IF j < k THEN r[j] ELSE r[j + 1]
    PROVE  ~Clean(s, k)
<1>. SUFFICES ASSUME Clean(s, k) PROVE FALSE
  OBVIOUS
<1>1. Len(r) \in Nat
  BY ListedOne DEF IsChain
<1>2. /\ k \in 1 .. Len(r) - 1 /\ ~(k < k) /\ k + 1 \in 1 .. Len(r) /\ k \in 1 .. Len(r) + 1
      /\ k + 1 \in 1 .. Len(r) + 1 /\ k # k + 1
  BY <1>1
<1>3. s[k] = r[k + 1]
  BY <1>2
<1>4. k # 1 => s[k - 1] = r[k - 1]
  <2>1. k # 1 => k - 1 \in 1 .. Len(r) - 1 /\ k - 1 < k
    BY <1>1
  <2>. QED BY <2>1
<1>5. Chain!Expected(s, k, Sid) = Chain!Expected(r, k, Sid)
  BY <1>4, ExpectedOf
<1>6. r[k + 1].prev = Chain!Expected(r, k + 1, Sid)
  BY <1>2 DEF IsChain
<1>7. s[k].prev = Chain!Expected(s, k, Sid)
  BY CleanLine
<1>. QED BY <1>2, <1>3, <1>5, <1>6, <1>7, HashesDiffer

(* A copied line does not link up, or the line behind it does not.             *)
LEMMA CopyShows ==
    ASSUME NEW r, IsChain(r), NEW s, NEW i \in 1 .. Len(r), NEW k \in 1 .. Len(r),
           \A j \in 1 .. Len(r) + 1 :
             s[j] = IF j < k THEN r[j] ELSE IF j = k THEN r[i] ELSE r[j - 1],
           Clean(s, k)
    PROVE  ~Clean(s, k + 1)
<1>. SUFFICES ASSUME Clean(s, k + 1) PROVE FALSE
  OBVIOUS
<1>1. Len(r) \in Nat
  BY ListedOne DEF IsChain
<1>2. /\ k \in 1 .. Len(r) + 1 /\ ~(k < k) /\ k + 1 \in 1 .. Len(r) + 1
      /\ ~(k + 1 < k) /\ k + 1 # k /\ (k + 1) - 1 = k /\ k + 1 # 1
      /\ i \in 1 .. Len(r) + 1 /\ i + 1 \in 1 .. Len(r) + 1 /\ i # i + 1
      /\ i + 1 # 1 /\ (i + 1) - 1 = i
  BY <1>1
<1>3. s[k] = r[i]
  BY <1>2
<1>4. s[k + 1] = r[k]
  BY <1>2
<1>5. k # 1 => s[k - 1] = r[k - 1]
  <2>1. k # 1 => k - 1 \in 1 .. Len(r) + 1 /\ k - 1 < k
    BY <1>1
  <2>. QED BY <2>1
<1>6. Chain!Expected(s, k, Sid) = Chain!Expected(r, k, Sid)
  BY <1>5, ExpectedOf
<1>7. Chain!Expected(s, k + 1, Sid) = Chain!Expected(r, i + 1, Sid)
  <2>1. Chain!Expected(s, k + 1, Sid) = <<s[k].text, s[k].sid, s[k].prev>>
    BY <1>2, ExpectedOf
  <2>2. Chain!Expected(r, i + 1, Sid) = <<r[i].text, r[i].sid, r[i].prev>>
    BY <1>2, ExpectedOf
  <2>. QED BY <1>3, <2>1, <2>2
<1>8. r[i].prev = Chain!Expected(r, i, Sid) /\ r[k].prev = Chain!Expected(r, k, Sid)
  BY DEF IsChain
<1>9. s[k].prev = Chain!Expected(s, k, Sid) /\ s[k + 1].prev = Chain!Expected(s, k + 1, Sid)
  BY CleanLine
<1>10. Chain!Expected(r, i, Sid) = Chain!Expected(r, k, Sid)
  BY <1>3, <1>6, <1>8, <1>9
<1>11. Chain!Expected(r, k, Sid) = Chain!Expected(r, i + 1, Sid)
  BY <1>4, <1>7, <1>8, <1>9
<1>. QED BY <1>2, <1>10, <1>11, HashesDiffer

(* Clean lines but the last of them are as recorded, after one edit.           *)
LEMMA PrefixKept ==
    ASSUME NEW r, IsChain(r), NEW s, Listed(s), Reaches(r, s),
           NEW m \in Nat, m <= Len(s), \A j \in 1 .. m : Clean(s, j),
           NEW i \in 1 .. m - 1
    PROVE  i \in 1 .. Len(r) /\ s[i] = r[i]
<1>1. Listed(r) /\ Len(r) \in Nat /\ Len(s) \in Nat
  BY ListedOne DEF IsChain
<1>2. /\ i \in Nat /\ i >= 1 /\ i + 1 <= Len(s) /\ i + 1 \in 1 .. m /\ i \in 1 .. m
      /\ 1 \in 1 .. m /\ 1 \in 1 .. Len(s) /\ i \in 1 .. Len(s) /\ i + 1 <= m
  BY <1>1
<1>3. ASSUME NEW k \in 1 .. Len(r), Len(s) = Len(r),
             \A j \in 1 .. Len(r) : j # k => s[j] = r[j]
      PROVE  i \in 1 .. Len(r) /\ s[i] = r[i]
  <2>1. i \in 1 .. Len(r) /\ i + 1 \in 1 .. Len(r) /\ i + 1 # i /\ i + 1 <= Len(r)
    BY <1>1, <1>2, <1>3
  <2>2. CASE i # k
    BY <1>3, <2>1, <2>2
  <2>3. CASE i = k
    <3>1. s[i + 1] = r[i + 1]
      BY <1>3, <2>1, <2>3
    <3>2. Clean(s, i + 1)
      BY <1>2
    <3>. QED BY <1>2, <2>1, <3>1, <3>2, LineBefore
  <2>. QED BY <2>2, <2>3
<1>4. ASSUME NEW k \in 1 .. Len(r), Len(s) = Len(r) - 1,
             \A j \in 1 .. Len(r) - 1 : s[j] = IF j < k THEN r[j] ELSE r[j + 1]
      PROVE  i \in 1 .. Len(r) /\ s[i] = r[i]
  <2>1. i \in 1 .. Len(r) /\ i \in 1 .. Len(r) - 1
    BY <1>1, <1>2, <1>4
  <2>2. CASE i < k
    BY <1>4, <2>1, <2>2
  <2>3. CASE ~(i < k)
    <3>1. k \in 1 .. m /\ k <= Len(r) - 1
      BY <1>1, <1>2, <1>4, <2>1, <2>3
    <3>2. Clean(s, k)
      BY <3>1
    <3>. QED BY <1>4, <3>1, <3>2, GapShows
  <2>. QED BY <2>2, <2>3
<1>5. ASSUME NEW e \in 1 .. Len(r), NEW k \in 1 .. Len(r), Len(s) = Len(r) + 1,
             \A j \in 1 .. Len(r) + 1 :
               s[j] = IF j < k THEN r[j] ELSE IF j = k THEN r[e] ELSE r[j - 1]
      PROVE  i \in 1 .. Len(r) /\ s[i] = r[i]
  <2>1. i \in 1 .. Len(r) /\ i \in 1 .. Len(r) + 1
    BY <1>1, <1>2, <1>5
  <2>2. CASE i < k
    BY <1>5, <2>1, <2>2
  <2>3. CASE ~(i < k)
    <3>1. k \in 1 .. m /\ k + 1 \in 1 .. m
      BY <1>1, <1>2, <2>3
    <3>2. Clean(s, k) /\ Clean(s, k + 1)
      BY <3>1
    <3>. QED BY <1>5, <3>2, CopyShows
  <2>. QED BY <2>2, <2>3
<1>6. ASSUME \A j \in 1 .. Len(s) : s[j].sid = OtherSid \/ s[j].prev = NoHash
      PROVE  FALSE
  <2>1. s[1].prev # NoHash /\ s[1].sid = Sid
    BY <1>2, CleanLine
  <2>. QED BY <1>2, <1>6, <2>1 DEF Sid, OtherSid
<1>7. ASSUME s = r PROVE i \in 1 .. Len(r) /\ s[i] = r[i]
  BY <1>2, <1>7
<1>8. ASSUME Len(s) = Len(r) - 1, \A j \in 1 .. Len(r) - 1 : s[j] = r[j]
      PROVE  i \in 1 .. Len(r) /\ s[i] = r[i]
  <2>1. i \in 1 .. Len(r) /\ i \in 1 .. Len(r) - 1
    BY <1>1, <1>2, <1>8
  <2>. QED BY <1>8, <2>1
<1>. QED BY <1>3, <1>4, <1>5, <1>6, <1>7, <1>8 DEF Reaches

(* A clean log of as many lines with the same head hash is the recorded one.   *)
LEMMA HeadTells ==
    ASSUME NEW r, IsChain(r), NEW s, Listed(s), Len(s) = Len(r),
           \A j \in 1 .. Len(s) : Clean(s, j),
           Chain!Expected(s, Len(s) + 1, Sid) = Chain!Expected(r, Len(r) + 1, Sid)
    PROVE  s = r
<1>. DEFINE n == Len(r)
            Bad == {k \in 1 .. n : s[k] # r[k]}
<1>1. Listed(r) /\ n \in Nat /\ Len(s) = n
  BY ListedOne DEF IsChain
<1>2. ASSUME Bad # {} PROVE FALSE
  <2>0. Bad \in SUBSET (1 .. n)
    OBVIOUS
  <2>. HIDE DEF Bad
  <2>1. PICK k \in Bad : \A b \in Bad : b <= k
    BY <1>1, <1>2, <2>0, GreatestNumber
  <2>. USE DEF Bad
  <2>2. k \in 1 .. n /\ s[k] # r[k] /\ k \in Nat
    BY <1>1, <2>1
  <2>3. Chain!Expected(s, k + 1, Sid) = Chain!Expected(r, k + 1, Sid)
    <3>1. CASE k = n
      BY <1>1, <3>1
    <3>2. CASE k # n
      <4>1. k + 1 \in 1 .. n /\ ~(k + 1 <= k)
        BY <1>1, <2>2, <3>2
      <4>2. s[k + 1] = r[k + 1]
        BY <2>1, <4>1
      <4>3. s[k + 1].prev = Chain!Expected(s, k + 1, Sid)
        BY <1>1, <4>1, CleanLine
      <4>4. r[k + 1].prev = Chain!Expected(r, k + 1, Sid)
        BY <4>1 DEF IsChain
      <4>. QED BY <4>2, <4>3, <4>4
    <3>. QED BY <3>1, <3>2
  <2>. QED BY <1>1, <2>2, <2>3, HashTells
<1>3. \A k \in 1 .. n : s[k] = r[k]
  BY <1>2
<1>4. PICK S : s \in Seq(S)
  BY DEF Listed
<1>5. PICK R : r \in Seq(R)
  BY DEF IsChain, Listed
<1>6. s = [k \in 1 .. n |-> s[k]] /\ r = [k \in 1 .. n |-> r[k]]
  BY <1>1, <1>4, <1>5
<1>. QED BY <1>3, <1>6

-----------------------------------------------------------------------------
(* The recorded session: a chain of at least one line, and its anchor unless   *)
(* it is live.                                                                 *)
AsRecorded ==
    LET r == original.log.lines
        status == original.anchor.status
    IN  /\ IsChain(r) /\ Len(r) >= 1
        /\ original.log = [lines |-> r, frag |-> "none"]
        /\ status \in {"running", "completed"}
        /\ original.anchor =
             [kind |-> "present", status |-> status, newer |-> FALSE,
              integrity |-> IF status = "running" THEN NoAnchor ELSE Chain!Anchor(r, Sid)]

AllOf(file) == \A k \in DOMAIN edits : edits[k] = file

(* The anchor as verify can find it, whatever was edited.                      *)
AnchorLike(a) ==
    /\ a = [kind |-> a.kind, status |-> a.status, newer |-> a.newer, integrity |-> a.integrity]
    /\ a.kind \in {"absent", "unreadable", "present"}

(* Whatever was edited, the log is one of lines; what was not edited is as     *)
(* recorded; and one edit of the log is one of the seven.                      *)
Edited ==
    /\ AsRecorded
    /\ log = [lines |-> log.lines, frag |-> log.frag]
    /\ Listed(log.lines)
    /\ log.frag \in Chain!Fragments
    /\ AnchorLike(anchor)
    /\ edits \in Seq({"events", "yaml"}) /\ Len(edits) <= MaxEdits
    /\ AllOf("events") => anchor = original.anchor
    /\ AllOf("yaml") => log = original.log
    /\ edits = <<"events">> => Reaches(original.log.lines, log.lines)

(* The invariant holds of the recorded session.                               *)
LEMMA InitEdited == TamperInit => Edited
<1>. SUFFICES ASSUME TamperInit PROVE Edited
  OBVIOUS
<1>0. PICK n \in 1 .. MaxLines :
        \E texts \in [1 .. n -> Texts], status \in {"running", "completed"} :
          original = Recorded(texts, status)
  BY DEF TamperInit
<1>1. PICK texts \in [1 .. n -> Texts], status \in {"running", "completed"} :
        original = Recorded(texts, status)
  BY <1>0
<1>. DEFINE r == ChainEvents(texts, Sid)
<1>2. n \in Nat /\ n >= 1
  BY MaxLinesPositive
<1>3. IsChain(r) /\ Len(r) = n
  BY <1>2, EventsChain
<1>. HIDE DEF r
<1>4. /\ original.log = [lines |-> r, frag |-> "none"]
      /\ original.anchor =
           [kind |-> "present", status |-> status, newer |-> FALSE,
            integrity |-> IF status = "running" THEN NoAnchor ELSE Chain!Anchor(r, Sid)]
  BY <1>1 DEF Recorded, r
<1>5. AsRecorded
  BY <1>2, <1>3, <1>4 DEF AsRecorded
<1>6. log = original.log /\ anchor = original.anchor /\ edits = <<>>
  BY DEF TamperInit
<1>7. Listed(log.lines)
  BY <1>3, <1>4, <1>6 DEF IsChain
<1>8. log.frag \in Chain!Fragments /\ log = [lines |-> log.lines, frag |-> log.frag]
  BY <1>4, <1>6 DEF Chain!Fragments
<1>9. edits \in Seq({"events", "yaml"}) /\ edits # <<"events">> /\ Len(edits) <= MaxEdits
  <2>1. Len(edits) = 0 /\ Len(<<"events">>) = 1
    BY <1>6
  <2>2. edits \in Seq({"events", "yaml"})
    BY <1>6
  <2>3. Len(edits) <= MaxEdits
    BY <2>1, MaxEditsNat
  <2>. QED BY <2>1, <2>2, <2>3
<1>10. AnchorLike(anchor)
  BY <1>4, <1>6 DEF AnchorLike
<1>. QED BY <1>5, <1>6, <1>7, <1>8, <1>9, <1>10 DEF Edited

(* The edits so far and one more.                                              *)
LEMMA OneMore ==
    ASSUME edits \in Seq({"events", "yaml"}), NEW file \in {"events", "yaml"},
           edits' = Append(edits, file)
    PROVE  /\ edits' \in Seq({"events", "yaml"})
           /\ \A f : AllOf(f)' => AllOf(f) /\ file = f
           /\ edits' = <<"events">> => edits = <<>> /\ file = "events"
<1>1. edits' \in Seq({"events", "yaml"})
  OBVIOUS
<1>2. /\ DOMAIN edits = 1 .. Len(edits) /\ DOMAIN edits' = 1 .. Len(edits) + 1
      /\ Len(edits) \in Nat /\ Len(edits') = Len(edits) + 1
      /\ edits'[Len(edits) + 1] = file /\ \A k \in 1 .. Len(edits) : edits'[k] = edits[k]
  OBVIOUS
<1>3. ASSUME NEW f, AllOf(f)' PROVE AllOf(f) /\ file = f
  <2>1. \A k \in 1 .. Len(edits) + 1 : edits'[k] = f
    BY <1>2, <1>3 DEF AllOf
  <2>2. Len(edits) + 1 \in 1 .. Len(edits) + 1
    BY <1>2
  <2>3. file = f
    BY <1>2, <2>1, <2>2
  <2>4. \A k \in 1 .. Len(edits) : k \in 1 .. Len(edits) + 1
    BY <1>2
  <2>5. \A k \in 1 .. Len(edits) : edits[k] = f
    BY <1>2, <2>1, <2>4
  <2>. QED BY <1>2, <2>3, <2>5 DEF AllOf
<1>4. ASSUME edits' = <<"events">> PROVE edits = <<>> /\ file = "events"
  <2>1. Len(edits') = 1 /\ edits'[1] = "events"
    BY <1>4
  <2>2. Len(edits) = 0
    BY <1>2, <2>1
  <2>3. edits = <<>>
    BY <2>2, EmptySeq
  <2>4. Len(edits) + 1 = 1
    BY <2>2
  <2>. QED BY <1>2, <2>1, <2>3, <2>4
<1>. QED BY <1>1, <1>3, <1>4

(* No edit is made beyond the bound.                                          *)
LEMMA WithinBound ==
    ASSUME edits \in Seq({"events", "yaml"}), NEW file, Edit(file)
    PROVE  Len(edits') <= MaxEdits
<1>1. Len(edits) \in Nat /\ Len(edits) < MaxEdits /\ edits' = Append(edits, file)
  BY DEF Edit
<1>2. Len(edits') = Len(edits) + 1
  BY <1>1, AppendProperties
<1>. QED BY <1>1, <1>2, MaxEditsNat

(* An edit of the log keeps the invariant.                                    *)
LEMMA EventsEdited ==
    ASSUME Edited, Edit("events"), anchor' = anchor,
           log' = [lines |-> log'.lines, frag |-> log'.frag], Listed(log'.lines),
           log'.frag \in Chain!Fragments,
           IsChain(log.lines) => Reaches(log.lines, log'.lines)
    PROVE  Edited'
<1>1. edits' = Append(edits, "events") /\ original' = original
  BY DEF Edit
<1>2. edits \in Seq({"events", "yaml"})
  BY DEF Edited
<1>3. /\ edits' \in Seq({"events", "yaml"})
      /\ \A f : AllOf(f)' => AllOf(f) /\ "events" = f
      /\ edits' = <<"events">> => edits = <<>>
  BY <1>1, <1>2, OneMore
<1>4. AsRecorded'
  BY <1>1 DEF Edited, AsRecorded
<1>5. AllOf("events")' => anchor' = original'.anchor
  BY <1>1, <1>3 DEF Edited
<1>6. ~AllOf("yaml")'
  BY <1>3
<1>7. ASSUME edits' = <<"events">> PROVE Reaches(original'.log.lines, log'.lines)
  <2>1. AllOf("yaml")
    BY <1>3, <1>7 DEF AllOf
  <2>2. log = original.log
    BY <2>1 DEF Edited
  <2>. QED BY <1>1, <2>2 DEF Edited, AsRecorded
<1>8. Len(edits') <= MaxEdits
  BY WithinBound DEF Edited
<1>. QED BY <1>3, <1>4, <1>5, <1>6, <1>7, <1>8 DEF Edited

(* An edit of session.yaml keeps the invariant.                               *)
LEMMA YamlEdited ==
    ASSUME Edited, Edit("yaml"), log' = log, AnchorLike(anchor')
    PROVE  Edited'
<1>1. edits' = Append(edits, "yaml") /\ original' = original
  BY DEF Edit
<1>2. edits \in Seq({"events", "yaml"})
  BY DEF Edited
<1>3. /\ edits' \in Seq({"events", "yaml"})
      /\ \A f : AllOf(f)' => AllOf(f) /\ "yaml" = f
      /\ edits' # <<"events">>
  BY <1>1, <1>2, OneMore
<1>4. AsRecorded'
  BY <1>1 DEF Edited, AsRecorded
<1>5. ~AllOf("events")'
  BY <1>3
<1>6. AllOf("yaml")' => log' = original'.log
  BY <1>1, <1>3 DEF Edited
<1>7. Len(edits') <= MaxEdits
  BY WithinBound DEF Edited
<1>. QED BY <1>3, <1>4, <1>5, <1>6, <1>7 DEF Edited

-----------------------------------------------------------------------------
(* One lemma for each edit of the log.                                         *)

(* A log with its lines replaced.                                             *)
LEMMA NoOverride ==
    ASSUME NEW lines, log = [lines |-> log.lines, frag |-> log.frag],
           log' = [log EXCEPT !.lines = lines]
    PROVE  /\ log' = [lines |-> log'.lines, frag |-> log'.frag]
           /\ log'.lines = lines /\ log'.frag = log.frag
OBVIOUS

(* An edit of the lines keeps the invariant.                                  *)
LEMMA Lines ==
    ASSUME Edited, NEW lines, Edit("events"), SetLines(lines), Listed(lines),
           IsChain(log.lines) => Reaches(log.lines, lines)
    PROVE  Edited'
<1>1. log = [lines |-> log.lines, frag |-> log.frag] /\ log.frag \in Chain!Fragments
  BY DEF Edited
<1>2. log' = [log EXCEPT !.lines = lines] /\ anchor' = anchor
  BY DEF SetLines
<1>3. /\ log' = [lines |-> log'.lines, frag |-> log'.frag]
      /\ log'.lines = lines /\ log'.frag = log.frag
  BY <1>1, <1>2, NoOverride
<1>. QED BY <1>1, <1>2, <1>3, EventsEdited

(* A line with one of its three parts changed is a line.                       *)
LEMMA LineSet ==
    ASSUME NEW l, LineLike(l), NEW x
    PROVE  /\ x \in Texts \cup {Chain!Blank, Chain!Malformed} =>
                LineLike([l EXCEPT !.text = x])
           /\ x \in {Sid, OtherSid} => LineLike([l EXCEPT !.sid = x])
           /\ LineLike([l EXCEPT !.prev = x]) /\ [l EXCEPT !.prev = x].prev = x
<1>1. /\ l = [text |-> l.text, sid |-> l.sid, prev |-> l.prev]
      /\ l.text \in Texts \cup {Chain!Blank, Chain!Malformed} /\ l.sid \in {Sid, OtherSid}
  BY DEF LineLike
<1>2. [l EXCEPT !.text = x] = [text |-> x, sid |-> l.sid, prev |-> l.prev]
  BY <1>1
<1>3. [l EXCEPT !.sid = x] = [text |-> l.text, sid |-> x, prev |-> l.prev]
  BY <1>1
<1>4. [l EXCEPT !.prev = x] = [text |-> l.text, sid |-> l.sid, prev |-> x]
  BY <1>1
<1>5. ASSUME NEW a \in Texts \cup {Chain!Blank, Chain!Malformed}, NEW b \in {Sid, OtherSid}, NEW c
      PROVE  LineLike([text |-> a, sid |-> b, prev |-> c])
  BY DEF LineLike
<1>. QED BY <1>1, <1>2, <1>3, <1>4, <1>5

(* A log with one line replaced.                                              *)
LEMMA OneLineSet ==
    ASSUME NEW r, Listed(r), NEW i \in DOMAIN r, NEW l, LineLike(l)
    PROVE  Listed([r EXCEPT ![i] = l]) /\ Reaches(r, [r EXCEPT ![i] = l])
<1>. DEFINE s == [r EXCEPT ![i] = l]
<1>1. PICK S : r \in Seq(S) /\ \A e \in S : LineLike(e)
  BY DEF Listed
<1>2. s \in Seq(S \cup {l}) /\ \A e \in S \cup {l} : LineLike(e)
  <2>1. r \in Seq(S \cup {l}) /\ i \in 1 .. Len(r)
    BY <1>1
  <2>2. s \in Seq(S \cup {l})
    BY <2>1, ExceptSeq
  <2>. QED BY <1>1, <2>2
<1>3. Len(s) = Len(r) /\ i \in 1 .. Len(r) /\ \A j \in 1 .. Len(r) : j # i => s[j] = r[j]
  BY <1>1
<1>. HIDE DEF s
<1>4. Listed(s)
  BY <1>2 DEF Listed
<1>5. Reaches(r, s)
  BY <1>3 DEF Reaches
<1>. QED BY <1>4, <1>5 DEF s

LEMMA ChangeLineEdits == Edited /\ ChangeLine => Edited'
<1>. SUFFICES ASSUME Edited, ChangeLine PROVE Edited'
  OBVIOUS
<1>. DEFINE r == log.lines
<1>1. Edit("events") /\ Listed(r)
  BY DEF ChangeLine, Edited
<1>2. ASSUME NEW i \in DOMAIN r, NEW l, LineLike(l), SetLines([r EXCEPT ![i] = l])
      PROVE  Edited'
  BY <1>1, <1>2, OneLineSet, Lines
<1>3. ASSUME NEW i \in DOMAIN r
      PROVE  LineLike(r[i])
  BY <1>1, ListedOne
<1>4. PICK i \in DOMAIN r :
        \/ \E t \in Texts \cup {Chain!Blank, Chain!Malformed} :
              SetLines([r EXCEPT ![i].text = t])
        \/ SetLines([r EXCEPT ![i].sid = OtherSid])
        \/ SetLines([r EXCEPT ![i].prev = NoHash])
  BY DEF ChangeLine
<1>5. ASSUME NEW t \in Texts \cup {Chain!Blank, Chain!Malformed}, SetLines([r EXCEPT ![i].text = t])
      PROVE  Edited'
  <2>1. LineLike([r[i] EXCEPT !.text = t])
    BY <1>3, LineSet
  <2>2. [r EXCEPT ![i].text = t] = [r EXCEPT ![i] = [r[i] EXCEPT !.text = t]]
    OBVIOUS
  <2>. QED BY <1>2, <1>5, <2>1, <2>2
<1>6. ASSUME SetLines([r EXCEPT ![i].sid = OtherSid]) PROVE Edited'
  <2>1. LineLike([r[i] EXCEPT !.sid = OtherSid])
    BY <1>3, LineSet
  <2>2. [r EXCEPT ![i].sid = OtherSid] = [r EXCEPT ![i] = [r[i] EXCEPT !.sid = OtherSid]]
    OBVIOUS
  <2>. QED BY <1>2, <1>6, <2>1, <2>2
<1>7. ASSUME SetLines([r EXCEPT ![i].prev = NoHash]) PROVE Edited'
  <2>1. LineLike([r[i] EXCEPT !.prev = NoHash])
    BY <1>3, LineSet
  <2>2. [r EXCEPT ![i].prev = NoHash] = [r EXCEPT ![i] = [r[i] EXCEPT !.prev = NoHash]]
    OBVIOUS
  <2>. QED BY <1>2, <1>7, <2>1, <2>2
<1>. QED BY <1>4, <1>5, <1>6, <1>7

LEMMA DropLineEdits == Edited /\ DropLine => Edited'
<1>. SUFFICES ASSUME Edited, DropLine PROVE Edited'
  OBVIOUS
<1>. DEFINE r == log.lines
<1>1. PICK i \in DOMAIN r : SetLines(RemoveAt(r, i))
  BY DEF DropLine
<1>2. Edit("events") /\ Listed(r)
  BY DEF DropLine, Edited
<1>3. PICK S : r \in Seq(S) /\ \A e \in S : LineLike(e)
  BY <1>2 DEF Listed
<1>4. i \in 1 .. Len(r)
  BY <1>3
<1>5. /\ RemoveAt(r, i) \in Seq(S) /\ Len(RemoveAt(r, i)) = Len(r) - 1
      /\ \A j \in 1 .. Len(r) - 1 :
           RemoveAt(r, i)[j] = IF j < i THEN r[j] ELSE r[j + 1]
  BY <1>3, <1>4, Removed
<1>6. Listed(RemoveAt(r, i))
  BY <1>3, <1>5 DEF Listed
<1>7. Reaches(r, RemoveAt(r, i))
  BY <1>4, <1>5 DEF Reaches
<1>. QED BY <1>1, <1>2, <1>6, <1>7, Lines

(* A log with one line copied.                                                *)
LEMMA OneLineCopied ==
    ASSUME NEW r, Listed(r), NEW i \in DOMAIN r, NEW k \in DOMAIN r
    PROVE  Listed(InsertAt(r, k, r[i])) /\ Reaches(r, InsertAt(r, k, r[i]))
<1>1. PICK S : r \in Seq(S) /\ \A l \in S : LineLike(l)
  BY DEF Listed
<1>2. PICK e \in S : e = r[i]
  BY <1>1
<1>3. i \in 1 .. Len(r) /\ k \in 1 .. Len(r)
  BY <1>1
<1>. DEFINE s == InsertAt(r, k, e)
<1>4. s \in Seq(S) /\ Inserts(r, k, e, s)
  BY <1>1, <1>3, Inserted
<1>. HIDE DEF s
<1>5. Listed(s)
  BY <1>1, <1>4 DEF Listed
<1>6. Reaches(r, s)
  BY <1>2, <1>3, <1>4 DEF Reaches, Inserts
<1>. QED BY <1>2, <1>5, <1>6 DEF s

LEMMA CopyLineEdits == Edited /\ CopyLine => Edited'
<1>. SUFFICES ASSUME Edited, CopyLine PROVE Edited'
  OBVIOUS
<1>1. PICK i \in DOMAIN log.lines, k \in DOMAIN log.lines :
        SetLines(InsertAt(log.lines, k, log.lines[i]))
  BY DEF CopyLine
<1>2. Edit("events") /\ Listed(log.lines)
  BY DEF CopyLine, Edited
<1>. QED BY <1>1, <1>2, OneLineCopied, Lines

LEMMA SwapSessionEdits == Edited /\ SwapSession => Edited'
<1>. SUFFICES ASSUME Edited, SwapSession PROVE Edited'
  OBVIOUS
<1>. DEFINE r == log.lines
            texts == [i \in DOMAIN r |-> r[i].text]
            f == Thread(texts, OtherSid)
            n == Len(r)
            line(i) == [text |-> texts[i], sid |-> OtherSid, prev |-> f[i]]
            s == ChainEvents(texts, OtherSid)
            S == {line(i) : i \in 1 .. n}
<1>1. Edit("events") /\ Listed(r) /\ SetLines(s)
  BY DEF SwapSession, Edited
<1>2. n \in Nat /\ DOMAIN r = 1 .. n
  BY <1>1, ListedOne
<1>3. Len(texts) = n
  BY <1>2
<1>4. s = [i \in 1 .. n |-> line(i)]
  BY <1>3, Events
<1>5. \A i \in 1 .. n : LineLike(line(i)) /\ line(i).sid = OtherSid
  <2>1. ASSUME NEW i \in 1 .. n PROVE LineLike(line(i)) /\ line(i).sid = OtherSid
    <3>1. LineLike(r[i]) /\ texts[i] = r[i].text
      BY <1>1, <1>2, ListedOne
    <3>. QED BY <3>1 DEF LineLike
  <2>. QED BY <2>1
<1>. HIDE DEF s, line
<1>6. s \in Seq(S) /\ Len(s) = n /\ \A l \in S : LineLike(l)
  BY <1>2, <1>4, <1>5
<1>7. \A j \in 1 .. Len(s) : s[j].sid = OtherSid
  BY <1>4, <1>5, <1>6
<1>. HIDE DEF S
<1>8. Listed(s)
  BY <1>6 DEF Listed
<1>9. Reaches(r, s)
  BY <1>7 DEF Reaches
<1>. QED BY <1>1, <1>8, <1>9, Lines

LEMMA StripChainEdits == Edited /\ StripChain => Edited'
<1>. SUFFICES ASSUME Edited, StripChain PROVE Edited'
  OBVIOUS
<1>. DEFINE r == log.lines
            n == Len(r)
            line(i) == [r[i] EXCEPT !.prev = NoHash]
            s == [i \in DOMAIN r |-> line(i)]
            S == {line(i) : i \in 1 .. n}
<1>1. Edit("events") /\ Listed(r) /\ SetLines(s)
  BY DEF StripChain, Edited
<1>2. n \in Nat /\ DOMAIN r = 1 .. n /\ \A i \in 1 .. n : LineLike(r[i])
  BY <1>1, ListedOne
<1>3. \A i \in 1 .. n : LineLike(line(i)) /\ line(i).prev = NoHash
  BY <1>2, LineSet
<1>. HIDE DEF line
<1>4. s \in Seq(S) /\ Len(s) = n
  BY <1>2
<1>5. \A l \in S : LineLike(l)
  BY <1>3
<1>6. \A j \in 1 .. Len(s) : s[j].prev = NoHash
  BY <1>2, <1>3, <1>4
<1>. HIDE DEF s, S
<1>7. Listed(s)
  BY <1>4, <1>5 DEF Listed
<1>8. Reaches(r, s)
  BY <1>6 DEF Reaches
<1>. QED BY <1>1, <1>7, <1>8, Lines

LEMMA RehashEdits == Edited /\ Rehash => Edited'
<1>. SUFFICES ASSUME Edited, Rehash PROVE Edited'
  OBVIOUS
<1>. DEFINE r == log.lines
            n == Len(r)
<1>1. PICK i \in DOMAIN r : SetLines(Rehashed(r, i))
  BY DEF Rehash
<1>2. Edit("events") /\ Listed(r)
  BY DEF Rehash, Edited
<1>3. n \in Nat /\ DOMAIN r = 1 .. n /\ \A k \in 1 .. n : LineLike(r[k])
  BY <1>2, ListedOne
<1>. DEFINE s == Rehashed(r, i)
            line(k) == [r[k] EXCEPT !.prev = Rethread(r, i)[k]]
            S == {line(k) : k \in 1 .. n}
<1>4. s = [k \in 1 .. n |-> line(k)]
  BY RehashedIs
<1>5. \A k \in 1 .. n : LineLike(line(k))
  BY <1>3, LineSet
<1>. HIDE DEF s, line
<1>6. s \in Seq(S)
  BY <1>3, <1>4
<1>7. Listed(s)
  BY <1>5, <1>6 DEF Listed
<1>8. IsChain(r) => Reaches(r, s)
  BY <1>3, RehashedSame DEF Reaches, s
<1>. QED BY <1>1, <1>2, <1>7, <1>8, Lines DEF s

LEMMA TearTailEdits == Edited /\ TearTail => Edited'
<1>. SUFFICES ASSUME Edited, TearTail PROVE Edited'
  OBVIOUS
<1>. DEFINE r == log.lines
            s == Front(r)
<1>1. PICK f \in {"plain", "chained"} : log' = [lines |-> s, frag |-> f]
  BY DEF TearTail
<1>2. Edit("events") /\ Listed(r) /\ r # <<>> /\ anchor' = anchor
  BY DEF TearTail, Edited
<1>3. PICK S : r \in Seq(S) /\ \A e \in S : LineLike(e)
  BY <1>2 DEF Listed
<1>4. s \in Seq(S) /\ Len(s) = Len(r) - 1 /\ \A j \in 1 .. Len(r) - 1 : s[j] = r[j]
  BY <1>2, <1>3, Torn
<1>. HIDE DEF s
<1>5. Listed(s) /\ Reaches(r, s)
  BY <1>3, <1>4 DEF Listed, Reaches
<1>6. /\ log' = [lines |-> log'.lines, frag |-> log'.frag] /\ log'.lines = s
      /\ log'.frag \in Chain!Fragments
  BY <1>1 DEF Chain!Fragments
<1>. QED BY <1>2, <1>5, <1>6, EventsEdited

LEMMA EditYamlEdits == Edited /\ EditYaml => Edited'
<1>. SUFFICES ASSUME Edited, EditYaml PROVE Edited'
  OBVIOUS
<1>1. Edit("yaml") /\ log' = log
  BY DEF EditYaml
<1>2. /\ anchor = [kind |-> anchor.kind, status |-> anchor.status,
                   newer |-> anchor.newer, integrity |-> anchor.integrity]
      /\ anchor.kind \in {"absent", "unreadable", "present"}
  BY DEF Edited, AnchorLike
<1>3. ASSUME NEW k \in {"absent", "unreadable", "present"}, NEW s, NEW n, NEW h,
             anchor' = [kind |-> k, status |-> s, newer |-> n, integrity |-> h]
      PROVE  AnchorLike(anchor')
  BY <1>3 DEF AnchorLike
<1>4. ASSUME NEW h, anchor' = [anchor EXCEPT !.integrity = h] PROVE AnchorLike(anchor')
  <2>1. anchor' = [kind |-> anchor.kind, status |-> anchor.status,
                   newer |-> anchor.newer, integrity |-> h]
    BY <1>2, <1>4
  <2>. QED BY <1>2, <1>3, <2>1
<1>5. ASSUME anchor' = [anchor EXCEPT !.kind = "absent", !.integrity = NoAnchor]
      PROVE  AnchorLike(anchor')
  <2>1. anchor' = [kind |-> "absent", status |-> anchor.status,
                   newer |-> anchor.newer, integrity |-> NoAnchor]
    BY <1>2, <1>5
  <2>. QED BY <1>3, <2>1
<1>6. ASSUME anchor' = [anchor EXCEPT !.kind = "unreadable"] PROVE AnchorLike(anchor')
  <2>1. anchor' = [kind |-> "unreadable", status |-> anchor.status,
                   newer |-> anchor.newer, integrity |-> anchor.integrity]
    BY <1>2, <1>6
  <2>. QED BY <1>3, <2>1
<1>7. ASSUME NEW s, anchor' = [anchor EXCEPT !.status = s] PROVE AnchorLike(anchor')
  <2>1. anchor' = [kind |-> anchor.kind, status |-> s,
                   newer |-> anchor.newer, integrity |-> anchor.integrity]
    BY <1>2, <1>7
  <2>. QED BY <1>2, <1>3, <2>1
<1>8. ASSUME anchor' = [anchor EXCEPT !.newer = TRUE] PROVE AnchorLike(anchor')
  <2>1. anchor' = [kind |-> anchor.kind, status |-> anchor.status,
                   newer |-> TRUE, integrity |-> anchor.integrity]
    BY <1>2, <1>8
  <2>. QED BY <1>2, <1>3, <2>1
<1>9. AnchorLike(anchor')
  BY <1>4, <1>5, <1>6, <1>7, <1>8 DEF EditYaml
<1>. QED BY <1>1, <1>9, YamlEdited

(* Every edit keeps the invariant.                                            *)
LEMMA NextEdited == Edited /\ [TamperNext]_tamperVars => Edited'
<1>. SUFFICES ASSUME Edited, [TamperNext]_tamperVars PROVE Edited'
  OBVIOUS
<1>1. CASE UNCHANGED tamperVars
  BY <1>1 DEF tamperVars, Edited, AsRecorded, AllOf
<1>. QED BY <1>1, ChangeLineEdits, DropLineEdits, CopyLineEdits, SwapSessionEdits,
          StripChainEdits, RehashEdits, TearTailEdits, EditYamlEdits DEF TamperNext

-----------------------------------------------------------------------------
(* What verify makes of the two files.                                         *)

Faults == Chain!Faulty(log.lines, Sid)
First == Chain!Min(Faults)

(* Faulty is empty when every line is clean.                                  *)
LEMMA NoFault ==
    ASSUME NEW s, Listed(s)
    PROVE  Chain!Faulty(s, Sid) = {} <=> \A j \in 1 .. Len(s) : Clean(s, j)
<1>1. DOMAIN s = 1 .. Len(s)
  BY ListedOne
<1>. QED BY <1>1 DEF Chain!Faulty, Clean

(* The line verify reports.                                                   *)
LEMMA FirstFault ==
    ASSUME Listed(log.lines), Faults # {}
    PROVE  /\ First \in 1 .. Len(log.lines) /\ ~Clean(log.lines, First)
           /\ \A j \in 1 .. First - 1 : Clean(log.lines, j)
<1>. DEFINE s == log.lines
<1>1. DOMAIN s = 1 .. Len(s) /\ Len(s) \in Nat
  BY ListedOne
<1>2. \A j : j \in Faults <=> j \in 1 .. Len(s) /\ ~Clean(s, j)
  BY <1>1 DEF Faults, Chain!Faulty, Clean
<1>3. Faults \in SUBSET Nat
  BY <1>1, <1>2
<1>4. \E x \in Faults : \A y \in Faults : x <= y
  BY <1>3, LeastNumber
<1>5. First \in Faults /\ \A y \in Faults : First <= y
  BY <1>4 DEF First, Chain!Min
<1>6. First \in 1 .. Len(s) /\ ~Clean(s, First)
  BY <1>2, <1>5
<1>7. ASSUME NEW j \in 1 .. First - 1 PROVE Clean(s, j)
  <2>1. j \in 1 .. Len(s) /\ ~(First <= j)
    BY <1>1, <1>6
  <2>. QED BY <1>2, <1>5, <2>1
<1>. QED BY <1>6, <1>7

(* The recorded log is chained and clean.                                      *)
LEMMA RecordedLog ==
    ASSUME AsRecorded
    PROVE  /\ Chain!Faulty(original.log.lines, Sid) = {}
           /\ Chain!Chained(original.log)
           /\ Len(original.log.lines) \in Nat /\ Len(original.log.lines) >= 1
           /\ original.log.frag = "none"
<1>. DEFINE r == original.log.lines
<1>1. IsChain(r) /\ Len(r) >= 1 /\ original.log.frag = "none" /\ Listed(r)
  <2>1. original.log = [lines |-> r, frag |-> "none"]
    BY DEF AsRecorded
  <2>. QED BY <2>1 DEF AsRecorded, IsChain
<1>2. DOMAIN r = 1 .. Len(r) /\ Len(r) \in Nat
  BY <1>1, ListedOne
<1>3. \A j \in 1 .. Len(r) : Clean(r, j)
  BY <1>1, ChainClean
<1>4. Chain!Faulty(r, Sid) = {}
  BY <1>1, <1>3, NoFault
<1>5. 1 \in 1 .. Len(r)
  BY <1>1, <1>2
<1>6. Chain!Carries(r[1])
  <2>1. r[1].text \in Texts /\ r[1].prev = Chain!Expected(r, 1, Sid)
    BY <1>1, <1>5 DEF IsChain
  <2>. QED BY <2>1, TextsParse, ExpectedOf DEF Chain!Carries
<1>7. Chain!Chained(original.log)
  BY <1>2, <1>5, <1>6 DEF Chain!Chained
<1>. QED BY <1>1, <1>2, <1>4, <1>7

(* The recorded anchor of a session at rest.                                   *)
LEMMA RecordedAnchor ==
    ASSUME AsRecorded, AtRest
    PROVE  /\ original.anchor.kind = "present" /\ original.anchor.status = "completed"
           /\ original.anchor.newer = FALSE
           /\ original.anchor.integrity = Chain!Anchor(original.log.lines, Sid)
           /\ original.anchor.integrity # NoAnchor
<1>. DEFINE r == original.log.lines
<1>1. /\ original.anchor.kind = "present" /\ original.anchor.status = "completed"
      /\ original.anchor.newer = FALSE
      /\ original.anchor.integrity = Chain!Anchor(r, Sid)
  <2>1. original.anchor.status # "running"
    BY DEF AtRest
  <2>2. original.anchor = [kind |-> "present", status |-> original.anchor.status,
                           newer |-> FALSE, integrity |-> Chain!Anchor(r, Sid)]
    BY <2>1 DEF AsRecorded
  <2>. QED BY <2>2 DEF AtRest
<1>2. Chain!Anchor(r, Sid).count = Len(r) /\ NoAnchor.count = 0
  BY DEF Chain!Anchor, NoAnchor
<1>3. Len(r) >= 1 /\ Len(r) \in Nat
  BY RecordedLog
<1>4. Len(r) # 0
  BY <1>3
<1>. QED BY <1>1, <1>2, <1>4

(* With its recorded anchor, a clean log is the recorded one.                 *)
LEMMA SameLog ==
    ASSUME Edited, AtRest, Faults = {}, log.frag = "none",
           Chain!Anchor(log.lines, Sid) = original.anchor.integrity
    PROVE  log = original.log
<1>. DEFINE s == log.lines
            r == original.log.lines
<1>1. Chain!Anchor(s, Sid) = Chain!Anchor(r, Sid)
  BY RecordedAnchor DEF Edited
<1>2. Len(s) = Len(r) /\ Chain!HeadHash(s, Sid) = Chain!HeadHash(r, Sid)
  BY <1>1 DEF Chain!Anchor
<1>3. Listed(s) /\ IsChain(r)
  BY DEF Edited, AsRecorded
<1>4. \A j \in 1 .. Len(s) : Clean(s, j)
  BY <1>3, NoFault DEF Faults
<1>5. s = r
  BY <1>2, <1>3, <1>4, HeadTells DEF Chain!HeadHash
<1>. QED BY <1>5 DEF Edited, AsRecorded

(* Edits of the log alone, of a session at rest.                               *)
LEMMA AtRestDetected ==
    ASSUME Edited, AtRest, EditedOnly("events")
    PROVE  verdict.status = IF log = original.log THEN "verified" ELSE "tampered"
<1>1. AllOf("events") /\ anchor = original.anchor
  BY DEF EditedOnly, AllOf, Edited
<1>2. /\ anchor.kind = "present" /\ anchor.status = "completed" /\ anchor.newer = FALSE
      /\ anchor.integrity = original.anchor.integrity /\ anchor.integrity # NoAnchor
  BY <1>1, RecordedAnchor DEF Edited
<1>3. anchor.status \notin Chain!LiveStatuses
  BY <1>2 DEF Chain!LiveStatuses
<1>4. verdict = Chain!JudgeChain(log, anchor, Sid)
  BY <1>2 DEF verdict, Chain!VerifyOnce, Chain!WithAnchorState
<1>5. ASSUME log = original.log PROVE verdict.status = "verified"
  <2>1. Chain!Faulty(log.lines, Sid) = {} /\ Chain!Chained(log) /\ log.frag = "none"
    BY <1>5, RecordedLog DEF Edited
  <2>2. anchor.integrity = Chain!Anchor(log.lines, Sid)
    BY <1>2, <1>5, RecordedAnchor DEF Edited
  <2>3. Chain!JudgeAnchor(log.lines, anchor, Sid).status = "verified"
    BY <1>2, <1>3, <2>2 DEF Chain!JudgeAnchor, Chain!Plain, Chain!Verdict
  <2>. QED BY <1>2, <1>4, <2>1, <2>3 DEF Chain!JudgeChain, Chain!JudgeChained
<1>6. ASSUME log # original.log PROVE verdict.status = "tampered"
  <2>1. CASE ~Chain!Chained(log)
    BY <1>2, <1>4, <2>1
       DEF Chain!JudgeChain, Chain!JudgeUnchained, Chain!Tampered, Chain!Verdict
  <2>2. CASE Chain!Chained(log) /\ Faults # {}
    BY <1>2, <1>4, <2>2 DEF Chain!JudgeChain, Chain!JudgeChained, Chain!Verdict, Faults
  <2>3. CASE Chain!Chained(log) /\ Faults = {} /\ log.frag # "none"
    BY <1>2, <1>3, <1>4, <2>3 DEF Chain!JudgeChain, Chain!JudgeChained, Chain!Verdict, Faults
  <2>4. CASE Chain!Chained(log) /\ Faults = {} /\ log.frag = "none"
    <3>1. anchor.integrity # Chain!Anchor(log.lines, Sid)
      BY <1>2, <1>6, <2>4, SameLog
    <3>2. Chain!JudgeAnchor(log.lines, anchor, Sid).status = "tampered"
      BY <1>2, <1>3, <3>1 DEF Chain!JudgeAnchor, Chain!Tampered, Chain!Verdict
    <3>. QED BY <1>2, <1>4, <2>4, <3>2 DEF Chain!JudgeChain, Chain!JudgeChained, Faults
  <2>. QED BY <2>1, <2>2, <2>3, <2>4
<1>. QED BY <1>5, <1>6

(* One edit of a live session's log.                                           *)
LEMMA LiveDetected ==
    ASSUME Edited, edits = <<"events">>, verdict.status = "in_progress",
           NEW i \in DOMAIN log.lines, i < Len(log.lines)
    PROVE  log.lines[i] = original.log.lines[i]
<1>. DEFINE s == log.lines
            r == original.log.lines
<1>1. Listed(s) /\ IsChain(r) /\ Reaches(r, s)
  BY DEF Edited, AsRecorded
<1>2. Chain!JudgeChain(log, anchor, Sid).status = "in_progress"
  BY DEF verdict, Chain!VerifyOnce, Chain!WithAnchorState, Chain!Plain, Chain!Verdict
<1>3. Chain!Chained(log)
  BY <1>2 DEF Chain!JudgeChain, Chain!JudgeUnchained, Chain!Tampered, Chain!Plain, Chain!Verdict
<1>4. Faults = {}
  BY <1>2, <1>3 DEF Chain!JudgeChain, Chain!JudgeChained, Chain!Plain, Chain!Verdict, Faults
<1>5. \A j \in 1 .. Len(s) : Clean(s, j)
  BY <1>1, <1>4, NoFault DEF Faults
<1>6. Len(s) \in Nat /\ i \in 1 .. Len(s) - 1
  <2>1. Len(s) \in Nat /\ DOMAIN s = 1 .. Len(s)
    BY <1>1, ListedOne
  <2>. QED BY <2>1
<1>. QED BY <1>1, <1>5, <1>6, PrefixKept

(* Edits of session.yaml alone, of a session at rest.                          *)
LEMMA YamlDetected ==
    ASSUME Edited, EditedOnly("yaml")
    PROVE  /\ verdict.status \notin {"unchained", "empty"}
           /\ AtRest /\ verdict.status = "verified" => anchor.integrity = original.anchor.integrity
           /\ verdict.line = 0
<1>1. log = original.log
  BY DEF EditedOnly, AllOf, Edited
<1>2. Chain!Faulty(log.lines, Sid) = {} /\ Chain!Chained(log) /\ log.frag = "none"
  BY <1>1, RecordedLog DEF Edited
<1>. DEFINE judged == Chain!JudgeChain(log, anchor, Sid)
            plain == Chain!JudgeAnchor(log.lines, anchor, Sid)
<1>3. judged = Chain!Plain("unsupported") \/ judged = plain
  BY <1>2 DEF Chain!JudgeChain, Chain!JudgeChained
<1>4. verdict = judged \/ verdict = Chain!Plain("unsupported")
  BY DEF verdict, Chain!VerifyOnce, Chain!WithAnchorState
<1>5. /\ plain.status \in {"incomplete", "tampered", "in_progress", "verified"}
      /\ plain.line = 0
      /\ plain.status = "verified" => anchor.integrity = Chain!Anchor(log.lines, Sid)
  BY DEF Chain!JudgeAnchor, Chain!Plain, Chain!Tampered, Chain!Verdict
<1>6. Chain!Plain("unsupported").status = "unsupported" /\ Chain!Plain("unsupported").line = 0
  BY DEF Chain!Plain, Chain!Verdict
<1>7. AtRest => Chain!Anchor(log.lines, Sid) = original.anchor.integrity
  BY <1>1, RecordedAnchor DEF Edited
<1>. QED BY <1>3, <1>4, <1>5, <1>6, <1>7

LEMMA EditedDetects == Edited => EditsDetected
<1>. SUFFICES ASSUME Edited PROVE EditsDetected
  OBVIOUS
<1>1. EventsEditDetected
  BY AtRestDetected, LiveDetected DEF EventsEditDetected
<1>2. YamlEditDetected
  BY YamlDetected DEF YamlEditDetected
<1>. QED BY <1>1, <1>2 DEF EditsDetected

(* One edit of the log, and where verify finds it.                             *)
LEMMA OneEditLocalised ==
    ASSUME Edited, edits = <<"events">>, verdict.line # 0
    PROVE  BreakIsLocalised
<1>. DEFINE s == log.lines
            r == original.log.lines
            p == verdict.line
            same(i) == i \in DOMAIN s /\ i \in DOMAIN r /\ s[i] = r[i]
<1>1. Listed(s) /\ IsChain(r) /\ Listed(r) /\ Reaches(r, s)
  BY DEF Edited, AsRecorded, IsChain
<1>2. /\ DOMAIN s = 1 .. Len(s) /\ Len(s) \in Nat
      /\ DOMAIN r = 1 .. Len(r) /\ Len(r) \in Nat
  BY <1>1, ListedOne
<1>3. \/ Faults # {} /\ p = First
      \/ Faults = {} /\ p = Len(s) + 1
  <2>1. verdict = Chain!JudgeChain(log, anchor, Sid)
    BY DEF verdict, Chain!VerifyOnce, Chain!WithAnchorState, Chain!Plain, Chain!Verdict
  <2>2. verdict = Chain!JudgeChained(log, anchor, Sid)
    BY <2>1 DEF Chain!JudgeChain, Chain!JudgeUnchained, Chain!Plain, Chain!Tampered, Chain!Verdict
  <2>3. CASE Faults # {}
    BY <2>2, <2>3 DEF Chain!JudgeChained, Chain!Verdict, Faults, First
  <2>4. CASE Faults = {}
    <3>1. Chain!JudgeAnchor(s, anchor, Sid).line = 0
      BY DEF Chain!JudgeAnchor, Chain!Plain, Chain!Tampered, Chain!Verdict
    <3>. QED BY <2>2, <2>4, <3>1 DEF Chain!JudgeChained, Chain!Plain, Chain!Verdict, Faults
  <2>. QED BY <2>3, <2>4
<1>4. /\ p \in Nat /\ p >= 1 /\ p - 1 <= Len(s) /\ \A j \in 1 .. p - 1 : Clean(s, j)
      /\ p \in DOMAIN s => ~Clean(s, p)
  <2>1. CASE Faults # {}
    <3>1. p = First
      BY <1>3, <2>1
    <3>2. /\ p \in 1 .. Len(s) /\ ~Clean(s, p)
          /\ \A j \in 1 .. p - 1 : Clean(s, j)
      BY <1>1, <2>1, <3>1, FirstFault
    <3>. QED BY <1>2, <3>2
  <2>2. CASE Faults = {}
    <3>1. p = Len(s) + 1
      BY <1>3, <2>2
    <3>2. \A j \in 1 .. Len(s) : Clean(s, j)
      BY <1>1, <2>2, NoFault DEF Faults
    <3>3. p \in Nat /\ p >= 1 /\ p - 1 = Len(s) /\ p \notin 1 .. Len(s)
      BY <1>2, <3>1
    <3>. QED BY <1>2, <3>2, <3>3
  <2>. QED BY <2>1, <2>2
<1>. HIDE DEF p
<1>5. ASSUME NEW i \in 1 .. p - 2 PROVE same(i)
  <2>1. p - 1 \in Nat /\ i \in 1 .. (p - 1) - 1
    BY <1>4
  <2>2. i \in 1 .. Len(r) /\ s[i] = r[i]
    BY <1>1, <1>4, <2>1, PrefixKept
  <2>3. i \in 1 .. Len(s)
    BY <1>2, <1>4
  <2>. QED BY <1>2, <2>2, <2>3
<1>6. \E i \in {p - 1, p} : i > 0 /\ ~same(i)
  <2>1. CASE ~same(p)
    BY <1>4, <2>1
  <2>2. CASE same(p)
    <3>1. ~(p = 1 \/ same(p - 1))
      <4>1. ASSUME p = 1 \/ same(p - 1) PROVE FALSE
        <5>1. s[p] = r[p] /\ (p # 1 => s[p - 1] = r[p - 1])
          BY <2>2, <4>1
        <5>2. Clean(r, p)
          BY <1>1, <1>2, <2>2, ChainClean
        <5>. QED BY <1>4, <2>2, <5>1, <5>2, SameFault
      <4>. QED BY <4>1
    <3>2. p - 1 > 0
      BY <1>4, <3>1
    <3>. QED BY <3>1, <3>2
  <2>. QED BY <2>1, <2>2
<1>. QED BY <1>5, <1>6 DEF BreakIsLocalised, p

LEMMA EditedLocalises == Edited => BreakIsLocalised
<1>. SUFFICES ASSUME Edited, Len(edits) = 1, verdict.line # 0 PROVE BreakIsLocalised
  BY DEF BreakIsLocalised
<1>1. edits \in Seq({"events", "yaml"})
  BY DEF Edited
<1>2. edits[1] \in {"events", "yaml"} /\ edits = <<edits[1]>>
  BY <1>1
<1>3. CASE edits = <<"events">>
  BY <1>3, OneEditLocalised
<1>4. CASE edits = <<"yaml">>
  <2>1. EditedOnly("yaml")
    <3>1. DOMAIN edits = {1} /\ edits[1] = "yaml" /\ edits # <<>>
      BY <1>4
    <3>. QED BY <3>1 DEF EditedOnly
  <2>. QED BY <2>1, YamlDetected
<1>. QED BY <1>2, <1>3, <1>4

(* The inductive invariant of a session edited by hand.                        *)
THEOREM EditedHolds == TamperSpec => []Edited
<1>. QED BY InitEdited, NextEdited, PTL DEF TamperSpec

LEMMA EditedTypes == Edited => TamperTypeOK
<1>. SUFFICES ASSUME Edited PROVE TamperTypeOK
  OBVIOUS
<1>1. Listed(log.lines) /\ AnchorLike(anchor) /\ log.frag \in Chain!Fragments
  BY DEF Edited
<1>2. \A i \in DOMAIN log.lines : LineLike(log.lines[i])
  BY <1>1, ListedOne
<1>. QED BY <1>1, <1>2 DEF Edited, AnchorLike, LineLike, TamperTypeOK

(* However a session's files are edited, they stay a log of lines and an       *)
(* anchor.                                                                     *)
THEOREM TamperTypesHold == TamperSpec => []TamperTypeOK
<1>. QED BY EditedHolds, EditedTypes, PTL

(* What verify detects (verifyOnce, judgeChain): an at-rest session whose log  *)
(* was edited, in whatever steps and whatever hashes were recomputed, is       *)
(* tampered unless its recorded log is back; session.yaml alone makes no       *)
(* recorded log pass for unchained.                                            *)
THEOREM TamperDetected == TamperSpec => []EditsDetected
<1>. QED BY EditedHolds, EditedDetects, PTL

(* The line verify reports for one edit is the first that differs from the     *)
(* recorded log, or the one after it.                                          *)
THEOREM TamperLocalised == TamperSpec => []BreakIsLocalised
<1>. QED BY EditedHolds, EditedLocalises, PTL

-----------------------------------------------------------------------------
(* Second part: RefreshWatch.                                                 *)

(* A file behind the store stays behind while the store gets ahead.           *)
LEMMA BehindStaysBehind ==
    ASSUME NEW S, NEW old \in [S -> Nat], NEW mid \in [S -> Nat], NEW new \in [S -> Nat],
           \A x \in S : old[x] <= mid[x] /\ mid[x] <= new[x],
           old # mid
    PROVE  old # new
  <1>1. PICK x \in S : old[x] # mid[x]
    OBVIOUS
  <1>2. old[x] < mid[x] /\ mid[x] <= new[x]
    BY <1>1
  <1>. QED BY <1>2

(* An import moves the store from what it holds to what the log is now.       *)
LEMMA ImportGrows ==
    ASSUME IInv, NEW l \in Logs, Import(l)
    PROVE  /\ l \in Own
           /\ imported' = [imported EXCEPT ![l] = logs[l]]
           /\ looked' = [looked EXCEPT ![l] = logs[l]]
           /\ \A k \in Own : imported[k] <= imported'[k] /\ imported'[k] <= logs[k]
           /\ changed' => decisions # imported'
           /\ ~changed' => imported' = imported
  <1>1. l \in Own
    BY DEF Import, IInv, AnsweredLooked, Own
  <1>2. /\ imported' = [imported EXCEPT ![l] = logs[l]]
        /\ looked' = [looked EXCEPT ![l] = logs[l]]
    BY DEF Import
  <1>3. \A k \in Own : imported[k] <= imported'[k] /\ imported'[k] <= logs[k]
    BY <1>1, <1>2 DEF IInv, TypeOK, Ordered, Logs
  <1>4. CASE changed
    <2>1. decisions # imported
      BY <1>4 DEF Import, IInv, OwedIsStale
    <2>. QED BY <1>1, <1>2, <1>3, <1>4, <2>1, BehindStaysBehind
             DEF Import, IInv, TypeOK, Ordered, Logs
  <1>5. CASE ~changed /\ logs[l] # imported[l]
    <2>1. decisions[l] < imported'[l]
      BY <1>1, <1>2, <1>5 DEF IInv, TypeOK, Ordered, Logs
    <2>2. decisions # imported'
      BY <1>1, <1>2, <2>1 DEF IInv, TypeOK, Ordered, Logs
    <2>3. changed'
      BY <1>5 DEF Import
    <2>. QED BY <1>1, <1>2, <1>3, <2>2, <2>3
  <1>6. CASE ~changed /\ logs[l] = imported[l]
    BY <1>1, <1>2, <1>3, <1>6 DEF Import, IInv, TypeOK
  <1>. QED BY <1>4, <1>5, <1>6

(* Every variable keeps its type.                                             *)
LEMMA TypeInvariant == ASSUME IInv, [Next]_vars PROVE TypeOK'
  <1>. USE DEF IInv, TypeOK
  <1>1. ASSUME NEW l \in Logs, Scan(l) PROVE TypeOK'
    BY <1>1 DEF Scan, shown
  <1>2. ASSUME NEW l \in Logs, Import(l) PROVE TypeOK'
    BY <1>2, ImportGrows DEF Import, shown, scans, Logs
  <1>3. CASE ScanEnds
    BY <1>3 DEF ScanEnds, Enter, shown, Phases, Logs, Own
  <1>4. CASE ClaudeImported \/ Wake \/ CycleFails
    BY <1>4 DEF ClaudeImported, Wake, CycleFails, Enter, shown, scans, Phases, Logs, Own
  <1>5. CASE Imported
    BY <1>5 DEF Imported, Owes, Regen, Enter, Settle, shown, scans, Phases
  <1>6. CASE RegenerateHandoff
    BY <1>6 DEF RegenerateHandoff, Enter, scans, Phases
  <1>7. CASE RegenerateDecisions
    BY <1>7 DEF RegenerateDecisions, Enter, Settle, scans, Phases
  <1>8. ASSUME NEW l \in Logs, LogGrows(l) PROVE TypeOK'
    BY <1>8 DEF LogGrows, shown, scans
  <1>9. CASE Abort
    BY <1>9 DEF Abort, shown, scans
  <1>10. CASE UNCHANGED vars
    BY <1>10 DEF vars, shown, scans
  <1>11. ASSUME NEW l \in Logs, Refuse(l) PROVE TypeOK'
    BY <1>11 DEF Refuse, shown, scans
  <1>. QED BY <1>1, <1>2, <1>3, <1>4, <1>5, <1>6, <1>7, <1>8, <1>9, <1>10, <1>11
           DEF Next, Watch

(* Every step keeps the inductive invariant.                                  *)
LEMMA InductiveStep == ASSUME IInv, [Next]_vars PROVE IInv'
<1>t. TypeOK /\ TypeOK'
  BY TypeInvariant DEF IInv
<1>. USE DEF IInv
<1>1. ASSUME NEW l \in Logs, Scan(l) PROVE IInv'
  <2>. USE <1>1, <1>t DEF Scan, shown
  <2>1. Ordered'
    BY DEF Ordered, TypeOK
  <2>2. AnsweredLooked'
    BY DEF AnsweredLooked, Answered
  <2>3. NothingMissed' /\ Baseline'
    BY DEF NothingMissed, Baseline
  <2>4. Owed' /\ OwedIsStale'
    BY DEF Owed, OwedIsStale, Stale
  <2>. QED BY <2>1, <2>2, <2>3, <2>4
<1>2. ASSUME NEW l \in Logs, Import(l) PROVE IInv'
  <2>g. /\ l \in Own
        /\ imported' = [imported EXCEPT ![l] = logs[l]]
        /\ looked' = [looked EXCEPT ![l] = logs[l]]
        /\ \A k \in Own : imported[k] <= imported'[k] /\ imported'[k] <= logs[k]
        /\ changed' => decisions # imported'
        /\ ~changed' => imported' = imported
    BY <1>2, ImportGrows
  <2>. USE <1>2, <1>t DEF Import, shown, scans
  <2>1. Ordered'
    BY <2>g DEF Ordered, TypeOK
  <2>2. AnsweredLooked'
    BY <2>g DEF AnsweredLooked, Answered, Ordered, TypeOK, Own, Logs
  <2>3. NothingMissed' /\ Baseline'
    <3>1. \A k \in Own : looked[k] <= looked'[k]
      BY <2>g DEF Ordered, TypeOK, Logs
    <3>. QED BY <3>1 DEF NothingMissed, Baseline, TypeOK, Logs
  <2>4. Owed' /\ OwedIsStale'
    BY <2>g DEF Owed, OwedIsStale, Stale, TypeOK
  <2>. QED BY <2>1, <2>2, <2>3, <2>4
<1>3. CASE ScanEnds
  <2>. USE <1>3, <1>t DEF ScanEnds, shown, Enter
  <2>1. Ordered'
    BY DEF Ordered
  <2>2. AnsweredLooked'
    BY DEF AnsweredLooked, Answered, Ordered, TypeOK, Own, Logs
  <2>3. NothingMissed' /\ Baseline'
    BY DEF NothingMissed, Baseline
  <2>4. Owed' /\ OwedIsStale'
    BY DEF Owed, OwedIsStale, Stale
  <2>. QED BY <2>1, <2>2, <2>3, <2>4
<1>4. CASE ClaudeImported
  <2>. USE <1>4, <1>t DEF ClaudeImported, shown, scans, Enter
  <2>1. Ordered'
    BY DEF Ordered
  <2>2. AnsweredLooked'
    BY DEF AnsweredLooked, Answered, Ordered, TypeOK, Own, Logs
  <2>3. NothingMissed' /\ Baseline'
    BY DEF NothingMissed, Baseline
  <2>4. Owed' /\ OwedIsStale'
    BY DEF Owed, OwedIsStale, Stale
  <2>. QED BY <2>1, <2>2, <2>3, <2>4
<1>5. CASE Imported
  <2>. USE <1>5, <1>t DEF Imported, Owes, Regen, shown, scans, Enter, Settle
  <2>1. Ordered'
    BY DEF Ordered
  <2>2. AnsweredLooked'
    BY DEF AnsweredLooked, Answered, Own
  <2>3. NothingMissed' /\ Baseline'
    BY DEF NothingMissed, Baseline, AnsweredLooked, Answered, Own
  <2>4. Owed' /\ OwedIsStale'
    BY DEF Owed, OwedIsStale, Stale, Baseline
  <2>. QED BY <2>1, <2>2, <2>3, <2>4
<1>6. CASE RegenerateHandoff
  <2>. USE <1>6, <1>t DEF RegenerateHandoff, scans, Enter
  <2>1. Ordered'
    BY DEF Ordered, TypeOK
  <2>2. AnsweredLooked'
    BY DEF AnsweredLooked, Answered
  <2>3. NothingMissed' /\ Baseline'
    BY DEF NothingMissed, Baseline
  <2>4. Owed' /\ OwedIsStale'
    BY DEF Owed, OwedIsStale, Stale
  <2>. QED BY <2>1, <2>2, <2>3, <2>4
<1>7. CASE RegenerateDecisions
  <2>. USE <1>7, <1>t DEF RegenerateDecisions, scans, Enter, Settle
  <2>1. Ordered'
    BY DEF Ordered, TypeOK
  <2>2. AnsweredLooked'
    BY DEF AnsweredLooked, Answered
  <2>3. NothingMissed' /\ Baseline'
    BY DEF NothingMissed, Baseline, AnsweredLooked, Answered
  <2>4. Owed' /\ OwedIsStale'
    BY DEF Owed, OwedIsStale, Stale
  <2>. QED BY <2>1, <2>2, <2>3, <2>4
<1>8. CASE Wake \/ Abort \/ UNCHANGED vars
  <2>. USE <1>8, <1>t DEF Wake, Abort, vars, shown, scans, Enter
  <2>1. Ordered'
    BY DEF Ordered
  <2>2. AnsweredLooked'
    BY DEF AnsweredLooked, Answered
  <2>3. NothingMissed' /\ Baseline'
    BY DEF NothingMissed, Baseline
  <2>4. Owed' /\ OwedIsStale'
    BY DEF Owed, OwedIsStale, Stale
  <2>. QED BY <2>1, <2>2, <2>3, <2>4
<1>9. CASE CycleFails
  <2>. USE <1>9, <1>t DEF CycleFails, shown, scans, Enter
  <2>1. Ordered'
    BY DEF Ordered
  <2>2. AnsweredLooked'
    BY DEF AnsweredLooked, Answered
  <2>3. NothingMissed' /\ Baseline'
    BY DEF NothingMissed, Baseline
  <2>4. Owed' /\ OwedIsStale'
    BY DEF Owed, OwedIsStale, Stale
  <2>. QED BY <2>1, <2>2, <2>3, <2>4
<1>10. ASSUME NEW l \in Logs, LogGrows(l) PROVE IInv'
  <2>. USE <1>10, <1>t DEF LogGrows, shown, scans
  <2>1. Ordered'
    BY DEF Ordered, TypeOK, Own, Logs
  <2>2. AnsweredLooked'
    BY DEF AnsweredLooked, Answered
  <2>3. NothingMissed' /\ Baseline'
    BY DEF NothingMissed, Baseline
  <2>4. Owed' /\ OwedIsStale'
    BY DEF Owed, OwedIsStale, Stale
  <2>. QED BY <2>1, <2>2, <2>3, <2>4
<1>11. ASSUME NEW l \in Logs, Refuse(l) PROVE IInv'
  <2>g. /\ l \in Own /\ looked' = [looked EXCEPT ![l] = logs[l]]
        /\ \A k \in Own : looked[k] <= looked'[k] /\ looked'[k] <= logs[k]
    BY <1>11, <1>t DEF Refuse, AnsweredLooked, Own, TypeOK, Ordered, Logs
  <2>. USE <1>11, <1>t DEF Refuse, shown, scans
  <2>1. Ordered'
    BY <2>g DEF Ordered, TypeOK
  <2>2. AnsweredLooked'
    BY <2>g DEF AnsweredLooked, Answered, Ordered, TypeOK, Own, Logs
  <2>3. NothingMissed' /\ Baseline'
    BY <2>g DEF NothingMissed, Baseline, TypeOK, Logs
  <2>4. Owed' /\ OwedIsStale'
    BY DEF Owed, OwedIsStale, Stale
  <2>. QED BY <2>1, <2>2, <2>3, <2>4
<1>. QED BY <1>1, <1>2, <1>3, <1>4, <1>5, <1>6, <1>7, <1>8, <1>9, <1>10, <1>11
         DEF Next, Watch

LEMMA InitFits == ASSUME Init PROVE IInv
  <1>1. TypeOK
    <2>1. \A S : [S -> 0 .. 1] \subseteq [S -> Nat]
      OBVIOUS
    <2>. QED BY <2>1 DEF Init, TypeOK, Phases
  <1>2. Ordered
    <2>1. \A l \in Logs : current[l] = 0 /\ logs[l] \in 0 .. 1
      BY DEF Init
    <2>2. \A l \in Own : /\ imported[l] \in 0 .. 1 /\ imported[l] <= logs[l]
                          /\ looked[l] = imported[l]
                          /\ handoff[l] = imported[l] /\ decisions[l] = imported[l]
      BY DEF Init
    <2>. QED BY <2>1, <2>2 DEF Ordered
  <1>3. AnsweredLooked /\ NothingMissed /\ Baseline /\ Owed /\ OwedIsStale
    BY DEF Init, AnsweredLooked, Answered, NothingMissed, Baseline, Owed,
           OwedIsStale, Stale
  <1>. QED BY <1>1, <1>2, <1>3 DEF IInv

(* The invariant holds throughout a watch.                                    *)
THEOREM InvariantHolds == Spec => []IInv
  <1>. QED BY InitFits, InductiveStep, PTL DEF Spec

(* What the watcher takes for done an import has looked at: no change of a    *)
(* log is passed over, whatever is written during scans and imports.          *)
THEOREM NothingIsMissed == Spec => []NothingMissed
  <1>1. IInv => NothingMissed
    BY DEF IInv
  <1>. QED BY <1>1, InvariantHolds, PTL

(* Files behind the store are owed a regeneration, unless an import phase     *)
(* failed after it had imported something.                                    *)
THEOREM StaleFilesAreOwed == Spec => []StaleIsOwed
  <1>1. IInv => StaleIsOwed
    BY DEF IInv, StaleIsOwed, Owed, Stale, Baseline
  <1>. QED BY <1>1, InvariantHolds, PTL

(* After the catch-up no file is rewritten to say what it said before.        *)
THEOREM NoIdleRewrite == Spec => RewrittenOnlyWhenStale
  <1>1. IInv => (~starting /\ (phase = "handoff" \/ phase = "decisions")
                  => decisions # imported)
    BY DEF IInv, Owed, OwedIsStale
  <1>2. IInv /\ [Next]_vars =>
          [~starting /\ (phase = "handoff" \/ phase = "decisions")
            /\ phase' # phase /\ faults' = faults => decisions # imported]_vars
    BY <1>1
  <1>. QED BY <1>2, InvariantHolds, PTL DEF Spec, RewrittenOnlyWhenStale
=============================================================================
