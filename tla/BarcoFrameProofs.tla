--------------------------- MODULE BarcoFrameProofs ---------------------------
(***************************************************************************)
(* The reader gets the frames that were sent, for addresses, payloads and   *)
(* noise of any length and any bytes.                                      *)
(***************************************************************************)
EXTENDS BarcoFrame, SequenceTheorems, WellFoundedInduction, TLAPS

------------------------------------------------------------------------------
(* Induction: over the numbers, from their well-founded order; over        *)
(* sequences, from their lengths.  The predicate is a set.                 *)

LEMMA NumbersInduction ==
    ASSUME NEW S, 0 \in S, \A n \in Nat : n \in S => n + 1 \in S
    PROVE  Nat \subseteq S
<1> DEFINE T == Nat \ S
           R == OpToRel(<, Nat)
<1>1. SUFFICES ASSUME T # {} PROVE FALSE
  OBVIOUS
<1>2. IsWellFoundedOn(R, Nat)
  BY NatLessThanWellFounded
<1>3. PICK x \in T : \A y \in T : ~(<<y, x>> \in R)
  <2> HIDE DEF R
  <2> QED BY <1>1, <1>2, WFMin
<1>4. x - 1 \in T /\ <<x - 1, x>> \in R
  BY DEF OpToRel
<1> QED BY <1>3, <1>4

LEMMA AppendInduction ==
    ASSUME NEW B, NEW S, <<>> \in S,
           \A s \in Seq(B), e \in B : s \in S => Append(s, e) \in S
    PROVE  Seq(B) \subseteq S
<1> DEFINE N == {n \in Nat : \A s \in Seq(B) : Len(s) = n => s \in S}
<1>1. 0 \in N
  BY EmptySeq
<1>2. ASSUME NEW n \in Nat, n \in N PROVE n + 1 \in N
  <2> SUFFICES ASSUME NEW s \in Seq(B), Len(s) = n + 1 PROVE s \in S
    OBVIOUS
  <2>1. PICK r \in Seq(B), e \in B : s = Append(r, e)
    <3>1. s # <<>>
      BY EmptySeq
    <3> QED BY <3>1, SequenceEmptyOrAppend
  <2>2. Len(r) = n
    BY <2>1, AppendProperties, LenProperties
  <2> QED BY <1>2, <2>1, <2>2
<1>3. Nat \subseteq N
  <2> HIDE DEF N
  <2> QED BY <1>1, <1>2, NumbersInduction
<1> QED BY <1>3, LenProperties
------------------------------------------------------------------------------
(* Folds: the recursive functions in their definitions exist. *)

LEMMA MaxOf ==
    ASSUME NEW n \in Nat, NEW s \in SUBSET (1 .. n), s # {}
    PROVE  Max(s) \in s /\ \A x \in s : x <= Max(s)
<1> DEFINE N == {k \in Nat : \A r \in SUBSET (1 .. k) :
                                r # {} => \E m \in r : \A x \in r : m >= x}
<1>1. 0 \in N
  <2>1. 1 .. 0 = {}
    OBVIOUS
  <2> QED BY <2>1
<1>2. ASSUME NEW k \in Nat, k \in N PROVE k + 1 \in N
  <2> SUFFICES ASSUME NEW r \in SUBSET (1 .. k + 1), r # {}
               PROVE  \E m \in r : \A x \in r : m >= x
    OBVIOUS
  <2>1. CASE k + 1 \in r
    BY <2>1
  <2>2. CASE k + 1 \notin r
    <3>1. r \in SUBSET (1 .. k)
      BY <2>2
    <3> QED BY <1>2, <3>1
  <2> QED BY <2>1, <2>2
<1>3. n \in N
  <2> HIDE DEF N
  <2> QED BY <1>1, <1>2, NumbersInduction
<1>4. \E m \in s : \A x \in s : m >= x
  BY <1>3
<1> QED BY <1>4 DEF Max

LEMMA MaxOfInterval ==
    ASSUME NEW n \in Nat
    PROVE  /\ Max(1 .. n + 1) = n + 1
           /\ (1 .. n + 1) \ {n + 1} = 1 .. n
           /\ 1 .. n + 1 # {}
<1>1. 1 .. n + 1 # {} /\ 1 .. n + 1 \in SUBSET (1 .. n + 1) /\ n + 1 \in Nat
  OBVIOUS
<1>2. Max(1 .. n + 1) \in 1 .. n + 1 /\ \A x \in 1 .. n + 1 : x <= Max(1 .. n + 1)
  BY <1>1, MaxOf
<1> QED BY <1>1, <1>2

\* g folds the function "step" of a value and an index over 1 .. k.
Folds(g, base, step, k) ==
    \A s \in SUBSET (1 .. k) :
        g[s] = IF s = {} THEN base ELSE step[<<g[s \ {Max(s)}], Max(s)>>]

LEMMA FoldsNext ==
    ASSUME NEW V, NEW base, NEW k \in Nat, NEW step,
           \A v \in V : step[<<v, k + 1>>] \in V,
           NEW g \in [SUBSET (1 .. k) -> V], Folds(g, base, step, k)
    PROVE  \E h \in [SUBSET (1 .. k + 1) -> V] : Folds(h, base, step, k + 1)
<1> DEFINE h == [s \in SUBSET (1 .. k + 1) |->
                   IF k + 1 \in s THEN step[<<g[s \ {k + 1}], k + 1>>] ELSE g[s]]
<1>1. ASSUME NEW s \in SUBSET (1 .. k + 1)
      PROVE  /\ k + 1 \in s => h[s] = step[<<g[s \ {k + 1}], k + 1>>]
             /\ k + 1 \notin s => h[s] = g[s]
  OBVIOUS
<1>2. h = [s \in SUBSET (1 .. k + 1) |-> h[s]]
  OBVIOUS
<1> HIDE DEF h
<1>3. ASSUME NEW s \in SUBSET (1 .. k + 1), k + 1 \in s
      PROVE  /\ h[s] \in V /\ s # {} /\ h[s] = step[<<h[s \ {Max(s)}], Max(s)>>]
  <2>1. Max(s) \in s /\ \A x \in s : x <= Max(s)
    <3>1. k + 1 \in Nat /\ s # {}
      BY <1>3
    <3> QED BY <3>1, MaxOf
  <2>2. Max(s) = k + 1
    <3>1. Max(s) \in 1 .. k + 1 /\ k + 1 <= Max(s)
      BY <1>3, <2>1
    <3> QED BY <3>1
  <2>3. /\ s \ {k + 1} \in SUBSET (1 .. k) /\ s \ {k + 1} \in SUBSET (1 .. k + 1)
        /\ k + 1 \notin s \ {k + 1}
    OBVIOUS
  <2>4. h[s \ {k + 1}] = g[s \ {k + 1}] /\ g[s \ {k + 1}] \in V
    BY <1>1, <2>3
  <2> QED BY <1>1, <1>3, <2>2, <2>4
<1>4. ASSUME NEW s \in SUBSET (1 .. k + 1), k + 1 \notin s
      PROVE  /\ h[s] \in V
             /\ h[s] = IF s = {} THEN base ELSE step[<<h[s \ {Max(s)}], Max(s)>>]
  <2>1. s \in SUBSET (1 .. k)
    BY <1>4
  <2>2. /\ s \ {Max(s)} \in SUBSET (1 .. k) /\ s \ {Max(s)} \in SUBSET (1 .. k + 1)
        /\ k + 1 \notin s \ {Max(s)}
    BY <1>4, <2>1
  <2>3. h[s] = g[s] /\ h[s \ {Max(s)}] = g[s \ {Max(s)}] /\ g[s] \in V
    BY <1>1, <1>4, <2>1, <2>2
  <2>4. g[s] = IF s = {} THEN base ELSE step[<<g[s \ {Max(s)}], Max(s)>>]
    BY <2>1 DEF Folds
  <2> QED BY <2>3, <2>4
<1>5. h \in [SUBSET (1 .. k + 1) -> V]
  BY <1>2, <1>3, <1>4
<1>6. Folds(h, base, step, k + 1)
  BY <1>3, <1>4 DEF Folds
<1> QED BY <1>5, <1>6

LEMMA FoldExists ==
    ASSUME NEW V, NEW base \in V, NEW n \in Nat, NEW step,
           \A v \in V, i \in 1 .. n : step[<<v, i>>] \in V
    PROVE  \E g \in [SUBSET (1 .. n) -> V] : Folds(g, base, step, n)
<1> DEFINE HasFold(k) == \E g \in [SUBSET (1 .. k) -> V] : Folds(g, base, step, k)
           N == {k \in Nat : k <= n => HasFold(k)}
<1>1. HasFold(0)
  <2> DEFINE g == [s \in SUBSET (1 .. 0) |-> base]
  <2>1. g \in [SUBSET (1 .. 0) -> V] /\ \A s \in SUBSET (1 .. 0) : s = {} /\ g[s] = base
    OBVIOUS
  <2>2. Folds(g, base, step, 0)
    BY <2>1 DEF Folds
  <2> QED BY <2>1, <2>2
<1>2. ASSUME NEW k \in Nat, k + 1 <= n, HasFold(k) PROVE HasFold(k + 1)
  <2>1. PICK g \in [SUBSET (1 .. k) -> V] : Folds(g, base, step, k)
    BY <1>2
  <2>2. k + 1 \in 1 .. n
    BY <1>2
  <2>3. \A v \in V : step[<<v, k + 1>>] \in V
    BY <2>2
  <2> QED BY <2>1, <2>3, FoldsNext
<1> HIDE DEF HasFold
<1>3. 0 \in N /\ \A k \in Nat : k \in N => k + 1 \in N
  BY <1>1, <1>2
<1>4. n \in N
  <2> HIDE DEF N
  <2> QED BY <1>3, NumbersInduction
<1>5. HasFold(n)
  BY <1>4
<1> QED BY <1>5 DEF HasFold
------------------------------------------------------------------------------
(* _unescape, byte by byte. *)

Byte == 0 .. 255
Readings == [escape : BOOLEAN, out : Seq(Byte)]
Begun == [escape |-> FALSE, out |-> <<>>]
After(z) == FoldLeft(UnescapeByte, Begun, z)

LEMMA EscapedBytes ==
    /\ DOMAIN Escaped = {128, 254, 255}
    /\ Escaped[128] = 0 /\ Escaped[254] = 126 /\ Escaped[255] = 127
BY DEF Escaped, ESCAPE, START, STOP

\* What UnescapeByte makes of a byte that stands for itself, of ESCAPE, and of
\* the byte after it.
LEMMA UnescapeByteCases ==
    ASSUME NEW o, NEW b
    PROVE  /\ b # ESCAPE => UnescapeByte([escape |-> FALSE, out |-> o], b)
                              = [escape |-> FALSE, out |-> Append(o, b)]
           /\ UnescapeByte([escape |-> FALSE, out |-> o], ESCAPE) = [escape |-> TRUE, out |-> o]
           /\ b \in DOMAIN Escaped => UnescapeByte([escape |-> TRUE, out |-> o], Escaped[b])
                                        = [escape |-> FALSE, out |-> Append(o, b)]
<1>1. ASSUME NEW c
      PROVE  UnescapeByte([escape |-> FALSE, out |-> o], c)
               = [escape |-> c = ESCAPE, out |-> IF c = ESCAPE THEN o ELSE Append(o, c)]
  BY DEF UnescapeByte
<1>2. b # ESCAPE => (b = ESCAPE) = FALSE
  OBVIOUS
<1>3. (ESCAPE = ESCAPE) = TRUE
  OBVIOUS
<1>4. ASSUME b \in DOMAIN Escaped
      PROVE  UnescapeByte([escape |-> TRUE, out |-> o], Escaped[b])
               = [escape |-> FALSE, out |-> Append(o, b)]
  <2>1. b = CHOOSE c \in DOMAIN Escaped : Escaped[c] = Escaped[b]
    BY <1>4, EscapedBytes
  <2> QED BY <1>4, <2>1 DEF UnescapeByte
<1>5. b # ESCAPE => UnescapeByte([escape |-> FALSE, out |-> o], b)
                      = [escape |-> FALSE, out |-> Append(o, b)]
  BY <1>1, <1>2
<1>6. UnescapeByte([escape |-> FALSE, out |-> o], ESCAPE) = [escape |-> TRUE, out |-> o]
  BY <1>1, <1>3
<1> QED BY <1>4, <1>5, <1>6

LEMMA UnescapeByteType ==
    ASSUME NEW v \in Readings, NEW b \in Byte
    PROVE  UnescapeByte(v, b) \in Readings
<1>1. v.escape \in BOOLEAN /\ v.out \in Seq(Byte) /\ ESCAPE \in Byte
  BY DEF Readings, ESCAPE, Byte
<1>2. CASE v.escape /\ \E c \in DOMAIN Escaped : Escaped[c] = b
  <2> DEFINE c == CHOOSE c \in DOMAIN Escaped : Escaped[c] = b
  <2>1. c \in DOMAIN Escaped
    BY <1>2
  <2>2. c \in Byte
    BY <2>1, EscapedBytes DEF Byte
  <2>3. UnescapeByte(v, b) = [escape |-> FALSE, out |-> Append(v.out, c)]
    BY <1>2 DEF UnescapeByte
  <2> HIDE DEF c
  <2> QED BY <1>1, <2>2, <2>3 DEF Readings
<1>3. CASE v.escape /\ ~\E c \in DOMAIN Escaped : Escaped[c] = b
  <2>1. UnescapeByte(v, b) = [escape |-> FALSE, out |-> v.out \o <<ESCAPE, b>>]
    BY <1>3 DEF UnescapeByte
  <2>2. <<ESCAPE, b>> \in Seq(Byte)
    BY <1>1
  <2> QED BY <1>1, <2>1, <2>2, ConcatProperties DEF Readings
<1>4. CASE ~v.escape
  BY <1>1, <1>4 DEF UnescapeByte, Readings
<1> QED BY <1>1, <1>2, <1>3, <1>4

\* "iter" has the readings of all beginnings of z.
Reads(z, iter) ==
    /\ iter[1 .. 0] = Begun
    /\ \A k \in Nat : k < Len(z) => iter[1 .. k + 1] = UnescapeByte(iter[1 .. k], z[k + 1])

LEMMA AfterReads ==
    ASSUME NEW z \in Seq(Byte)
    PROVE  \E iter : Reads(z, iter) /\ After(z) = iter[1 .. Len(z)]
<1> DEFINE n == Len(z)
           Steps(iter) ==
             iter = [s \in SUBSET DOMAIN z |->
                       IF s = {} THEN Begun
                       ELSE UnescapeByte(iter[s \ {Max(s)}], z[Max(s)])]
           step == [p \in Readings \X (1 .. n) |-> UnescapeByte(p[1], z[p[2]])]
<1>1. n \in Nat /\ DOMAIN z = 1 .. n /\ Begun \in Readings
  BY LenProperties DEF Readings, Begun
<1>2. \A v \in Readings, i \in 1 .. n :
         step[<<v, i>>] = UnescapeByte(v, z[i]) /\ step[<<v, i>>] \in Readings
  <2> TAKE v \in Readings, i \in 1 .. n
  <2>1. z[i] \in Byte
    BY ElementOfSeq
  <2> QED BY <2>1, UnescapeByteType
<1> HIDE DEF n, step
<1>3. PICK g \in [SUBSET (1 .. n) -> Readings] : Folds(g, Begun, step, n)
  BY <1>1, <1>2, FoldExists
<1>4. ASSUME NEW s \in SUBSET (1 .. n)
      PROVE  g[s] = IF s = {} THEN Begun ELSE UnescapeByte(g[s \ {Max(s)}], z[Max(s)])
  <2>1. CASE s # {}
    <3>1. Max(s) \in 1 .. n
      BY <1>1, <2>1, MaxOf
    <3>2. g[s \ {Max(s)}] \in Readings
      OBVIOUS
    <3>3. g[s] = step[<<g[s \ {Max(s)}], Max(s)>>]
      BY <1>3, <2>1 DEF Folds
    <3> QED BY <1>2, <2>1, <3>1, <3>2, <3>3
  <2>2. CASE s = {}
    BY <1>3, <2>2 DEF Folds
  <2> QED BY <2>1, <2>2
<1>5. Steps(g)
  BY <1>1, <1>4
<1>6. Steps(CHOOSE iter : Steps(iter)) /\ After(z) = (CHOOSE iter : Steps(iter))[DOMAIN z]
  <2>1. Steps(CHOOSE iter : Steps(iter))
    BY <1>5
  <2>2. After(z) = (CHOOSE iter : Steps(iter))[DOMAIN z]
    BY DEF After, FoldLeft, MapThenFoldSet
  <2> QED BY <2>1, <2>2
<1>7. PICK iter : Steps(iter) /\ After(z) = iter[1 .. n]
  BY <1>1, <1>6
<1>8. \A s \in SUBSET (1 .. n) :
         iter[s] = IF s = {} THEN Begun ELSE UnescapeByte(iter[s \ {Max(s)}], z[Max(s)])
  BY <1>1, <1>7
<1>9. Reads(z, iter)
  <2>1. iter[1 .. 0] = Begun
    <3>1. 1 .. 0 = {} /\ {} \in SUBSET (1 .. n)
      OBVIOUS
    <3> QED BY <1>8, <3>1
  <2>2. ASSUME NEW k \in Nat, k < n
        PROVE  iter[1 .. k + 1] = UnescapeByte(iter[1 .. k], z[k + 1])
    <3>1. 1 .. k + 1 \in SUBSET (1 .. n)
      BY <1>1, <2>2
    <3> QED BY <1>8, <3>1, MaxOfInterval
  <2> QED BY <2>1, <2>2 DEF Reads, n
<1> QED BY <1>7, <1>9 DEF n

LEMMA ReadsUnique ==
    ASSUME NEW y \in Seq(Byte), NEW z \in Seq(Byte), Len(y) <= Len(z),
           \A i \in 1 .. Len(y) : y[i] = z[i],
           NEW f, Reads(y, f), NEW g, Reads(z, g)
    PROVE  f[1 .. Len(y)] = g[1 .. Len(y)]
<1> DEFINE Same(k) == f[1 .. k] = g[1 .. k]
           N == {k \in Nat : k <= Len(y) => Same(k)}
<1>1. Len(y) \in Nat /\ Len(z) \in Nat
  BY LenProperties
<1>2. Same(0)
  BY DEF Reads
<1>3. ASSUME NEW k \in Nat, k + 1 <= Len(y), Same(k) PROVE Same(k + 1)
  <2>1. k < Len(y) /\ k < Len(z) /\ k + 1 \in 1 .. Len(y)
    BY <1>1, <1>3
  <2>2. y[k + 1] = z[k + 1]
    BY <2>1
  <2>3. /\ f[1 .. k + 1] = UnescapeByte(f[1 .. k], y[k + 1])
        /\ g[1 .. k + 1] = UnescapeByte(g[1 .. k], z[k + 1])
    BY <2>1 DEF Reads
  <2> QED BY <1>3, <2>2, <2>3
<1> HIDE DEF Same
<1>4. 0 \in N /\ \A k \in Nat : k \in N => k + 1 \in N
  BY <1>1, <1>2, <1>3
<1>5. Len(y) \in N
  <2> HIDE DEF N
  <2> QED BY <1>1, <1>4, NumbersInduction
<1> QED BY <1>1, <1>5 DEF Same

LEMMA AfterNothing == After(<<>>) = Begun
<1>1. <<>> \in Seq(Byte) /\ Len(<<>>) = 0
  BY EmptySeq
<1> QED BY <1>1, AfterReads DEF Reads

LEMMA AfterAppend ==
    ASSUME NEW z \in Seq(Byte), NEW b \in Byte
    PROVE  After(Append(z, b)) = UnescapeByte(After(z), b)
<1> DEFINE y == Append(z, b)
<1>1. /\ y \in Seq(Byte) /\ Len(y) = Len(z) + 1 /\ Len(z) \in Nat /\ y[Len(y)] = b
      /\ \A i \in 1 .. Len(z) : z[i] = y[i]
  BY AppendProperties, LenProperties
<1> HIDE DEF y
<1>2. PICK f : Reads(z, f) /\ After(z) = f[1 .. Len(z)]
  BY AfterReads
<1>3. PICK g : Reads(y, g) /\ After(y) = g[1 .. Len(y)]
  BY <1>1, AfterReads
<1>4. f[1 .. Len(z)] = g[1 .. Len(z)]
  <2>1. Len(z) <= Len(y)
    BY <1>1
  <2> QED BY <1>1, <1>2, <1>3, <2>1, ReadsUnique
<1>5. g[1 .. Len(z) + 1] = UnescapeByte(g[1 .. Len(z)], y[Len(z) + 1])
  BY <1>1, <1>3 DEF Reads
<1>6. After(y) = UnescapeByte(After(z), b)
  BY <1>1, <1>2, <1>3, <1>4, <1>5
<1> QED BY <1>6 DEF y

LEMMA AfterType == ASSUME NEW z \in Seq(Byte) PROVE After(z) \in Readings
<1> DEFINE S == {y \in Seq(Byte) : After(y) \in Readings}
<1>1. <<>> \in S
  <2>1. Begun \in Readings /\ <<>> \in Seq(Byte)
    BY DEF Readings, Begun
  <2> QED BY <2>1, AfterNothing
<1>2. ASSUME NEW y \in Seq(Byte), NEW b \in Byte, y \in S PROVE Append(y, b) \in S
  BY <1>2, AfterAppend, AppendProperties, UnescapeByteType
<1>3. Seq(Byte) \subseteq S
  <2> HIDE DEF S
  <2> QED BY <1>1, <1>2, AppendInduction
<1> QED BY <1>3
------------------------------------------------------------------------------
(* The checksum is a byte. *)

LEMMA BytesAdd == ASSUME NEW a \in Byte, NEW b \in Byte PROVE (a + b) % 256 \in Byte
BY DEF Byte

LEMMA SumIsByte == ASSUME NEW z \in Seq(Byte) PROVE Sum256(z) \in Byte
<1> DEFINE n == Len(z)
           Steps(iter) ==
             iter = [s \in SUBSET DOMAIN z |->
                       IF s = {} THEN 0
                       ELSE (iter[s \ {Max(s)}] + z[Max(s)]) % 256]
           step == [p \in Byte \X (1 .. n) |-> (p[1] + z[p[2]]) % 256]
<1>1. n \in Nat /\ DOMAIN z = 1 .. n /\ 0 \in Byte
  BY LenProperties DEF Byte
<1>2. \A v \in Byte, i \in 1 .. n :
         step[<<v, i>>] = (v + z[i]) % 256 /\ step[<<v, i>>] \in Byte
  <2> TAKE v \in Byte, i \in 1 .. n
  <2>1. z[i] \in Byte
    BY ElementOfSeq
  <2>4. (v + z[i]) % 256 \in Byte
    BY <2>1, BytesAdd
  <2>3. step[<<v, i>>] = (v + z[i]) % 256
    OBVIOUS
  <2> QED BY <2>3, <2>4
<1> HIDE DEF n, step
<1>3. PICK g \in [SUBSET (1 .. n) -> Byte] : Folds(g, 0, step, n)
  BY <1>1, <1>2, FoldExists
<1>4. ASSUME NEW s \in SUBSET (1 .. n)
      PROVE  g[s] = IF s = {} THEN 0 ELSE (g[s \ {Max(s)}] + z[Max(s)]) % 256
  <2>1. CASE s # {}
    <3>1. Max(s) \in 1 .. n
      BY <1>1, <2>1, MaxOf
    <3>2. g[s \ {Max(s)}] \in Byte
      OBVIOUS
    <3>3. g[s] = step[<<g[s \ {Max(s)}], Max(s)>>]
      BY <1>3, <2>1 DEF Folds
    <3> QED BY <1>2, <2>1, <3>1, <3>2, <3>3
  <2>2. CASE s = {}
    BY <1>3, <2>2 DEF Folds
  <2> QED BY <2>1, <2>2
<1>5. Steps(g)
  BY <1>1, <1>4
<1>6. Steps(CHOOSE iter : Steps(iter)) /\ Sum256(z) = (CHOOSE iter : Steps(iter))[DOMAIN z]
  <2>1. Steps(CHOOSE iter : Steps(iter))
    BY <1>5
  <2>2. Sum256(z) = (CHOOSE iter : Steps(iter))[DOMAIN z]
    BY DEF Sum256, FoldLeft, MapThenFoldSet
  <2> QED BY <2>1, <2>2
<1>7. PICK iter : Steps(iter) /\ Sum256(z) = iter[1 .. n]
  BY <1>1, <1>6
<1> DEFINE IsByte(k) == iter[1 .. k] \in Byte
           N == {k \in Nat : k <= n => IsByte(k)}
<1>8. IsByte(0)
  <2>1. 1 .. 0 = {} /\ {} \in SUBSET DOMAIN z
    OBVIOUS
  <2> QED BY <1>1, <1>7, <2>1
<1>9. ASSUME NEW k \in Nat, k + 1 <= n, IsByte(k) PROVE IsByte(k + 1)
  <2>1. /\ Max(1 .. k + 1) = k + 1 /\ (1 .. k + 1) \ {k + 1} = 1 .. k
        /\ 1 .. k + 1 # {} /\ 1 .. k + 1 \in SUBSET DOMAIN z
    <3>1. 1 .. k + 1 \in SUBSET (1 .. n)
      BY <1>1, <1>9
    <3> QED BY <1>1, <3>1, MaxOfInterval
  <2>2. iter[1 .. k + 1] = (iter[1 .. k] + z[k + 1]) % 256
    <3>1. iter[1 .. k + 1] = (iter[(1 .. k + 1) \ {Max(1 .. k + 1)}] + z[Max(1 .. k + 1)]) % 256
      BY <1>7, <2>1
    <3> QED BY <2>1, <3>1
  <2>3. k + 1 \in 1 .. n
    BY <1>1, <1>9
  <2>4. (iter[1 .. k] + z[k + 1]) % 256 \in Byte
    <3>1. z[k + 1] \in Byte
      BY <2>3, ElementOfSeq DEF n
    <3> QED BY <1>9, <3>1, BytesAdd DEF IsByte
  <2> QED BY <2>2, <2>4
<1> HIDE DEF IsByte
<1>10. 0 \in N /\ \A k \in Nat : k \in N => k + 1 \in N
  BY <1>1, <1>8, <1>9
<1>11. n \in N
  <2> HIDE DEF N
  <2> QED BY <1>1, <1>10, NumbersInduction
<1> QED BY <1>1, <1>7, <1>11 DEF IsByte
------------------------------------------------------------------------------
(* _escape, byte by byte. *)

\* f flattens the first k members of c.
Flat(f, c, k) == f = [i \in 1 .. k |-> IF i = 1 THEN c[i] ELSE f[i - 1] \o c[i]]

LEMMA FlatAt ==
    ASSUME NEW c, NEW n, NEW f, Flat(f, c, n), NEW i \in 1 .. n
    PROVE  f[i] = IF i = 1 THEN c[i] ELSE f[i - 1] \o c[i]
<1> DEFINE g == [j \in 1 .. n |-> IF j = 1 THEN c[j] ELSE f[j - 1] \o c[j]]
<1>1. f = g
  BY DEF Flat
<1>2. g[i] = IF i = 1 THEN c[i] ELSE f[i - 1] \o c[i]
  OBVIOUS
<1> HIDE DEF g
<1> QED BY <1>1, <1>2

LEMMA FlatExists == ASSUME NEW c, NEW n \in Nat PROVE \E f : Flat(f, c, n)
<1> DEFINE HasFlat(k) == \E f : Flat(f, c, k)
           N == {k \in Nat : HasFlat(k)}
<1>1. HasFlat(0)
  <2> DEFINE f == [i \in 1 .. 0 |-> c[i]]
  <2>1. 1 .. 0 = {}
    OBVIOUS
  <2>2. Flat(f, c, 0)
    BY <2>1 DEF Flat
  <2> QED BY <2>2
<1>2. ASSUME NEW k \in Nat, HasFlat(k) PROVE HasFlat(k + 1)
  <2>1. PICK f : Flat(f, c, k)
    BY <1>2
  <2> DEFINE g == [i \in 1 .. k + 1 |->
                     IF i = k + 1 THEN IF i = 1 THEN c[i] ELSE f[k] \o c[i] ELSE f[i]]
  <2>2. ASSUME NEW i \in 1 .. k + 1 PROVE g[i] = IF i = 1 THEN c[i] ELSE g[i - 1] \o c[i]
    <3>1. CASE i = k + 1 /\ i # 1
      <4>1. k \in 1 .. k + 1 /\ k # k + 1 /\ i - 1 = k
        BY <3>1
      <4>2. g[k] = f[k]
        BY <4>1
      <4> QED BY <3>1, <4>1, <4>2
    <3>2. CASE i = k + 1 /\ i = 1
      BY <3>2
    <3>3. CASE i # k + 1
      <4>1. i \in 1 .. k /\ (i # 1 => i - 1 \in 1 .. k + 1 /\ i - 1 # k + 1)
        BY <3>3
      <4>2. g[i] = f[i] /\ (i # 1 => g[i - 1] = f[i - 1])
        BY <3>3, <4>1
      <4>3. f[i] = IF i = 1 THEN c[i] ELSE f[i - 1] \o c[i]
        BY <2>1, <4>1 DEF Flat
      <4> QED BY <4>2, <4>3
    <3> QED BY <3>1, <3>2, <3>3
  <2>3. g = [i \in 1 .. k + 1 |-> g[i]]
    OBVIOUS
  <2> HIDE DEF g
  <2>4. Flat(g, c, k + 1)
    BY <2>2, <2>3 DEF Flat
  <2> QED BY <2>4
<1> HIDE DEF HasFlat
<1>3. 0 \in N /\ \A k \in Nat : k \in N => k + 1 \in N
  BY <1>1, <1>2
<1>4. n \in N
  <2> HIDE DEF N
  <2> QED BY <1>3, NumbersInduction
<1> QED BY <1>4 DEF HasFlat

LEMMA FlatUnique ==
    ASSUME NEW m \in Nat, NEW n \in Nat, m <= n,
           NEW c, NEW d, \A i \in 1 .. m : c[i] = d[i],
           NEW f, Flat(f, c, m), NEW g, Flat(g, d, n)
    PROVE  \A i \in 1 .. m : f[i] = g[i]
<1> DEFINE Same(k) == f[k] = g[k]
           N == {k \in Nat : k \in 1 .. m => Same(k)}
<1>1. ASSUME NEW k \in Nat, k \in 1 .. m => Same(k), k + 1 \in 1 .. m PROVE Same(k + 1)
  <2>1. k + 1 \in 1 .. n /\ c[k + 1] = d[k + 1]
    BY <1>1
  <2>2. /\ f[k + 1] = IF k + 1 = 1 THEN c[k + 1] ELSE f[k + 1 - 1] \o c[k + 1]
        /\ g[k + 1] = IF k + 1 = 1 THEN d[k + 1] ELSE g[k + 1 - 1] \o d[k + 1]
    BY <1>1, <2>1, FlatAt
  <2>3. CASE k = 0
    BY <2>1, <2>2, <2>3
  <2>4. CASE k # 0
    <3>1. k \in 1 .. m /\ k + 1 - 1 = k
      BY <1>1, <2>4
    <3> QED BY <1>1, <2>1, <2>2, <2>4, <3>1
  <2> QED BY <2>3, <2>4
<1> HIDE DEF Same
<1>2. 0 \in N /\ \A k \in Nat : k \in N => k + 1 \in N
  BY <1>1
<1>3. Nat \subseteq N
  <2> HIDE DEF N
  <2> QED BY <1>2, NumbersInduction
<1> QED BY <1>3 DEF Same

LEMMA FlattenIsFlat ==
    ASSUME NEW c, Len(c) \in Nat, Len(c) # 0
    PROVE  \E f : Flat(f, c, Len(c)) /\ FlattenSeq(c) = f[Len(c)]
<1> DEFINE g == CHOOSE f : f = [i \in 1 .. Len(c) |-> IF i = 1 THEN c[i] ELSE f[i - 1] \o c[i]]
<1>1. FlattenSeq(c) = g[Len(c)]
  BY DEF FlattenSeq
<1>2. \E f : f = [i \in 1 .. Len(c) |-> IF i = 1 THEN c[i] ELSE f[i - 1] \o c[i]]
  BY FlatExists DEF Flat
<1>3. Flat(g, c, Len(c))
  BY <1>2 DEF Flat
<1> QED BY <1>1, <1>3

LEMMA FlattenNext ==
    ASSUME NEW p, NEW q, Len(p) \in Nat,
           Len(q) = Len(p) + 1, \A i \in 1 .. Len(p) : p[i] = q[i]
    PROVE  FlattenSeq(q) = IF Len(p) = 0 THEN q[Len(q)] ELSE FlattenSeq(p) \o q[Len(q)]
<1> DEFINE l == Len(p)
           k == Len(q)
<1>1. /\ l \in Nat /\ k \in Nat /\ k \in 1 .. k /\ k - 1 = l /\ k # 0 /\ l <= k
      /\ \A i \in 1 .. l : p[i] = q[i]
  OBVIOUS
<1> HIDE DEF l, k
<1>2. PICK g : Flat(g, q, k) /\ FlattenSeq(q) = g[k]
  BY <1>1, FlattenIsFlat DEF k
<1>3. g[k] = IF k = 1 THEN q[k] ELSE g[k - 1] \o q[k]
  BY <1>1, <1>2, FlatAt
<1>4. CASE l = 0
  BY <1>1, <1>2, <1>3, <1>4 DEF l, k
<1>5. CASE l # 0
  <2>1. PICK f : Flat(f, p, l) /\ FlattenSeq(p) = f[l]
    BY <1>1, <1>5, FlattenIsFlat DEF l
  <2>2. l \in 1 .. l /\ k # 1
    BY <1>1, <1>5
  <2>3. \A i \in 1 .. l : f[i] = g[i]
    BY ONLY <1>1, <1>2, <2>1, FlatUnique
  <2> QED BY <1>1, <1>2, <1>3, <1>5, <2>1, <2>2, <2>3 DEF l, k
<1> QED BY <1>4, <1>5

LEMMA FlattenAppend ==
    ASSUME NEW B, NEW p \in Seq(Seq(B)), NEW b \in Seq(B)
    PROVE  FlattenSeq(Append(p, b)) = FlattenSeq(p) \o b
<1> DEFINE q == Append(p, b)
           n == Len(p)
<1>1. /\ Len(q) = n + 1 /\ n \in Nat /\ q[n + 1] = b
      /\ \A i \in 1 .. n : p[i] = q[i]
  BY AppendProperties, LenProperties
<1> HIDE DEF q
<1>2. FlattenSeq(q) = IF n = 0 THEN q[Len(q)] ELSE FlattenSeq(p) \o q[Len(q)]
  BY <1>1, FlattenNext
<1>3. CASE n = 0
  <2>1. p = <<>>
    BY <1>3, EmptySeq
  <2>2. FlattenSeq(p) = <<>>
    BY <2>1 DEF FlattenSeq
  <2>3. <<>> \o b = b
    BY ConcatEmptySeq
  <2> QED BY <1>1, <1>2, <1>3, <2>2, <2>3 DEF q
<1>4. CASE n # 0
  BY <1>1, <1>2, <1>4 DEF q
<1> QED BY <1>3, <1>4

LEMMA FlattenNothing == FlattenSeq(<<>>) = <<>>
BY DEF FlattenSeq

LEMMA FlattenType ==
    ASSUME NEW B, NEW c \in Seq(Seq(B))
    PROVE  FlattenSeq(c) \in Seq(B)
<1> DEFINE S == {d \in Seq(Seq(B)) : FlattenSeq(d) \in Seq(B)}
<1>1. <<>> \in S
  BY EmptySeq, FlattenNothing
<1>2. ASSUME NEW d \in Seq(Seq(B)), NEW x \in Seq(B), d \in S PROVE Append(d, x) \in S
  BY <1>2, FlattenAppend, AppendProperties, ConcatProperties
<1>3. Seq(Seq(B)) \subseteq S
  <2> HIDE DEF S
  <2> QED BY <1>1, <1>2, AppendInduction
<1> QED BY <1>3

LEMMA FlattenHead ==
    ASSUME NEW B, NEW c \in Seq(Seq(B)), c # <<>>
    PROVE  FlattenSeq(c) = Head(c) \o FlattenSeq(Tail(c))
<1> DEFINE S == {d \in Seq(Seq(B)) :
                   d # <<>> => FlattenSeq(d) = Head(d) \o FlattenSeq(Tail(d))}
<1>1. <<>> \in S
  BY EmptySeq
<1>2. ASSUME NEW d \in Seq(Seq(B)), NEW x \in Seq(B), d \in S PROVE Append(d, x) \in S
  <2>1. Append(d, x) \in Seq(Seq(B)) /\ FlattenSeq(Append(d, x)) = FlattenSeq(d) \o x
    BY FlattenAppend, AppendProperties
  <2>2. CASE d = <<>>
    <3>1. Head(Append(d, x)) = x /\ Tail(Append(d, x)) = <<>>
      BY <2>2, HeadTailAppend
    <3>2. <<>> \o x = x /\ x \o <<>> = x
      BY ConcatEmptySeq
    <3> QED BY <2>1, <2>2, <3>1, <3>2, FlattenNothing
  <2>3. CASE d # <<>>
    <3>1. Head(Append(d, x)) = Head(d) /\ Tail(Append(d, x)) = Append(Tail(d), x)
      BY <2>3, HeadTailAppend
    <3>2. Head(d) \in Seq(B) /\ Tail(d) \in Seq(Seq(B)) /\ FlattenSeq(Tail(d)) \in Seq(B)
      BY <2>3, HeadTailProperties, FlattenType
    <3>3. FlattenSeq(Append(Tail(d), x)) = FlattenSeq(Tail(d)) \o x
      BY <3>2, FlattenAppend
    <3>4. (Head(d) \o FlattenSeq(Tail(d))) \o x = Head(d) \o (FlattenSeq(Tail(d)) \o x)
      <4>1. \A s, r, u \in Seq(B) : (s \o r) \o u = s \o (r \o u)
        BY ConcatAssociative
      <4> QED BY <3>2, <4>1
    <3> QED BY <1>2, <2>1, <2>3, <3>1, <3>3, <3>4
  <2> QED BY <2>2, <2>3
<1>3. Seq(Seq(B)) \subseteq S
  <2> HIDE DEF S
  <2> QED BY <1>1, <1>2, AppendInduction
<1> QED BY <1>3

\* What _escape puts in the place of a byte.
Code(b) == IF b \in DOMAIN Escaped THEN <<ESCAPE, Escaped[b]>> ELSE <<b>>

\* What _escape joins.
Codes(p) ==
    [n \in 1 .. Len(p) |-> IF p[n] \in DOMAIN Escaped THEN <<ESCAPE, Escaped[p[n]]>> ELSE <<p[n]>>]

LEMMA CodeType ==
    ASSUME NEW b \in Byte
    PROVE  /\ Code(b) \in Seq(Byte \ {START, STOP})
           /\ Code(b) \in Seq(Byte)
           /\ b \notin DOMAIN Escaped => Code(b) = <<b>>
<1>1. CASE b \in DOMAIN Escaped
  <2>1. Escaped[b] \in {0, 126, 127} /\ ESCAPE = 128
    BY <1>1, EscapedBytes DEF ESCAPE
  <2>2. {0, 126, 127, 128} \subseteq Byte \ {START, STOP}
    BY DEF Byte, START, STOP
  <2>3. Code(b) = <<ESCAPE, Escaped[b]>>
    BY <1>1 DEF Code
  <2> QED BY <1>1, <2>1, <2>2, <2>3
<1>2. CASE b \notin DOMAIN Escaped
  <2>1. b \in Byte \ {START, STOP}
    BY <1>2, EscapedBytes DEF START, STOP
  <2>2. Code(b) = <<b>>
    BY <1>2 DEF Code
  <2> QED BY <2>1, <2>2
<1> QED BY <1>1, <1>2

LEMMA CodesOf ==
    ASSUME NEW p \in Seq(Byte)
    PROVE  /\ Codes(p) \in Seq(Seq(Byte))
           /\ Len(Codes(p)) = Len(p)
           /\ \A n \in 1 .. Len(p) : Codes(p)[n] = Code(p[n])
           /\ _escape(p) = FlattenSeq(Codes(p))
<1>1. Len(p) \in Nat
  BY LenProperties
<1>2. Codes(p) = [n \in 1 .. Len(p) |-> Code(p[n])]
  BY DEF Codes, Code
<1>3. \A n \in 1 .. Len(p) : Code(p[n]) \in Seq(Byte)
  BY ElementOfSeq, CodeType
<1>4. Codes(p) \in Seq(Seq(Byte)) /\ Len(Codes(p)) = Len(p)
  BY <1>1, <1>2, <1>3
<1>5. \A n \in 1 .. Len(p) : Codes(p)[n] = Code(p[n])
  BY <1>2
<1>6. _escape(p) = FlattenSeq(Codes(p))
  BY DEF Codes, _escape
<1> QED BY <1>4, <1>5, <1>6

LEMMA EscapeNothing == _escape(<<>>) = <<>>
<1>1. <<>> \in Seq(Byte) /\ Len(<<>>) = 0
  BY EmptySeq
<1>2. Codes(<<>>) = <<>>
  BY <1>1 DEF Codes
<1> QED BY <1>1, <1>2, CodesOf, FlattenNothing

LEMMA EscapeAppend ==
    ASSUME NEW p \in Seq(Byte), NEW b \in Byte
    PROVE  _escape(Append(p, b)) = _escape(p) \o Code(b)
<1> DEFINE q == Append(p, b)
           c == Codes(p)
           d == Codes(q)
<1>1. /\ q \in Seq(Byte) /\ Len(q) = Len(p) + 1 /\ Len(p) \in Nat /\ q[Len(p) + 1] = b
      /\ \A i \in 1 .. Len(p) : q[i] = p[i] /\ i \in 1 .. Len(q)
  BY AppendProperties, LenProperties
<1> HIDE DEF q
<1>2. /\ c \in Seq(Seq(Byte)) /\ Len(c) = Len(p) /\ \A i \in 1 .. Len(p) : c[i] = Code(p[i])
      /\ d \in Seq(Seq(Byte)) /\ Len(d) = Len(q) /\ \A i \in 1 .. Len(q) : d[i] = Code(q[i])
      /\ _escape(p) = FlattenSeq(c) /\ _escape(q) = FlattenSeq(d)
  BY <1>1, CodesOf
<1> HIDE DEF c, d
<1>3. d = Append(c, Code(b))
  <2> DEFINE e == Append(c, Code(b))
  <2>1. /\ e \in Seq(Seq(Byte)) /\ Len(e) = Len(c) + 1 /\ e[Len(c) + 1] = Code(b)
        /\ \A i \in 1 .. Len(c) : e[i] = c[i]
    BY <1>2, CodeType, AppendProperties
  <2> HIDE DEF e
  <2>2. ASSUME NEW i \in 1 .. Len(d) PROVE d[i] = e[i]
    <3>1. CASE i = Len(p) + 1
      BY <1>1, <1>2, <2>1, <3>1
    <3>2. CASE i \in 1 .. Len(p)
      BY <1>1, <1>2, <2>1, <3>2
    <3> QED BY <1>1, <1>2, <3>1, <3>2
  <2>3. d = e
    BY <1>1, <1>2, <2>1, <2>2, SeqEqual
  <2> QED BY <2>3 DEF e
<1> QED BY <1>2, <1>3, CodeType, FlattenAppend DEF q

\* An escaped sequence has neither START nor STOP in it.
LEMMA EscapeType ==
    ASSUME NEW p \in Seq(Byte)
    PROVE  _escape(p) \in Seq(Byte \ {START, STOP}) /\ _escape(p) \in Seq(Byte)
<1> DEFINE S == {q \in Seq(Byte) : _escape(q) \in Seq(Byte \ {START, STOP})}
<1>1. <<>> \in S
  BY EmptySeq, EscapeNothing
<1>2. ASSUME NEW q \in Seq(Byte), NEW b \in Byte, q \in S PROVE Append(q, b) \in S
  <2>1. _escape(q) \o Code(b) \in Seq(Byte \ {START, STOP})
    BY <1>2, CodeType, ConcatProperties
  <2> QED BY <2>1, EscapeAppend, AppendProperties
<1>3. Seq(Byte) \subseteq S
  <2> HIDE DEF S
  <2> QED BY <1>1, <1>2, AppendInduction
<1>4. _escape(p) \in Seq(Byte \ {START, STOP})
  BY <1>3
<1>5. Byte \ {START, STOP} \subseteq Byte
  OBVIOUS
<1> QED BY <1>4, <1>5, SeqMonotonic

LEMMA EscapeConcat ==
    ASSUME NEW p \in Seq(Byte), NEW q \in Seq(Byte)
    PROVE  _escape(p \o q) = _escape(p) \o _escape(q)
<1> DEFINE S == {r \in Seq(Byte) : _escape(p \o r) = _escape(p) \o _escape(r)}
<1>1. <<>> \in S
  <2>1. p \o <<>> = p /\ _escape(p) \o <<>> = _escape(p) /\ <<>> \in Seq(Byte)
    BY ConcatEmptySeq, EscapeType, EmptySeq
  <2> QED BY <2>1, EscapeNothing
<1>2. ASSUME NEW r \in Seq(Byte), NEW b \in Byte, r \in S PROVE Append(r, b) \in S
  <2>1. p \o Append(r, b) = Append(p \o r, b)
    <3>1. <<b>> \in Seq(Byte) /\ p \o r \in Seq(Byte)
      BY ConcatProperties
    <3>2. Append(r, b) = r \o <<b>> /\ Append(p \o r, b) = (p \o r) \o <<b>>
      BY <3>1, AppendIsConcat
    <3> QED BY <3>1, <3>2, ConcatAssociative
  <2>2. _escape(Append(p \o r, b)) = _escape(p \o r) \o Code(b)
    BY EscapeAppend, ConcatProperties
  <2>3. (_escape(p) \o _escape(r)) \o Code(b) = _escape(p) \o (_escape(r) \o Code(b))
    <3>1. /\ _escape(p) \in Seq(Byte) /\ _escape(r) \in Seq(Byte)
          /\ Code(b) \in Seq(Byte)
      BY EscapeType, CodeType
    <3> QED BY <3>1, ConcatAssociative
  <2>4. _escape(Append(r, b)) = _escape(r) \o Code(b) /\ Append(r, b) \in Seq(Byte)
    BY EscapeAppend, AppendProperties
  <2> QED BY <1>2, <2>1, <2>2, <2>3, <2>4
<1>3. Seq(Byte) \subseteq S
  <2> HIDE DEF S
  <2> QED BY <1>1, <1>2, AppendInduction
<1> QED BY <1>3

\* _unescape takes _escape back.
LEMMA AfterEscape ==
    ASSUME NEW p \in Seq(Byte)
    PROVE  After(_escape(p)) = [escape |-> FALSE, out |-> p]
<1> DEFINE S == {q \in Seq(Byte) : After(_escape(q)) = [escape |-> FALSE, out |-> q]}
<1>1. <<>> \in S
  BY EmptySeq, EscapeNothing, AfterNothing DEF Begun
<1>2. ASSUME NEW q \in Seq(Byte), NEW b \in Byte, q \in S PROVE Append(q, b) \in S
  <2> DEFINE e == _escape(q)
  <2>1. e \in Seq(Byte) /\ After(e) = [escape |-> FALSE, out |-> q]
    BY <1>2, EscapeType
  <2>2. _escape(Append(q, b)) = e \o Code(b) /\ Append(q, b) \in Seq(Byte)
    BY EscapeAppend, AppendProperties
  <2> HIDE DEF e
  <2>3. CASE b \notin DOMAIN Escaped
    <3>1. e \o Code(b) = Append(e, b)
      BY <2>1, <2>3, CodeType, AppendIsConcat
    <3>2. b # ESCAPE
      BY <2>3, EscapedBytes DEF ESCAPE
    <3>3. UnescapeByte(After(e), b) = [escape |-> FALSE, out |-> Append(q, b)]
      BY <2>1, <3>2, UnescapeByteCases
    <3> QED BY <2>1, <2>2, <3>1, <3>3, AfterAppend
  <2>4. CASE b \in DOMAIN Escaped
    <3> DEFINE c == Escaped[b]
    <3>1. ESCAPE \in Byte /\ c \in Byte /\ Code(b) = <<ESCAPE, c>>
      <4>1. c \in {0, 126, 127} /\ ESCAPE = 128
        BY <2>4, EscapedBytes DEF ESCAPE
      <4>2. {0, 126, 127, 128} \subseteq Byte
        BY DEF Byte
      <4> QED BY <2>4, <4>1, <4>2 DEF Code
    <3>2. UnescapeByte([escape |-> TRUE, out |-> q], c) = [escape |-> FALSE, out |-> Append(q, b)]
      BY <2>4, UnescapeByteCases
    <3> HIDE DEF c
    <3>4. e \o Code(b) = Append(Append(e, ESCAPE), c) /\ Append(e, ESCAPE) \in Seq(Byte)
      <4>1. <<ESCAPE, c>> = <<ESCAPE>> \o <<c>> /\ <<ESCAPE>> \in Seq(Byte) /\ <<c>> \in Seq(Byte)
        BY <3>1
      <4>2. Append(e, ESCAPE) = e \o <<ESCAPE>> /\ Append(e, ESCAPE) \in Seq(Byte)
        BY <2>1, <3>1, AppendIsConcat, AppendProperties
      <4>3. Append(Append(e, ESCAPE), c) = Append(e, ESCAPE) \o <<c>>
        BY <3>1, <4>2, AppendIsConcat
      <4>4. (e \o <<ESCAPE>>) \o <<c>> = e \o (<<ESCAPE>> \o <<c>>)
        BY <2>1, <4>1, ConcatAssociative
      <4> QED BY <3>1, <4>1, <4>2, <4>3, <4>4
    <3>5. After(Append(e, ESCAPE)) = [escape |-> TRUE, out |-> q]
      <4>1. UnescapeByte(After(e), ESCAPE) = [escape |-> TRUE, out |-> q]
        BY <2>1, UnescapeByteCases
      <4> QED BY <2>1, <3>1, <4>1, AfterAppend
    <3>6. After(e \o Code(b)) = UnescapeByte(After(Append(e, ESCAPE)), c)
      BY <3>1, <3>4, AfterAppend
    <3> QED BY <2>2, <3>2, <3>5, <3>6
  <2> QED BY <2>3, <2>4
<1>3. Seq(Byte) \subseteq S
  <2> HIDE DEF S
  <2> QED BY <1>1, <1>2, AppendInduction
<1> QED BY <1>3

LEMMA UnescapeEscape == ASSUME NEW p \in Seq(Byte) PROVE _unescape(_escape(p)) = p
<1>1. FoldLeft(UnescapeByte, [escape |-> FALSE, out |-> <<>>], _escape(p)) = [escape |-> FALSE, out |-> p]
  BY AfterEscape DEF After, Begun
<1> QED BY <1>1 DEF _unescape
------------------------------------------------------------------------------
(* A frame and what precedes it. *)

LEMMA ConcatParts ==
    ASSUME NEW B, NEW s \in Seq(B), NEW t \in Seq(B)
    PROVE  /\ s \o t \in Seq(B) /\ Len(s \o t) = Len(s) + Len(t)
           /\ Len(s) \in Nat /\ Len(t) \in Nat
           /\ \A i \in 1 .. Len(s) : (s \o t)[i] = s[i]
           /\ \A i \in 1 .. Len(t) : (s \o t)[Len(s) + i] = t[i]
<1>1. Len(s) \in Nat /\ Len(t) \in Nat
  BY LenProperties
<1>2. \A i \in 1 .. Len(s) : (s \o t)[i] = s[i]
  <2> TAKE i \in 1 .. Len(s)
  <2>1. i \in 1 .. Len(s) + Len(t) /\ i <= Len(s)
    BY <1>1
  <2> QED BY <2>1, ConcatProperties
<1>3. \A i \in 1 .. Len(t) : (s \o t)[Len(s) + i] = t[i]
  <2> TAKE i \in 1 .. Len(t)
  <2>1. Len(s) + i \in 1 .. Len(s) + Len(t) /\ ~(Len(s) + i <= Len(s)) /\ Len(s) + i - Len(s) = i
    BY <1>1
  <2> QED BY <2>1, ConcatProperties
<1> QED BY <1>1, <1>2, <1>3, ConcatProperties

\* What is escaped between START and STOP.
Content(address, body) == (<<address>> \o body) \o <<Sum256(<<address>> \o body)>>

LEMMA FrameShape ==
    ASSUME NEW a \in Byte, NEW p \in Seq(Byte)
    PROVE  /\ Content(a, p) \in Seq(Byte)
           /\ build_frame(a, p) = (<<START>> \o _escape(Content(a, p))) \o <<STOP>>
<1> DEFINE s == Sum256(<<a>> \o p)
           ea == _escape(<<a>>)
           ep == _escape(p)
           es == _escape(<<s>>)
<1>1. /\ <<a>> \in Seq(Byte) /\ <<a>> \o p \in Seq(Byte) /\ <<s>> \in Seq(Byte)
      /\ Content(a, p) = (<<a>> \o p) \o <<s>> /\ Content(a, p) \in Seq(Byte)
  <2>1. <<a>> \in Seq(Byte) /\ <<a>> \o p \in Seq(Byte)
    BY ConcatProperties
  <2>2. s \in Byte
    BY <2>1, SumIsByte
  <2>3. Content(a, p) = (<<a>> \o p) \o <<s>>
    BY DEF Content
  <2> HIDE DEF s
  <2>4. <<s>> \in Seq(Byte)
    BY <2>2
  <2> QED BY <2>1, <2>3, <2>4, ConcatProperties
<1>2. build_frame(a, p) = (((<<START>> \o ea) \o ep) \o es) \o <<STOP>>
  BY DEF build_frame
<1> HIDE DEF s
<1>3. ea \in Seq(Byte) /\ ep \in Seq(Byte) /\ es \in Seq(Byte)
  BY <1>1, EscapeType
<1>4. _escape(Content(a, p)) = (ea \o ep) \o es
  BY <1>1, EscapeConcat
<1> HIDE DEF ea, ep, es
<1>5. <<START>> \in Seq(Byte) /\ ea \o ep \in Seq(Byte)
  BY <1>3, ConcatProperties DEF START, Byte
<1>6. ((<<START>> \o ea) \o ep) \o es = <<START>> \o ((ea \o ep) \o es)
  <2>1. (<<START>> \o ea) \o ep = <<START>> \o (ea \o ep)
    BY <1>3, <1>5, ConcatAssociative
  <2>2. (<<START>> \o (ea \o ep)) \o es = <<START>> \o ((ea \o ep) \o es)
    BY <1>3, <1>5, ConcatAssociative
  <2> QED BY <2>1, <2>2
<1> QED BY <1>1, <1>2, <1>4, <1>6

LEMMA FrameIsBytes ==
    ASSUME NEW a \in Byte, NEW p \in Seq(Byte)
    PROVE  build_frame(a, p) \in Seq(Byte)
<1> DEFINE e == _escape(Content(a, p))
<1>1. e \in Seq(Byte) /\ build_frame(a, p) = (<<START>> \o e) \o <<STOP>>
  BY FrameShape, EscapeType
<1> HIDE DEF e
<1>2. <<START>> \in Seq(Byte) /\ <<STOP>> \in Seq(Byte)
  BY DEF START, STOP, Byte
<1> QED BY <1>1, <1>2, ConcatProperties

\* A frame behind noise: its one STOP is its last byte, its last START is
\* behind the noise, and the escaped content is in between.
Framed(raw, u, e) ==
    /\ e \in Seq(Byte \ {START, STOP})
    /\ raw \in Seq(Byte) /\ Len(raw) = u + Len(e) + 2
    /\ \A i \in 1 .. u : raw[i] # STOP
    /\ raw[u + 1] = START
    /\ \A i \in 1 .. Len(e) : raw[u + 1 + i] = e[i]
    /\ raw[Len(raw)] = STOP

LEMMA ChunkShape ==
    ASSUME NEW noise \in Seq(Byte \ {STOP}), NEW a \in Byte, NEW p \in Seq(Byte),
           NEW raw, raw = noise \o build_frame(a, p)
    PROVE  Framed(raw, Len(noise), _escape(Content(a, p)))
<1> DEFINE e == _escape(Content(a, p))
           f == build_frame(a, p)
           u == Len(noise)
           m == Len(e)
<1>1. e \in Seq(Byte \ {START, STOP}) /\ e \in Seq(Byte) /\ f = (<<START>> \o e) \o <<STOP>>
  BY FrameShape, EscapeType
<1> HIDE DEF e, f
<1>2. <<START>> \in Seq(Byte) /\ <<STOP>> \in Seq(Byte) /\ noise \in Seq(Byte)
  <2>1. Byte \ {STOP} \subseteq Byte /\ START \in Byte /\ STOP \in Byte
    BY DEF START, STOP, Byte
  <2>2. noise \in Seq(Byte)
    BY <2>1, SeqMonotonic
  <2> QED BY <2>1, <2>2
<1>3. m \in Nat /\ u \in Nat
  BY <1>1, <1>2, LenProperties
<1>4. /\ <<START>> \o e \in Seq(Byte) /\ Len(<<START>> \o e) = m + 1
      /\ (<<START>> \o e)[1] = START
      /\ \A i \in 1 .. m : (<<START>> \o e)[i + 1] = e[i]
  BY <1>1, <1>2, <1>3, ConcatProperties
<1>5. /\ f \in Seq(Byte) /\ Len(f) = m + 2 /\ f[1] = START /\ f[m + 2] = STOP
      /\ \A i \in 1 .. m : f[i + 1] = e[i]
  <2> DEFINE g == <<START>> \o e
  <2>1. g \in Seq(Byte) /\ Len(g) = m + 1 /\ g[1] = START /\ \A i \in 1 .. m : g[i + 1] = e[i]
    BY <1>4
  <2>2. f = g \o <<STOP>>
    BY <1>1
  <2> HIDE DEF g
  <2>3. /\ f \in Seq(Byte) /\ Len(f) = m + 2
        /\ \A i \in 1 .. m + 1 : f[i] = g[i]
        /\ f[m + 2] = STOP
    BY <1>2, <1>3, <2>1, <2>2, ConcatProperties
  <2> QED BY <1>3, <2>1, <2>3
<1>6. /\ raw \in Seq(Byte) /\ Len(raw) = u + m + 2
      /\ \A i \in 1 .. u : raw[i] = noise[i]
      /\ \A i \in 1 .. m + 2 : raw[u + i] = f[i]
  <2>1. raw = noise \o f
    BY DEF f
  <2>2. noise \in Seq(Byte) /\ f \in Seq(Byte)
    BY <1>2, <1>5
  <2>3. /\ raw \in Seq(Byte) /\ Len(raw) = Len(noise) + Len(f)
        /\ \A i \in 1 .. Len(noise) : raw[i] = noise[i]
        /\ \A i \in 1 .. Len(f) : raw[Len(noise) + i] = f[i]
    BY ONLY <2>1, <2>2, ConcatParts
  <2> QED BY <1>3, <1>5, <2>3
<1>7. \A i \in 1 .. u : raw[i] # STOP
  BY <1>6, ElementOfSeq
<1> HIDE DEF u, m
<1>8. raw[u + 1] = START /\ raw[u + m + 2] = STOP
  <2>1. 1 \in 1 .. m + 2 /\ m + 2 \in 1 .. m + 2 /\ u + (m + 2) = u + m + 2
    BY ONLY <1>3
  <2> QED BY ONLY <1>5, <1>6, <2>1
<1>9. \A i \in 1 .. m : raw[u + 1 + i] = e[i]
  <2> TAKE i \in 1 .. m
  <2>1. i + 1 \in 1 .. m + 2 /\ u + (i + 1) = u + 1 + i
    BY ONLY <1>3
  <2> QED BY ONLY <1>5, <1>6, <2>1
<1>10. Framed(raw, u, e)
  BY <1>1, <1>3, <1>6, <1>7, <1>8, <1>9 DEF Framed, m
<1> QED BY <1>10 DEF e, u

\* readuntil finds the end of the frame, whatever follows.
LEMMA ChunkEnds ==
    ASSUME NEW noise \in Seq(Byte \ {STOP}), NEW a \in Byte, NEW p \in Seq(Byte),
           NEW raw, raw = noise \o build_frame(a, p), NEW rest \in Seq(Byte)
    PROVE  /\ raw \in Seq(Byte) /\ Len(raw) \in Nat \ {0}
           /\ SelectInSeq(raw \o rest, LAMBDA b : b = STOP) = Len(raw)
<1> DEFINE e == _escape(Content(a, p))
<1>1. /\ e \in Seq(Byte \ {START, STOP})
      /\ raw \in Seq(Byte) /\ Len(raw) = Len(noise) + Len(e) + 2
      /\ \A i \in 1 .. Len(noise) : raw[i] # STOP
      /\ raw[Len(noise) + 1] = START
      /\ \A i \in 1 .. Len(e) : raw[Len(noise) + 1 + i] = e[i]
      /\ raw[Len(raw)] = STOP
  <2>1. Framed(raw, Len(noise), e)
    BY ChunkShape
  <2> HIDE DEF e
  <2> QED BY <2>1 DEF Framed
<1> HIDE DEF e
<1> DEFINE z == raw \o rest
           n == Len(raw)
           I == {i \in 1 .. Len(z) : z[i] = STOP}
<1>2. Len(noise) \in Nat /\ Len(e) \in Nat /\ n \in Nat \ {0} /\ n \in 1 .. n /\ Len(rest) \in Nat
  BY <1>1, LenProperties
<1>3. \A i \in 1 .. Len(e) : e[i] # STOP /\ START # STOP
  BY <1>1, ElementOfSeq DEF START, STOP
<1>4. ASSUME NEW i \in 1 .. n - 1 PROVE raw[i] # STOP
  <2>1. CASE i \in 1 .. Len(noise)
    BY <1>1, <2>1
  <2>2. CASE i = Len(noise) + 1
    BY <1>1, <2>2 DEF START, STOP
  <2>3. CASE i > Len(noise) + 1
    <3> DEFINE j == i - Len(noise) - 1
    <3>1. j \in 1 .. Len(e) /\ i = Len(noise) + 1 + j
      <4>1. n = Len(noise) + Len(e) + 2
        BY <1>1
      <4> HIDE DEF n
      <4> QED BY <1>2, <2>3, <4>1
    <3> HIDE DEF j
    <3> QED BY <1>1, <1>3, <3>1
  <2> QED BY <1>2, <2>1, <2>2, <2>3
<1>5. /\ Len(z) \in Nat /\ n <= Len(z) /\ n \in 1 .. Len(z)
      /\ \A i \in 1 .. n : z[i] = raw[i]
  BY <1>1, <1>2, ConcatProperties
<1>6. SelectInSeq(z, LAMBDA b : b = STOP) = IF I # {} THEN Min(I) ELSE 0
  BY DEF SelectInSeq
<1> HIDE DEF z, n
<1>7. n \in I /\ \A i \in I : n <= i
  <2>1. n \in I
    BY <1>1, <1>2, <1>5 DEF n
  <2>2. ASSUME NEW i \in I PROVE n <= i
    <3>1. i \in 1 .. Len(z) /\ z[i] = STOP
      OBVIOUS
    <3>2. ~(i \in 1 .. n - 1)
      <4>1. i \in 1 .. n - 1 => i \in 1 .. n
        BY <1>2
      <4> QED BY <1>4, <1>5, <3>1, <4>1
    <3> QED BY <1>2, <1>5, <3>1, <3>2
  <2> QED BY <2>1, <2>2
<1>8. Min(I) = n
  <2>1. \A i \in I : i \in Int
    BY <1>5
  <2> HIDE DEF I
  <2>2. \A i \in I : (\A j \in I : i <= j) => i = n
    BY <1>2, <1>7, <2>1
  <2> QED BY <1>7, <2>2 DEF Min
<1>9. SelectInSeq(z, LAMBDA b : b = STOP) = n
  BY <1>6, <1>7, <1>8
<1> QED BY <1>1, <1>2, <1>9 DEF z, n

LEMMA ContentParts ==
    ASSUME NEW a \in Byte, NEW p \in Seq(Byte)
    PROVE  /\ Len(p) \in Nat /\ Len(Content(a, p)) = Len(p) + 2
           /\ Content(a, p)[1] = a
           /\ SubSeq(Content(a, p), 2, Len(Content(a, p)) - 1) = p
<1> DEFINE s == Sum256(<<a>> \o p)
           h == <<a>> \o p
           c == Content(a, p)
           n == Len(p)
<1>1. <<a>> \in Seq(Byte) /\ Len(<<a>>) = 1 /\ <<a>>[1] = a
  OBVIOUS
<1>2. /\ h \in Seq(Byte) /\ n \in Nat /\ Len(h) = n + 1 /\ h[1] = a
      /\ \A i \in 1 .. n : h[1 + i] = p[i]
  <2>1. /\ h \in Seq(Byte) /\ Len(h) = Len(<<a>>) + Len(p) /\ Len(p) \in Nat
        /\ \A i \in 1 .. Len(<<a>>) : h[i] = <<a>>[i]
        /\ \A i \in 1 .. Len(p) : h[Len(<<a>>) + i] = p[i]
    BY <1>1, ConcatParts
  <2> HIDE DEF h
  <2> QED BY <1>1, <2>1
<1>3. s \in Byte
  BY <1>2, SumIsByte
<1>4. c = h \o <<s>>
  BY DEF Content
<1> HIDE DEF s, h, c
<1>5. <<s>> \in Seq(Byte) /\ Len(<<s>>) = 1
  BY <1>3
<1>6. /\ c \in Seq(Byte) /\ Len(c) = n + 2 /\ \A i \in 1 .. n + 1 : c[i] = h[i]
  <2>1. /\ c \in Seq(Byte) /\ Len(c) = Len(h) + Len(<<s>>)
        /\ \A i \in 1 .. Len(h) : c[i] = h[i]
    BY <1>2, <1>4, <1>5, ConcatParts
  <2> QED BY <1>2, <1>5, <2>1
<1>7. c[1] = a
  BY <1>2, <1>6
<1>8. SubSeq(c, 2, Len(c) - 1) = p
  <2> DEFINE q == SubSeq(c, 2, n + 1)
  <2>1. \A i \in 2 .. n + 1 : c[i] \in Byte
    BY <1>2, <1>6, ElementOfSeq
  <2>2. /\ q \in Seq(Byte) /\ Len(q) = (IF 2 <= n + 1 THEN n + 1 - 2 + 1 ELSE 0)
        /\ \A i \in 1 .. n + 1 - 2 + 1 : q[i] = c[2 + i - 1]
    <3>1. 2 \in Int /\ n + 1 \in Int
      BY <1>2
    <3> QED BY <2>1, <3>1, SubSeqProperties
  <2> HIDE DEF q
  <2>3. Len(q) = n
    BY <1>2, <2>2
  <2>4. ASSUME NEW i \in 1 .. n PROVE q[i] = p[i]
    <3>1. /\ i \in 1 .. n + 1 - 2 + 1 /\ 2 + i - 1 = 1 + i /\ 1 + i \in 1 .. n + 1
      BY <1>2
    <3>2. q[i] = c[1 + i]
      BY <2>2, <3>1
    <3> QED BY <1>2, <1>6, <3>1, <3>2
  <2>5. q = p
    BY <2>2, <2>3, <2>4, SeqEqual
  <2>6. Len(c) - 1 = n + 1
    BY <1>2, <1>6
  <2> QED BY <2>5, <2>6 DEF q
<1> QED BY <1>2, <1>6, <1>7, <1>8 DEF c

LEMMA FramedStart ==
    ASSUME NEW u \in Nat, NEW e, NEW raw, Framed(raw, u, e)
    PROVE  /\ LastStart(raw) = u + 1
           /\ SubSeq(raw, u + 2, Len(raw) - 1) = e
<1> DEFINE n == Len(raw)
           m == Len(e)
           I == {i \in 1 .. n : raw[i] = START}
<1>1. /\ e \in Seq(Byte \ {START, STOP}) /\ m \in Nat
      /\ raw \in Seq(Byte) /\ n = u + m + 2
      /\ raw[u + 1] = START
      /\ \A i \in 1 .. m : raw[u + 1 + i] = e[i]
      /\ raw[n] = STOP
  BY LenProperties DEF Framed
<1>2. \A i \in 1 .. m : e[i] # START
  BY <1>1, ElementOfSeq
<1>3. e \in Seq(Byte)
  <2>1. Byte \ {START, STOP} \subseteq Byte
    OBVIOUS
  <2> QED BY <1>1, <2>1, SeqMonotonic
<1>4. LastStart(raw) = IF I # {} THEN Max(I) ELSE 0
  BY DEF LastStart, SelectLastInSeq
<1>5. \A i \in 1 .. n : raw[i] \in Byte
  BY <1>1, ElementOfSeq
<1> HIDE DEF n, m
<1>6. n \in Nat /\ u + 1 \in I
  BY <1>1
<1>7. ASSUME NEW i \in I PROVE i <= u + 1
  <2>1. i \in 1 .. n /\ raw[i] = START
    OBVIOUS
  <2>2. CASE i = n
    BY <1>1, <2>1, <2>2 DEF START, STOP
  <2>3. CASE i # n /\ i > u + 1
    <3> DEFINE j == i - u - 1
    <3>1. j \in 1 .. m /\ i = u + 1 + j
      BY <1>1, <2>1, <2>3
    <3> HIDE DEF j
    <3> QED BY <1>1, <1>2, <2>1, <3>1
  <2> QED BY <2>1, <2>2, <2>3
<1>8. LastStart(raw) = u + 1
  <2>1. I \in SUBSET (1 .. n) /\ I # {}
    BY <1>6
  <2>2. Max(I) \in I /\ \A x \in I : x <= Max(I)
    <3> HIDE DEF I
    <3> QED BY <1>6, <2>1, MaxOf
  <2>3. Max(I) \in Nat /\ Max(I) <= u + 1 /\ u + 1 <= Max(I)
    BY <1>6, <1>7, <2>2
  <2> QED BY <1>4, <2>1, <2>3
<1>9. SubSeq(raw, u + 2, n - 1) = e
  <2> DEFINE q == SubSeq(raw, u + 2, n - 1)
             k == n - 1
             l == u + 2
  <2>1. k \in Int /\ l \in Int /\ k - l + 1 = m /\ (IF l <= k THEN k - l + 1 ELSE 0) = m
    BY <1>1, <1>6
  <2>2. \A i \in l .. k : raw[i] \in Byte
    BY <1>5, <1>6
  <2>3. /\ q \in Seq(Byte) /\ Len(q) = (IF l <= k THEN k - l + 1 ELSE 0)
        /\ \A i \in 1 .. k - l + 1 : q[i] = raw[l + i - 1]
    BY <2>1, <2>2, SubSeqProperties
  <2>4. Len(q) = m
    BY <2>1, <2>3
  <2>5. ASSUME NEW i \in 1 .. m PROVE q[i] = e[i]
    <3>1. l + i - 1 = u + 1 + i
      BY <1>1
    <3> QED BY <1>1, <2>1, <2>3, <3>1
  <2> HIDE DEF q
  <2>6. q = e
    BY <1>3, <2>3, <2>4, <2>5, SeqEqual DEF m
  <2> QED BY <2>6 DEF q
<1> QED BY <1>8, <1>9 DEF n

\* parse_frame gives back what was built, whatever came before it.
LEMMA ChunkParses ==
    ASSUME NEW noise \in Seq(Byte \ {STOP}), NEW a \in Byte, NEW p \in Seq(Byte), Len(p) # 0
    PROVE  parse_frame(noise \o build_frame(a, p)) = <<a, p>>
<1> DEFINE raw == noise \o build_frame(a, p)
           c == Content(a, p)
           u == Len(noise)
<1>1. u \in Nat /\ Framed(raw, u, _escape(c))
  BY ChunkShape, LenProperties
<1>2. c \in Seq(Byte)
  BY FrameShape
<1>3. /\ Len(p) \in Nat /\ Len(c) = Len(p) + 2 /\ c[1] = a /\ SubSeq(c, 2, Len(c) - 1) = p
  BY ContentParts
<1> HIDE DEF raw, c, u
<1>4. LastStart(raw) = u + 1 /\ SubSeq(raw, u + 2, Len(raw) - 1) = _escape(c)
  BY <1>1, FramedStart
<1>5. raw[Len(raw)] = STOP
  BY <1>1 DEF Framed
<1>6. u + 1 + 1 = u + 2 /\ u + 1 # 0
  BY <1>1
<1>7. _unescape(SubSeq(raw, LastStart(raw) + 1, Len(raw) - 1)) = c
  BY <1>2, <1>4, <1>6, UnescapeEscape
<1>8. ~(LastStart(raw) = 0 \/ raw[Len(raw)] # STOP \/ Len(c) < 3)
  BY <1>3, <1>4, <1>5, <1>6
<1>9. parse_frame(raw) = <<c[1], SubSeq(c, 2, Len(c) - 1)>>
  BY <1>7, <1>8 DEF parse_frame
<1> QED BY <1>3, <1>9 DEF raw
------------------------------------------------------------------------------
(* The invariant: the wire holds, one after the other and each behind its    *)
(* noise, the frames sent and not yet received.                             *)

Frames == Addresses \X Payloads
IsChunk(raw, frame) == \E noise \in Noise : raw = noise \o build_frame(frame[1], frame[2])

Carries(chunks) ==
    /\ chunks \in Seq(Seq(Byte))
    /\ wire = FlattenSeq(chunks)
    /\ Len(received) + Len(chunks) = Len(sent)
    /\ \A i \in 1 .. Len(chunks) : IsChunk(chunks[i], sent[Len(received) + i])

ReceivedInv ==
    /\ sent \in Seq(Frames) /\ received \in Seq(Frames)
    /\ Len(received) <= Len(sent)
    /\ \A i \in 1 .. Len(received) : received[i] = sent[i]

WireInv == ReceivedInv /\ \E chunks : Carries(chunks)

LEMMA FrameType ==
    ASSUME NEW frame \in Frames
    PROVE  /\ frame[1] \in Byte /\ frame[2] \in Seq(Byte) /\ Len(frame[2]) # 0
           /\ frame = <<frame[1], frame[2]>>
<1>1. frame[1] \in Addresses /\ frame[2] \in Payloads /\ frame = <<frame[1], frame[2]>>
  BY DEF Frames
<1>2. PICK n \in 1 .. MaxPayload : frame[2] \in [1 .. n -> Bytes]
  BY <1>1 DEF Payloads
<1>3. n \in Nat /\ n # 0
  BY <1>2, BoundsAssumption
<1>4. Addresses \subseteq Byte /\ Bytes \subseteq Byte
  BY BytesAssumption DEF Byte
<1>5. frame[2] \in Seq(Byte) /\ Len(frame[2]) = n
  <2>1. frame[2] \in Seq(Bytes) /\ Len(frame[2]) = n
    BY <1>2, <1>3
  <2> QED BY <1>4, <2>1, SeqMonotonic
<1> QED BY <1>1, <1>3, <1>4, <1>5

LEMMA NoiseType == Noise \subseteq Seq(Byte \ {STOP})
BY NoiseAssumption DEF Byte

LEMMA ChunkType ==
    ASSUME NEW frame \in Frames, NEW raw, IsChunk(raw, frame), NEW rest \in Seq(Byte)
    PROVE  /\ raw \in Seq(Byte) /\ Len(raw) \in Nat \ {0}
           /\ SelectInSeq(raw \o rest, LAMBDA b : b = STOP) = Len(raw)
           /\ parse_frame(raw) = frame
<1>1. PICK noise \in Seq(Byte \ {STOP}) : raw = noise \o build_frame(frame[1], frame[2])
  BY NoiseType DEF IsChunk
<1>2. /\ frame[1] \in Byte /\ frame[2] \in Seq(Byte) /\ Len(frame[2]) # 0
      /\ frame = <<frame[1], frame[2]>>
  BY FrameType
<1>3. /\ raw \in Seq(Byte) /\ Len(raw) \in Nat \ {0}
      /\ SelectInSeq(raw \o rest, LAMBDA b : b = STOP) = Len(raw)
  BY <1>1, <1>2, ChunkEnds
<1>4. parse_frame(raw) = <<frame[1], frame[2]>>
  BY <1>1, <1>2, ChunkParses
<1> QED BY <1>2, <1>3, <1>4

LEMMA SplitConcat ==
    ASSUME NEW B, NEW s \in Seq(B), NEW t \in Seq(B)
    PROVE  SubSeq(s \o t, 1, Len(s)) = s /\ SubSeq(s \o t, Len(s) + 1, Len(s \o t)) = t
<1> DEFINE z == s \o t
           m == Len(s)
           n == Len(t)
           l == Len(z)
<1>1. /\ z \in Seq(B) /\ l = m + n /\ m \in Nat /\ n \in Nat
      /\ \A i \in 1 .. m : z[i] = s[i]
      /\ \A i \in 1 .. n : z[m + i] = t[i]
  BY ConcatParts
<1>2. \A i \in 1 .. l : z[i] \in B
  BY <1>1, ElementOfSeq
<1> HIDE DEF z, m, n, l
<1>3. SubSeq(z, 1, m) = s
  <2> DEFINE q == SubSeq(z, 1, m)
  <2>1. /\ q \in Seq(B) /\ Len(q) = (IF 1 <= m THEN m - 1 + 1 ELSE 0)
        /\ \A i \in 1 .. m - 1 + 1 : q[i] = z[1 + i - 1]
    <3>1. 1 \in Int /\ m \in Int /\ \A i \in 1 .. m : z[i] \in B
      BY <1>1, <1>2
    <3> QED BY <3>1, SubSeqProperties
  <2> HIDE DEF q
  <2>2. Len(q) = m /\ \A i \in 1 .. m : q[i] = s[i]
    BY <1>1, <2>1
  <2>3. q = s
    BY <2>1, <2>2, SeqEqual DEF m
  <2> QED BY <2>3 DEF q
<1>4. SubSeq(z, m + 1, l) = t
  <2> DEFINE k == m + 1
             q == SubSeq(z, k, l)
  <2>1. /\ k \in Int /\ l \in Int /\ l - k + 1 = n /\ (IF k <= l THEN l - k + 1 ELSE 0) = n
        /\ \A i \in k .. l : i \in 1 .. l
        /\ \A i \in 1 .. n : k + i - 1 = m + i
    BY <1>1
  <2>2. /\ q \in Seq(B) /\ Len(q) = (IF k <= l THEN l - k + 1 ELSE 0)
        /\ \A i \in 1 .. l - k + 1 : q[i] = z[k + i - 1]
    <3>1. \A i \in k .. l : z[i] \in B
      BY <1>2, <2>1
    <3> HIDE DEF k
    <3> QED BY <2>1, <3>1, SubSeqProperties
  <2> HIDE DEF q, k
  <2>3. Len(q) = n /\ \A i \in 1 .. n : q[i] = t[i]
    BY <1>1, <2>1, <2>2
  <2>4. q = t
    BY <2>2, <2>3, SeqEqual DEF n
  <2> QED BY <2>4 DEF q, k
<1> QED BY <1>3, <1>4 DEF z, m, l

LEMMA WireInit == Init => WireInv
<1> SUFFICES ASSUME Init PROVE WireInv
  OBVIOUS
<1>1. wire = <<>> /\ sent = <<>> /\ received = <<>>
  BY DEF Init
<1>2. ReceivedInv
  BY <1>1, EmptySeq DEF ReceivedInv
<1>3. Carries(<<>>)
  <2>1. <<>> \in Seq(Seq(Byte)) /\ Len(<<>>) = 0
    BY EmptySeq
  <2> QED BY <1>1, <2>1, FlattenNothing DEF Carries
<1> QED BY <1>2, <1>3 DEF WireInv

LEMMA SendKeeps ==
    ASSUME WireInv, NEW address \in Addresses, NEW payload \in Payloads, NEW noise \in Noise,
           Send(address, payload, noise)
    PROVE  WireInv'
<1> DEFINE frame == <<address, payload>>
           raw == noise \o build_frame(address, payload)
<1>1. PICK chunks : Carries(chunks)
  BY DEF WireInv
<1>2. /\ sent' = Append(sent, frame) /\ received' = received
      /\ wire' = wire \o noise \o build_frame(address, payload)
  BY DEF Send
<1>3. frame \in Frames /\ IsChunk(raw, frame)
  BY DEF Frames, IsChunk
<1>4. raw \in Seq(Byte) /\ noise \in Seq(Byte) /\ build_frame(address, payload) \in Seq(Byte)
  <2>1. raw \in Seq(Byte)
    BY <1>3, ChunkType, EmptySeq
  <2>2. noise \in Seq(Byte)
    <3>1. noise \in Seq(Byte \ {STOP}) /\ Byte \ {STOP} \subseteq Byte
      BY NoiseType
    <3> QED BY <3>1, SeqMonotonic
  <2>3. build_frame(address, payload) \in Seq(Byte)
    <3>1. address \in Byte /\ payload \in Seq(Byte)
      BY <1>3, FrameType
    <3> QED BY <3>1, FrameIsBytes
  <2> QED BY <2>1, <2>2, <2>3
<1>5. /\ chunks \in Seq(Seq(Byte)) /\ wire = FlattenSeq(chunks)
      /\ Len(received) + Len(chunks) = Len(sent)
      /\ \A i \in 1 .. Len(chunks) : IsChunk(chunks[i], sent[Len(received) + i])
  BY <1>1 DEF Carries
<1>6. /\ sent \in Seq(Frames) /\ received \in Seq(Frames) /\ Len(received) <= Len(sent)
      /\ \A i \in 1 .. Len(received) : received[i] = sent[i]
      /\ Len(sent) \in Nat /\ Len(received) \in Nat /\ Len(chunks) \in Nat
  BY <1>5, LenProperties DEF WireInv, ReceivedInv
<1> HIDE DEF frame
<1>7. /\ sent' \in Seq(Frames) /\ Len(sent') = Len(sent) + 1 /\ sent'[Len(sent) + 1] = frame
      /\ \A i \in 1 .. Len(sent) : sent'[i] = sent[i]
  BY <1>2, <1>3, <1>6, AppendProperties
<1>8. ReceivedInv'
  BY <1>2, <1>6, <1>7 DEF ReceivedInv
<1>9. wire' = wire \o raw
  <2>1. wire \in Seq(Byte)
    BY <1>5, FlattenType
  <2>2. (wire \o noise) \o build_frame(address, payload) = wire \o raw
    BY <1>4, <2>1, ConcatAssociative
  <2> QED BY <1>2, <2>2
<1> HIDE DEF raw
<1> DEFINE next == Append(chunks, raw)
<1>10. /\ next \in Seq(Seq(Byte)) /\ Len(next) = Len(chunks) + 1 /\ next[Len(chunks) + 1] = raw
       /\ \A i \in 1 .. Len(chunks) : next[i] = chunks[i]
  BY <1>4, <1>5, AppendProperties
<1>11. wire' = FlattenSeq(next)
  BY <1>4, <1>5, <1>9, FlattenAppend
<1> HIDE DEF next
<1>12. ASSUME NEW i \in 1 .. Len(next) PROVE IsChunk(next[i], sent'[Len(received') + i])
  <2>1. CASE i = Len(chunks) + 1
    <3>1. Len(received') + i = Len(sent) + 1
      <4>1. /\ Len(received') = Len(received) /\ Len(received) + Len(chunks) = Len(sent)
            /\ Len(received) \in Nat /\ Len(chunks) \in Nat
        BY <1>2, <1>5, <1>6
      <4> QED BY ONLY <2>1, <4>1
    <3> QED BY <1>3, <1>7, <1>10, <2>1, <3>1
  <2>2. CASE i # Len(chunks) + 1
    <3>1. i \in 1 .. Len(chunks) /\ Len(received) + i \in 1 .. Len(sent)
      BY <1>5, <1>6, <1>10, <2>2
    <3> QED BY <1>2, <1>5, <1>7, <1>10, <3>1
  <2> QED BY <2>1, <2>2
<1>13. Len(received') + Len(next) = Len(sent')
  BY <1>2, <1>5, <1>6, <1>7, <1>10
<1>14. Carries(next)'
  BY <1>10, <1>11, <1>12, <1>13 DEF Carries, IsChunk
<1> QED BY <1>8, <1>14 DEF WireInv

LEMMA ReadKeeps == ASSUME WireInv, _read_frame PROVE WireInv'
<1> DEFINE stop == SelectInSeq(wire, LAMBDA b : b = STOP)
<1>1. PICK chunks : Carries(chunks)
  BY DEF WireInv
<1>2. /\ stop # 0 /\ sent' = sent
      /\ received' = Append(received, parse_frame(SubSeq(wire, 1, stop)))
      /\ wire' = SubSeq(wire, stop + 1, Len(wire))
  BY DEF _read_frame
<1>3. /\ chunks \in Seq(Seq(Byte)) /\ wire = FlattenSeq(chunks)
      /\ Len(received) + Len(chunks) = Len(sent)
      /\ \A i \in 1 .. Len(chunks) : IsChunk(chunks[i], sent[Len(received) + i])
  BY <1>1 DEF Carries
<1>4. /\ sent \in Seq(Frames) /\ received \in Seq(Frames) /\ Len(received) <= Len(sent)
      /\ \A i \in 1 .. Len(received) : received[i] = sent[i]
      /\ Len(sent) \in Nat /\ Len(received) \in Nat /\ Len(chunks) \in Nat
  BY <1>3, LenProperties DEF WireInv, ReceivedInv
<1>5. chunks # <<>>
  <2>1. SUFFICES ASSUME chunks = <<>> PROVE FALSE
    OBVIOUS
  <2>2. wire = <<>> /\ Len(<<>>) = 0
    BY <1>3, <2>1, FlattenNothing, EmptySeq
  <2>3. {i \in 1 .. Len(wire) : wire[i] = STOP} = {}
    BY <2>2
  <2>4. stop = 0
    BY <2>3 DEF SelectInSeq
  <2> QED BY <1>2, <2>4
<1> DEFINE raw == Head(chunks)
           rest == Tail(chunks)
           frame == sent[Len(received) + 1]
<1>6. /\ raw = chunks[1] /\ rest \in Seq(Seq(Byte)) /\ Len(rest) = Len(chunks) - 1
      /\ \A i \in 1 .. Len(rest) : rest[i] = chunks[i + 1]
      /\ wire = raw \o FlattenSeq(rest)
  <2>1. /\ rest \in Seq(Seq(Byte)) /\ Len(rest) = Len(chunks) - 1
        /\ \A i \in 1 .. Len(rest) : rest[i] = chunks[i + 1]
    BY <1>3, <1>5, HeadTailProperties
  <2>2. wire = raw \o FlattenSeq(rest)
    BY <1>3, <1>5, FlattenHead
  <2>3. raw = chunks[1]
    BY DEF raw
  <2> QED BY <2>1, <2>2, <2>3
<1> HIDE DEF raw, rest
<1>7. 1 \in 1 .. Len(chunks) /\ Len(received) + 1 \in 1 .. Len(sent)
  <2>1. Len(chunks) # 0
    BY <1>3, <1>5, EmptySeq
  <2> QED BY <1>3, <1>4, <2>1
<1>8. frame \in Frames /\ IsChunk(raw, frame)
  BY <1>3, <1>4, <1>6, <1>7, ElementOfSeq
<1> HIDE DEF frame, stop
<1>9. FlattenSeq(rest) \in Seq(Byte)
  BY <1>6, FlattenType
<1>10. raw \in Seq(Byte) /\ stop = Len(raw) /\ parse_frame(raw) = frame
  <2>1. /\ raw \in Seq(Byte) /\ parse_frame(raw) = frame
        /\ SelectInSeq(raw \o FlattenSeq(rest), LAMBDA b : b = STOP) = Len(raw)
    BY <1>8, <1>9, ChunkType
  <2> QED BY <1>6, <2>1 DEF stop
<1>11. received' = Append(received, frame) /\ wire' = FlattenSeq(rest)
  <2>1. /\ SubSeq(wire, 1, Len(raw)) = raw
        /\ SubSeq(wire, Len(raw) + 1, Len(wire)) = FlattenSeq(rest)
    BY <1>6, <1>9, <1>10, SplitConcat
  <2> QED BY <1>2, <1>10, <2>1
<1>12. /\ received' \in Seq(Frames) /\ Len(received') = Len(received) + 1
       /\ received'[Len(received) + 1] = frame
       /\ \A i \in 1 .. Len(received) : received'[i] = received[i]
  BY <1>4, <1>8, <1>11, AppendProperties
<1>13. ReceivedInv'
  <2>1. Len(received') <= Len(sent')
    BY <1>2, <1>4, <1>7, <1>12
  <2>2. ASSUME NEW i \in 1 .. Len(received') PROVE received'[i] = sent'[i]
    <3>1. CASE i = Len(received) + 1
      BY <1>2, <1>12, <3>1 DEF frame
    <3>2. CASE i # Len(received) + 1
      <4>1. i \in 1 .. Len(received)
        BY <1>4, <1>12, <3>2
      <4> QED BY <1>2, <1>4, <1>12, <4>1
    <3> QED BY <3>1, <3>2
  <2> QED BY <1>2, <1>4, <1>12, <2>1, <2>2 DEF ReceivedInv
<1>14. ASSUME NEW i \in 1 .. Len(rest) PROVE IsChunk(rest[i], sent'[Len(received') + i])
  <2>1. i + 1 \in 1 .. Len(chunks) /\ Len(received') + i = Len(received) + (i + 1)
    BY <1>4, <1>6, <1>12
  <2> QED BY <1>2, <1>3, <1>6, <2>1
<1>15. Len(received') + Len(rest) = Len(sent')
  <2>1. /\ Len(received') = Len(received) + 1 /\ Len(rest) = Len(chunks) - 1
        /\ Len(sent') = Len(sent) /\ Len(received) + Len(chunks) = Len(sent)
        /\ Len(received) \in Nat /\ Len(chunks) \in Nat
    BY <1>2, <1>3, <1>4, <1>6, <1>12
  <2> QED BY ONLY <2>1
<1>16. Carries(rest)'
  BY <1>6, <1>11, <1>14, <1>15 DEF Carries, IsChunk
<1> QED BY <1>13, <1>16 DEF WireInv

LEMMA WireNext == WireInv /\ [Next]_vars => WireInv'
<1> SUFFICES ASSUME WireInv, [Next]_vars PROVE WireInv'
  OBVIOUS
<1>1. CASE Next
  BY <1>1, SendKeeps, ReadKeeps DEF Next
<1>2. CASE UNCHANGED vars
  BY <1>2 DEF vars, WireInv, ReceivedInv, Carries, IsChunk
<1> QED BY <1>1, <1>2

LEMMA WireInvariant == Spec => []WireInv
BY WireInit, WireNext, PTL DEF Spec

\* The frames read are the frames sent, in order: whatever bytes an address, a
\* payload and the checksum are, and whatever a frame is preceded by.
THEOREM FramesReadAsSent == Spec => []ReadAsSent
<1>1. WireInv => ReadAsSent
  <2> SUFFICES ASSUME WireInv PROVE ReadAsSent
    OBVIOUS
  <2> DEFINE n == Len(received)
  <2>1. /\ sent \in Seq(Frames) /\ received \in Seq(Frames) /\ n <= Len(sent)
        /\ \A i \in 1 .. n : received[i] = sent[i]
        /\ Len(sent) \in Nat /\ n \in Nat
    BY LenProperties DEF WireInv, ReceivedInv
  <2>2. SubSeq(sent, 1, n) \in Seq(Frames) /\ Len(SubSeq(sent, 1, n)) = n
        /\ \A i \in 1 .. n : SubSeq(sent, 1, n)[i] = sent[i]
    <3>1. \A i \in 1 .. n : sent[i] \in Frames
      BY <2>1, ElementOfSeq
    <3> HIDE DEF n
    <3>2. /\ SubSeq(sent, 1, n) \in Seq(Frames)
          /\ Len(SubSeq(sent, 1, n)) = (IF 1 <= n THEN n - 1 + 1 ELSE 0)
          /\ \A i \in 1 .. n - 1 + 1 : SubSeq(sent, 1, n)[i] = sent[1 + i - 1]
      BY <2>1, <3>1, SubSeqProperties
    <3>3. n - 1 + 1 = n /\ (IF 1 <= n THEN n - 1 + 1 ELSE 0) = n
          /\ \A i \in 1 .. n : 1 + i - 1 = i
      BY <2>1
    <3> QED BY <3>2, <3>3
  <2>3. SubSeq(sent, 1, n) = received
    BY <2>1, <2>2, SeqEqual
  <2>4. SubSeq(received, 1, n) = received
    BY <2>1, SubSeqFull
  <2> QED BY <2>1, <2>3, <2>4 DEF ReadAsSent, IsPrefix
<1> QED BY <1>1, WireInvariant, PTL

\* An empty wire has no frame left on it: all that was sent has been read.
THEOREM NoFrameLost == Spec => []NothingLost
<1>1. WireInv => NothingLost
  <2> SUFFICES ASSUME WireInv, wire = <<>> PROVE received = sent
    BY DEF NothingLost
  <2>1. PICK chunks : Carries(chunks)
    BY DEF WireInv
  <2>2. /\ chunks \in Seq(Seq(Byte)) /\ wire = FlattenSeq(chunks)
        /\ Len(received) + Len(chunks) = Len(sent)
        /\ \A i \in 1 .. Len(chunks) : IsChunk(chunks[i], sent[Len(received) + i])
    BY <2>1 DEF Carries
  <2>3. /\ sent \in Seq(Frames) /\ received \in Seq(Frames) /\ Len(received) <= Len(sent)
        /\ \A i \in 1 .. Len(received) : received[i] = sent[i]
        /\ Len(sent) \in Nat /\ Len(received) \in Nat /\ Len(chunks) \in Nat
    BY <2>2, LenProperties DEF WireInv, ReceivedInv
  <2>4. chunks = <<>>
    <3>1. SUFFICES ASSUME chunks # <<>> PROVE FALSE
      OBVIOUS
    <3>2. 1 \in 1 .. Len(chunks) /\ Len(received) + 1 \in 1 .. Len(sent)
      <4>1. Len(chunks) # 0
        BY <2>2, <3>1, EmptySeq
      <4> QED BY <2>2, <2>3, <4>1
    <3>3. sent[Len(received) + 1] \in Frames /\ IsChunk(Head(chunks), sent[Len(received) + 1])
      <4>1. Head(chunks) = chunks[1]
        OBVIOUS
      <4> QED BY <2>2, <2>3, <3>2, <4>1, ElementOfSeq
    <3>4. FlattenSeq(Tail(chunks)) \in Seq(Byte) /\ wire = Head(chunks) \o FlattenSeq(Tail(chunks))
      BY <2>2, <3>1, HeadTailProperties, FlattenType, FlattenHead
    <3>5. Head(chunks) \in Seq(Byte) /\ Len(Head(chunks)) # 0
      BY <3>3, <3>4, ChunkType
    <3>6. Head(chunks) = <<>>
      <4> DEFINE h == Head(chunks)
                 r == FlattenSeq(Tail(chunks))
      <4>1. h \in Seq(Byte) /\ r \in Seq(Byte) /\ h \o r = <<>>
        BY <3>4, <3>5
      <4> HIDE DEF h, r
      <4>2. h = <<>>
        BY ONLY <4>1, ConcatEqualIffEmpty
      <4> QED BY <4>2 DEF h
    <3> QED BY <3>5, <3>6, EmptySeq
  <2>5. Len(received) = Len(sent)
    BY <2>2, <2>3, <2>4, EmptySeq
  <2> QED BY <2>3, <2>5, SeqEqual
<1> QED BY <1>1, WireInvariant, PTL
==============================================================================
