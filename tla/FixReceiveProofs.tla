-------------------------- MODULE FixReceiveProofs --------------------------
(***************************************************************************)
(* Proofs about module FixReceive, for messages of any lengths, any places *)
(* of 8= in them, any cache that takes each of them and any cuts that TCP  *)
(* makes in the stream.                                                    *)
(***************************************************************************)
EXTENDS FixReceive, WellFoundedInduction, TLAPS

(* The first byte that is not delivered, dropped or out of the cache yet *)
Start == read - Len(buffer) - header + 1

(* d is what the parser makes of message k: all of it, or a part that      *)
(* reaches to its end if its first byte is known to be dropped.            *)
Piece(d, k, damaged) ==
  \E a \in Stream : /\ d = Bytes(a, EndOf[k])
                    /\ EndOf[k - 1] < a /\ a <= EndOf[k]
                    /\ a = EndOf[k - 1] + 1 \/ k \in damaged

(* Every element of d is a piece of a message that ends before byte c. *)
EndBefore(d, c, damaged) ==
  \A i \in 1 .. Len(d) : \E k \in 1 .. MaxMessages : EndOf[k] < c /\ Piece(d[i], k, damaged)

(* No message comes twice, or before an earlier one. *)
Ordered(d) ==
  \A i \in 1 .. Len(d) : \A j \in 1 .. i - 1 : MessageOf(d[j][1]) < MessageOf(d[i][1])

(* The parser is at the beginning of a message, or inside of one that has  *)
(* lost its first byte.                                                    *)
IsFirst(a) == \E k \in 0 .. MaxMessages : a = EndOf[k] + 1

AtBoundary(a, damaged) == IsFirst(a) \/ MessageOf(a) \in damaged

(* Each way of receiving has its own variables. *)
ModeInv ==
  /\ mode = "caching" => header = 0
  /\ mode = "oneByOne" => buffer = <<>> /\ decapitated = {}
  /\ header > 0 => ~garbled
  /\ header + Len(buffer) <= read

(* The cache holds the bytes up to the last one that was read. *)
BufferInv == buffer = Bytes(read - Len(buffer) + 1, read)

StartInv == ~garbled => AtBoundary(Start, decapitated)

(* What is delivered are pieces of messages that end before Start. *)
PiecesInv == ~garbled => EndBefore(delivered, Start, decapitated)

OrderInv == ~garbled => Ordered(delivered)

IInv == TypeOK /\ ModeInv /\ BufferInv /\ StartInv /\ PiecesInv /\ OrderInv
-----------------------------------------------------------------------------
(* Least and greatest elements *)

Below == {p \in Nat \X Nat : p[1] < p[2]}

LEMMA LeastExists ==
  ASSUME NEW S, S \subseteq Nat, S # {}
  PROVE  \E x \in S : \A y \in S : x <= y
<1>1. Below = OpToRel(<, Nat)
  BY Zenon DEF Below, OpToRel
<1>2. IsWellFoundedOn(Below, Nat)
  BY <1>1, NatLessThanWellFounded, Zenon
<1>3. PICK x \in S : \A y \in S : ~(<<y, x>> \in Below)
  BY <1>2, WFMin
<1>4. ASSUME NEW y \in S PROVE x <= y
  <2>1. x \in Nat /\ y \in Nat /\ <<y, x>> \in Nat \X Nat
    BY <1>3, <1>4
  <2>2. ~(y < x)
    BY <1>3, <1>4, <2>1 DEF Below
  <2> QED
    BY <2>1, <2>2
<1> QED
  BY <1>3, <1>4

LEMMA MinFacts ==
  ASSUME NEW S, S \subseteq Nat, S # {}
  PROVE  Min(S) \in S /\ \A y \in S : Min(S) <= y
  BY LeastExists DEF Min

LEMMA MaxFacts ==
  ASSUME NEW n \in Nat, NEW S, S \subseteq 0 .. n, S # {}
  PROVE  Max(S) \in S /\ \A y \in S : Max(S) >= y
<1> DEFINE T == {n - x : x \in S}
<1>0. PICK z \in S : TRUE
  OBVIOUS
<1>1. T \subseteq Nat /\ T # {}
  <2>1. \A x \in S : x \in 0 .. n
    OBVIOUS
  <2>2. \A x \in 0 .. n : n - x \in Nat
    OBVIOUS
  <2>3. n - z \in T
    OBVIOUS
  <2> QED
    BY <2>1, <2>2, <2>3
<1>2. PICK t \in T : \A y \in T : t <= y
  BY <1>1, LeastExists
<1>3. PICK x \in S : t = n - x
  OBVIOUS
<1>4. ASSUME NEW y \in S PROVE x >= y
  <2>1. n - y \in T
    BY <1>4
  <2>2. n - x <= n - y
    BY <1>2, <1>3, <2>1
  <2>3. x \in 0 .. n /\ y \in 0 .. n
    BY <1>3, <1>4
  <2> QED
    BY <2>2, <2>3
<1> QED
  BY <1>3, <1>4 DEF Max

(* What a read may give *)
LEMMA MinOfTwo ==
  ASSUME NEW x \in Nat, NEW y \in Nat
  PROVE  /\ Min({x, y}) \in Nat /\ Min({x, y}) <= x /\ Min({x, y}) <= y
         /\ Min({x, y}) = x \/ Min({x, y}) = y
<1>1. {x, y} \subseteq Nat /\ {x, y} # {}
  OBVIOUS
<1>2. Min({x, y}) \in {x, y} /\ \A z \in {x, y} : Min({x, y}) <= z
  BY <1>1, MinFacts
<1> QED
  BY <1>2
-----------------------------------------------------------------------------
(* The ends of the messages *)

(* The assumptions on the constants as the proofs use them *)
LEMMA Constants ==
  /\ MaxMessages \in Nat /\ Capacity \in Nat
  /\ HeaderSize \in Nat /\ BodyStart \in Nat /\ 1 <= BodyStart /\ BodyStart < HeaderSize
  BY ConstantsAssumption

LEMMA EndFacts ==
  ASSUME NEW j \in 0 .. MaxMessages, NEW k \in 0 .. MaxMessages
  PROVE  /\ EndOf[j] \in Nat /\ EndOf[k] \in Nat
         /\ j < k => EndOf[j] + HeaderSize < EndOf[k] /\ EndOf[j] + 2 < EndOf[k] + 1
         /\ j <= k => EndOf[j] <= EndOf[k]
         /\ EndOf[j] < EndOf[k] => j < k
<1>1. EndOf[j] \in Nat /\ EndOf[k] \in Nat
  BY ConstantsAssumption
<1>2. ASSUME NEW u \in 0 .. MaxMessages, NEW v \in 0 .. MaxMessages, u < v
      PROVE  EndOf[u] + HeaderSize < EndOf[v]
  BY <1>2, ConstantsAssumption
<1>3. j < k \/ j = k \/ k < j
  BY Constants
<1> QED
  BY <1>1, <1>2, <1>3, Constants

(* Bytes of the stream belong to messages that the client sends. *)
LEMMA StreamFacts ==
  /\ Length \in Nat
  /\ \A b \in Stream : b \in Nat /\ b >= 1 /\ b <= Length
  /\ \A k \in 0 .. MaxMessages : EndOf[k] \in Nat /\ EndOf[k] <= Length
<1>1. MaxMessages \in 0 .. MaxMessages
  BY Constants
<1>2. \A k \in 0 .. MaxMessages : EndOf[k] \in Nat /\ EndOf[k] <= Length
  BY <1>1, EndFacts, Constants DEF Length
<1>3. Length \in Nat
  BY <1>1, EndFacts DEF Length
<1> QED
  BY <1>2, <1>3 DEF Stream

(* The message of a byte *)
LEMMA MessageInStream ==
  ASSUME NEW b \in Stream
  PROVE  /\ MessageOf(b) \in 1 .. MaxMessages
         /\ EndOf[MessageOf(b) - 1] < b /\ b <= EndOf[MessageOf(b)]
<1> DEFINE S == {k \in 0 .. MaxMessages : b <= EndOf[k]}
<1>1. b \in Nat /\ b >= 1 /\ b <= Length /\ MaxMessages \in Nat
  BY StreamFacts, Constants
<1>2. MaxMessages \in S
  BY <1>1 DEF Length
<1>3. S \subseteq Nat /\ S # {}
  BY <1>1, <1>2
<1>4. PICK k \in S : \A y \in S : k <= y
  <2> HIDE DEF S
  <2> QED
    BY <1>3, LeastExists
<1>5. k \in 0 .. MaxMessages /\ b <= EndOf[k]
  OBVIOUS
<1>6. k # 0
  BY <1>1, <1>5, ConstantsAssumption
<1>7. k \in 1 .. MaxMessages /\ k - 1 \in 0 .. MaxMessages /\ ~(k <= k - 1)
  BY <1>1, <1>5, <1>6
<1>8. ~(b <= EndOf[k - 1])
  BY <1>4, <1>7
<1>9. EndOf[k - 1] < b
  BY <1>1, <1>7, <1>8, StreamFacts
<1>10. \E m \in 1 .. MaxMessages : EndOf[m - 1] < b /\ b <= EndOf[m]
  BY <1>5, <1>7, <1>9
<1> QED
  BY <1>10 DEF MessageOf

(* A byte between the ends of two messages in a row *)
LEMMA PlaceUnique ==
  ASSUME NEW b \in Nat, NEW k \in 1 .. MaxMessages, EndOf[k - 1] < b, b <= EndOf[k]
  PROVE  /\ MessageOf(b) = k
         /\ IsLast(b) <=> b = EndOf[k]
         /\ IsFirst(b) <=> b = EndOf[k - 1] + 1
<1>0. k \in Nat /\ k >= 1 /\ k \in 0 .. MaxMessages /\ k - 1 \in 0 .. MaxMessages
  BY Constants
<1>1. EndOf[k - 1] \in Nat /\ EndOf[k] \in Nat
  BY <1>0, EndFacts
<1>2. ASSUME NEW m \in 0 .. MaxMessages, k <= m PROVE EndOf[k] <= EndOf[m] /\ EndOf[m] \in Nat
  BY <1>0, <1>2, EndFacts
<1>3. ASSUME NEW m \in 0 .. MaxMessages, m <= k - 1
      PROVE  EndOf[m] <= EndOf[k - 1] /\ EndOf[m] \in Nat
  BY <1>0, <1>3, EndFacts
<1>4. ASSUME NEW m \in 1 .. MaxMessages, EndOf[m - 1] < b, b <= EndOf[m] PROVE m = k
  <2>0. m \in Nat /\ m \in 0 .. MaxMessages /\ m - 1 \in 0 .. MaxMessages
    BY Constants
  <2>1. CASE m < k
    <3>1. m <= k - 1
      BY <1>0, <2>0, <2>1
    <3> QED
      BY <1>1, <1>3, <1>4, <2>0, <3>1
  <2>2. CASE k < m
    <3>1. k <= m - 1
      BY <1>0, <2>0, <2>2
    <3> QED
      BY <1>1, <1>2, <1>4, <2>0, <3>1
  <2> QED
    BY <1>0, <2>0, <2>1, <2>2
<1>5. MessageOf(b) = k
  BY <1>4 DEF MessageOf
<1>6. ASSUME NEW m \in 1 .. MaxMessages, b = EndOf[m] PROVE b = EndOf[k]
  <2>0. m \in Nat /\ m \in 0 .. MaxMessages
    BY Constants
  <2>1. CASE m <= k - 1
    BY <1>1, <1>3, <1>6, <2>0, <2>1
  <2>2. CASE k <= m
    BY <1>1, <1>2, <1>6, <2>0, <2>2
  <2> QED
    BY <1>0, <2>0, <2>1, <2>2
<1>7. ASSUME NEW m \in 0 .. MaxMessages, b = EndOf[m] + 1 PROVE b = EndOf[k - 1] + 1
  <2>0. m \in Nat
    BY Constants
  <2>1. CASE m <= k - 1
    BY <1>1, <1>3, <1>7, <2>1
  <2>2. CASE k <= m
    BY <1>1, <1>2, <1>7, <2>2
  <2> QED
    BY <1>0, <2>0, <2>1, <2>2
<1>8. IsLast(b) <=> b = EndOf[k]
  BY <1>6 DEF IsLast
<1>9. IsFirst(b) <=> b = EndOf[k - 1] + 1
  BY <1>0, <1>7 DEF IsFirst
<1> QED
  BY <1>5, <1>8, <1>9
-----------------------------------------------------------------------------
(* Runs of bytes *)

LEMMA BytesFacts ==
  ASSUME NEW a \in Nat, NEW b \in Nat, a <= b + 1
  PROVE  /\ Bytes(a, b) \in Seq(Nat) /\ Len(Bytes(a, b)) = b - a + 1
         /\ \A i \in 1 .. b - a + 1 : Bytes(a, b)[i] = a + i - 1
         /\ a >= 1 /\ b <= Length => Bytes(a, b) \in Seq(Stream)
<1> DEFINE n == b - a + 1
<1>1. n \in Nat /\ Bytes(a, b) = [i \in 1 .. n |-> a + i - 1]
  BY DEF Bytes
<1>2. \A i \in 1 .. n : a + i - 1 \in Nat /\ a <= a + i - 1 /\ a + i - 1 <= b
  OBVIOUS
<1> HIDE DEF n
<1>3. Bytes(a, b) \in Seq(Nat) /\ Len(Bytes(a, b)) = n
  BY <1>1, <1>2
<1>4. ASSUME a >= 1, b <= Length PROVE Bytes(a, b) \in Seq(Stream)
  <2>1. \A i \in 1 .. n : a + i - 1 \in Stream
    BY <1>2, <1>4, StreamFacts DEF Stream
  <2> QED
    BY <1>1, <2>1
<1> QED
  BY <1>1, <1>3, <1>4 DEF n

(* Two sequences with the same elements are the same. *)
LEMMA SameSeq ==
  ASSUME NEW S, NEW s \in Seq(S), NEW t \in Seq(S), Len(s) = Len(t),
         \A i \in 1 .. Len(s) : s[i] = t[i]
  PROVE  s = t
  OBVIOUS

LEMMA JoinBytes ==
  ASSUME NEW a \in Nat, NEW b \in Nat, NEW c \in Nat, a <= b + 1, b <= c
  PROVE  Bytes(a, b) \o Bytes(b + 1, c) = Bytes(a, c)
<1> DEFINE s == Bytes(a, b)
           t == Bytes(b + 1, c)
           u == Bytes(a, c)
<1>1. /\ s \in Seq(Nat) /\ Len(s) = b - a + 1 /\ \A i \in 1 .. b - a + 1 : s[i] = a + i - 1
  BY BytesFacts
<1>2. /\ t \in Seq(Nat) /\ Len(t) = c - b /\ \A i \in 1 .. c - b : t[i] = b + i
  <2>1. b + 1 \in Nat /\ b + 1 <= c + 1 /\ c - (b + 1) + 1 = c - b
    OBVIOUS
  <2>2. /\ t \in Seq(Nat) /\ Len(t) = c - (b + 1) + 1
        /\ \A i \in 1 .. c - (b + 1) + 1 : t[i] = b + 1 + i - 1
    BY <2>1, BytesFacts
  <2> QED
    BY <2>1, <2>2
<1>3. /\ u \in Seq(Nat) /\ Len(u) = c - a + 1 /\ \A i \in 1 .. c - a + 1 : u[i] = a + i - 1
  <2>1. a <= c + 1
    OBVIOUS
  <2> QED
    BY <2>1, BytesFacts
<1> HIDE DEF s, t, u
<1>4. /\ s \o t \in Seq(Nat) /\ Len(s \o t) = Len(s) + Len(t)
      /\ \A i \in 1 .. Len(s) + Len(t) : (s \o t)[i] = IF i <= Len(s) THEN s[i] ELSE t[i - Len(s)]
  <2>1. s \in Seq(Nat) /\ t \in Seq(Nat)
    BY <1>1, <1>2
  <2> QED
    BY <2>1
<1>5. Len(s \o t) = Len(u)
  BY <1>1, <1>2, <1>3, <1>4
<1>6. ASSUME NEW i \in 1 .. Len(s \o t) PROVE (s \o t)[i] = u[i]
  <2>1. i \in 1 .. c - a + 1 /\ u[i] = a + i - 1
    BY <1>3, <1>5
  <2>2. CASE i <= Len(s)
    BY <1>1, <1>4, <1>6, <2>1, <2>2
  <2>3. CASE i > Len(s)
    <3>1. i - Len(s) \in 1 .. c - b /\ i - Len(s) = i - (b - a + 1)
      BY <1>1, <2>1, <2>3
    <3>2. (s \o t)[i] = t[i - Len(s)]
      <4>1. i \in 1 .. Len(s) + Len(t) /\ ~(i <= Len(s))
        BY <1>1, <1>4, <1>6, <2>3
      <4> QED
        BY <1>4, <4>1
    <3>3. t[i - Len(s)] = b + (i - Len(s))
      BY <1>2, <3>1
    <3> QED
      BY <2>1, <3>1, <3>2, <3>3
  <2> QED
    BY <1>1, <2>1, <2>2, <2>3
<1>7. s \o t = u
  BY <1>3, <1>4, <1>5, <1>6, SameSeq
<1> QED
  BY <1>7 DEF s, t, u

LEMMA CutBytes ==
  ASSUME NEW a \in Nat, NEW b \in Nat, NEW i \in Nat, NEW j \in Nat,
         i >= 1, i <= j, j <= b - a + 1
  PROVE  SubSeq(Bytes(a, b), i, j) = Bytes(a + i - 1, a + j - 1)
<1> DEFINE s == Bytes(a, b)
           t == Bytes(a + i - 1, a + j - 1)
<1>1. /\ s \in Seq(Nat) /\ Len(s) = b - a + 1 /\ \A n \in 1 .. b - a + 1 : s[n] = a + n - 1
  <2>1. a <= b + 1
    OBVIOUS
  <2> QED
    BY <2>1, BytesFacts
<1>2. /\ t \in Seq(Nat) /\ Len(t) = j - i + 1 /\ \A n \in 1 .. j - i + 1 : t[n] = a + i + n - 2
  <2> DEFINE x == a + i - 1
             y == a + j - 1
  <2>1. x \in Nat /\ y \in Nat /\ x <= y + 1 /\ y - x + 1 = j - i + 1
    OBVIOUS
  <2>2. /\ t \in Seq(Nat) /\ Len(t) = y - x + 1 /\ \A n \in 1 .. y - x + 1 : t[n] = x + n - 1
    <3> HIDE DEF x, y
    <3> QED
      BY <2>1, BytesFacts DEF x, y
  <2> QED
    BY <2>1, <2>2
<1> HIDE DEF s, t
<1>3. /\ SubSeq(s, i, j) \in Seq(Nat) /\ Len(SubSeq(s, i, j)) = j - i + 1
      /\ \A n \in 1 .. j - i + 1 : SubSeq(s, i, j)[n] = s[i + n - 1]
  BY <1>1
<1>4. ASSUME NEW n \in 1 .. j - i + 1 PROVE SubSeq(s, i, j)[n] = t[n]
  <2>1. i + n - 1 \in 1 .. b - a + 1
    BY <1>4
  <2>2. SubSeq(s, i, j)[n] = a + (i + n - 1) - 1
    BY <1>1, <1>3, <1>4, <2>1
  <2> QED
    BY <1>2, <1>4, <2>2
<1>5. SubSeq(s, i, j) = t
  BY <1>2, <1>3, <1>4, SameSeq
<1> QED
  BY <1>5 DEF s, t
-----------------------------------------------------------------------------
(* The parser *)

(* The message that ends at index e *)
Cut(bytes, e) == SubSeq(bytes, Min(Starts(bytes, e)), e)

(* A message that is complete in the bytes a .. b is a piece of a message  *)
(* of the client, whole unless a lies inside of it.                        *)
LEMMA CutFacts ==
  ASSUME NEW a \in Nat, NEW b \in Nat, a >= 1, a <= b + 1, b <= Length,
         NEW e \in Ends(Bytes(a, b))
  PROVE  /\ e \in Nat /\ e >= 1 /\ e <= b - a + 1
         /\ \E k \in 1 .. MaxMessages, x \in Stream :
              /\ a + e - 1 = EndOf[k] /\ a <= x
              /\ Cut(Bytes(a, b), e) = Bytes(x, EndOf[k])
              /\ EndOf[k - 1] < x /\ x < EndOf[k]
              /\ a <= EndOf[k - 1] + 1 => x = EndOf[k - 1] + 1
<1> DEFINE s == Bytes(a, b)
           n == b - a + 1
           y == a + e - 1
           i == Min(Starts(s, e))
           x == a + i - 1
<1>1. s \in Seq(Stream) /\ Len(s) = n /\ (\A j \in 1 .. n : s[j] = a + j - 1) /\ n \in Nat
  BY BytesFacts
<1> HIDE DEF s
<1>2. e \in 1 .. n /\ IsLast(s[e]) /\ Starts(s, e) # {}
  BY <1>1 DEF Ends, s
<1>3. e \in Nat /\ e >= 1 /\ e <= n /\ y \in Nat /\ y >= 1 /\ y <= b /\ s[e] = y
  BY <1>1, <1>2
<1>4. PICK k \in 1 .. MaxMessages : y = EndOf[k]
  BY <1>2, <1>3 DEF IsLast
<1>5. /\ k \in Nat /\ k >= 1 /\ k \in 0 .. MaxMessages /\ k - 1 \in 0 .. MaxMessages /\ k - 1 < k
      /\ EndOf[k - 1] \in Nat /\ EndOf[k] = y /\ EndOf[k - 1] + 2 < y + 1
  <2>1. k \in Nat /\ k >= 1 /\ k \in 0 .. MaxMessages /\ k - 1 \in 0 .. MaxMessages /\ k - 1 < k
    BY Constants
  <2>2. EndOf[k - 1] \in Nat /\ EndOf[k - 1] + 2 < EndOf[k] + 1
    BY <2>1, EndFacts
  <2> HIDE DEF y
  <2> QED
    BY <1>4, <2>1, <2>2
<1>7. Starts(s, e) \subseteq Nat
  BY <1>3 DEF Starts
<1>8. i \in Starts(s, e) /\ \A j \in Starts(s, e) : i <= j
  BY <1>2, <1>7, MinFacts
<1> HIDE DEF i
<1>9. i \in Nat /\ i >= 1 /\ i < e /\ (\A j \in i .. e - 1 : ~IsLast(s[j])) /\ s[i] = x
  BY <1>1, <1>3, <1>8 DEF Starts
<1>10. x \in Nat /\ a <= x /\ x < y
  BY <1>3, <1>9
<1>11. Cut(Bytes(a, b), e) = Bytes(x, y)
  <2>1. Cut(Bytes(a, b), e) = SubSeq(Bytes(a, b), i, e)
    BY DEF Cut, i, s
  <2>2. e \in Nat /\ i \in Nat /\ i >= 1 /\ i <= e /\ e <= b - a + 1
    BY <1>3, <1>9
  <2>3. SubSeq(Bytes(a, b), i, e) = Bytes(a + i - 1, a + e - 1)
    BY <2>2, CutBytes
  <2> QED
    BY <2>1, <2>3
<1>12. EndOf[k - 1] < x
  <2> SUFFICES ASSUME x <= EndOf[k - 1] PROVE FALSE
    BY <1>5, <1>10
  <2> DEFINE z == EndOf[k - 1]
             j == z - a + 1
  <2>1. z \in Nat /\ x <= z /\ z < y
    BY <1>3, <1>5
  <2>0. z \in Nat /\ z >= 1
    BY <1>9, <2>1
  <2>2. IsLast(z)
    <3>1. k - 1 # 0
      BY <2>0, ConstantsAssumption
    <3>2. k - 1 \in 1 .. MaxMessages
      BY <1>5, <3>1
    <3> QED
      BY <3>2 DEF IsLast
  <2> HIDE DEF z
  <2>3. j \in i .. e - 1 /\ j \in 1 .. n /\ a + j - 1 = z
    BY <1>3, <1>9, <2>1
  <2>4. s[j] = z
    BY <1>1, <2>3
  <2> QED
    BY <1>9, <2>2, <2>3, <2>4
<1>13. ASSUME a <= EndOf[k - 1] + 1 PROVE x = EndOf[k - 1] + 1
  <2> DEFINE z == EndOf[k - 1] + 1
             j == z - a + 1
  <2>1. z \in Nat /\ a <= z /\ z <= x /\ z < y
    BY <1>3, <1>5, <1>10, <1>12, <1>13
  <2>2. z \in Eights
    BY <1>4, ConstantsAssumption
  <2>7. EndOf[k - 1] = z - 1
    BY <1>5
  <2> HIDE DEF z
  <2>3. j \in 1 .. e - 1 /\ j \in 1 .. n /\ a + j - 1 = z
    BY <1>3, <2>1
  <2>4. s[j] \in Eights
    BY <1>1, <2>2, <2>3
  <2>5. ASSUME NEW m \in j .. e - 1 PROVE ~IsLast(s[m])
    <3> DEFINE w == a + m - 1
    <3>1. m \in 1 .. n /\ w \in Nat /\ z <= w /\ w < y
      BY <1>3, <2>1, <2>3, <2>5
    <3>2. s[m] = w
      BY <1>1, <3>1
    <3> HIDE DEF w
    <3>3. EndOf[k - 1] < w /\ w <= EndOf[k]
      <4>1. y \in Nat /\ EndOf[k] = y /\ EndOf[k - 1] = z - 1
        BY <1>3, <1>5, <2>7
      <4> HIDE DEF y
      <4> QED
        BY <2>1, <3>1, <4>1
    <3>4. IsLast(w) <=> w = EndOf[k]
      BY <3>1, <3>3, PlaceUnique
    <3> QED
      BY <1>3, <1>5, <3>1, <3>2, <3>4
  <2>6. j \in Starts(s, e)
    BY <2>3, <2>4, <2>5 DEF Starts
  <2>9. i <= j
    BY <1>8, <2>6
  <2>10. x <= z
    BY <1>9, <2>1, <2>9
  <2> QED
    BY <1>10, <2>1, <2>10 DEF z
<1>14. x \in Stream
  <2>1. x >= 1 /\ x <= b /\ x \in Nat
    BY <1>3, <1>10
  <2> HIDE DEF x
  <2> QED
    BY <2>1, StreamFacts DEF Stream
<1>15. /\ a + e - 1 = EndOf[k] /\ a <= x /\ Cut(Bytes(a, b), e) = Bytes(x, EndOf[k])
       /\ EndOf[k - 1] < x /\ x < EndOf[k]
  BY <1>5, <1>10, <1>11, <1>12
<1> HIDE DEF x, y
<1>16. \E m \in 1 .. MaxMessages, z \in Stream :
         /\ a + e - 1 = EndOf[m] /\ a <= z
         /\ Cut(Bytes(a, b), e) = Bytes(z, EndOf[m])
         /\ EndOf[m - 1] < z /\ z < EndOf[m]
         /\ a <= EndOf[m - 1] + 1 => z = EndOf[m - 1] + 1
  BY <1>13, <1>14, <1>15
<1> QED
  BY <1>3, <1>16

(* Messages come out of the parser with their bytes, in their order. *)
LEMMA CutOrder ==
  ASSUME NEW a \in Nat, NEW b \in Nat, a >= 1, a <= b + 1, b <= Length,
         NEW e \in Ends(Bytes(a, b))
  PROVE  /\ Cut(Bytes(a, b), e) \in Seq(Stream)
         /\ MessageOf(Cut(Bytes(a, b), e)[1]) \in 1 .. MaxMessages
         /\ EndOf[MessageOf(Cut(Bytes(a, b), e)[1])] = a + e - 1
<1>1. PICK k \in 1 .. MaxMessages, x \in Stream :
        /\ a + e - 1 = EndOf[k] /\ a <= x
        /\ Cut(Bytes(a, b), e) = Bytes(x, EndOf[k])
        /\ EndOf[k - 1] < x /\ x < EndOf[k]
  BY CutFacts
<1> DEFINE y == EndOf[k]
<1>0. k \in 0 .. MaxMessages
  BY Constants
<1>2. k \in Nat /\ k >= 1 /\ x \in Nat /\ x >= 1
  BY Constants, StreamFacts
<1>3. y \in Nat /\ y <= Length
  <2>1. y \in Nat
    BY <1>0, EndFacts
  <2>2. e \in Nat /\ e <= b - a + 1
    BY CutFacts
  <2> HIDE DEF y
  <2>3. y = a + e - 1
    BY <1>1 DEF y
  <2> QED
    BY <2>1, <2>2, <2>3, StreamFacts
<1>4. x < y /\ Cut(Bytes(a, b), e) = Bytes(x, y)
  BY <1>1
<1>5. MessageOf(x) = k
  BY <1>1, <1>2, <1>3, PlaceUnique
<1> HIDE DEF y
<1>6. x <= y + 1 /\ 1 \in 1 .. y - x + 1 /\ x + 1 - 1 = x
  BY <1>2, <1>3, <1>4
<1>7. Bytes(x, y) \in Seq(Stream) /\ Bytes(x, y)[1] = x
  BY <1>2, <1>3, <1>6, BytesFacts
<1> QED
  BY <1>1, <1>2, <1>4, <1>5, <1>7

(* One round of the parser's loop *)
Round(bytes, q, i) == IF i \in Ends(bytes) THEN Append(q, Cut(bytes, i)) ELSE q

(* The equation of the loop up to index n *)
Loop(bytes, g, n) ==
  g = [i \in 0 .. n |-> IF i = 0 THEN <<>> ELSE Round(bytes, g[i - 1], i)]

LEMMA LoopExists ==
  ASSUME NEW bytes, NEW N \in Nat
  PROVE  \E g : Loop(bytes, g, N)
<1> DEFINE D == {n \in Nat : ~ \E g : Loop(bytes, g, n)}
<1> SUFFICES ASSUME D # {} PROVE FALSE
  OBVIOUS
<1>1. PICK n \in D : \A m \in D : n <= m
  <2>1. D \subseteq Nat
    OBVIOUS
  <2> HIDE DEF D
  <2> QED
    BY <2>1, LeastExists
<1>2. n \in Nat /\ ~ \E g : Loop(bytes, g, n)
  OBVIOUS
<1>3. CASE n = 0
  <2> DEFINE g == [i \in 0 .. 0 |-> <<>>]
  <2>1. \A i \in 0 .. 0 : i = 0
    OBVIOUS
  <2>2. g = [i \in 0 .. 0 |-> IF i = 0 THEN <<>> ELSE Round(bytes, g[i - 1], i)]
    BY <2>1
  <2>3. Loop(bytes, g, 0)
    BY <2>2 DEF Loop
  <2> QED
    BY <1>2, <1>3, <2>3
<1>4. CASE n # 0
  <2>1. n - 1 \in Nat /\ ~(n <= n - 1)
    BY <1>2, <1>4
  <2>2. PICK f : Loop(bytes, f, n - 1)
    BY <1>1, <2>1
  <2> DEFINE g == [i \in 0 .. n |-> IF i = n THEN Round(bytes, f[n - 1], n) ELSE f[i]]
             h == [i \in 0 .. n |-> IF i = 0 THEN <<>> ELSE Round(bytes, g[i - 1], i)]
  <2>3. \A i \in 0 .. n - 1 : f[i] = IF i = 0 THEN <<>> ELSE Round(bytes, f[i - 1], i)
    BY <2>2 DEF Loop
  <2>4. \A i \in 0 .. n - 1 : g[i] = f[i]
    BY <1>2
  <2>5. ASSUME NEW i \in 0 .. n PROVE g[i] = IF i = 0 THEN <<>> ELSE Round(bytes, g[i - 1], i)
    <3>1. CASE i = n
      <4>1. n - 1 \in 0 .. n - 1 /\ n \in 0 .. n
        BY <1>2, <2>1
      <4>2. g[n] = Round(bytes, f[n - 1], n) /\ g[n - 1] = f[n - 1]
        BY <2>4, <4>1
      <4> HIDE DEF g
      <4> QED
        BY <1>4, <3>1, <4>2
    <3>2. CASE i = 0
      <4>1. 0 \in 0 .. n - 1
        BY <2>1
      <4>2. g[0] = <<>>
        BY <2>3, <2>4, <4>1
      <4> HIDE DEF g
      <4> QED
        BY <3>2, <4>2
    <3>3. CASE i # n /\ i # 0
      <4>1. i \in 0 .. n - 1 /\ i - 1 \in 0 .. n - 1
        BY <1>2, <2>5, <3>3
      <4>2. g[i] = f[i] /\ g[i - 1] = f[i - 1]
        BY <2>4, <4>1
      <4> HIDE DEF g
      <4> QED
        BY <2>3, <3>3, <4>1, <4>2
    <3> QED
      BY <3>1, <3>2, <3>3
  <2>6. DOMAIN g = 0 .. n /\ g = [i \in 0 .. n |-> g[i]]
    OBVIOUS
  <2> HIDE DEF g
  <2>7. Loop(bytes, g, n)
    BY <2>5, <2>6 DEF Loop
  <2> QED
    BY <1>2, <2>7
<1> QED
  BY <1>3, <1>4

LEMMA ParsedLoop ==
  ASSUME NEW bytes, Len(bytes) \in Nat
  PROVE  /\ Parsed(bytes)[0] = <<>>
         /\ \A i \in 1 .. Len(bytes) : Parsed(bytes)[i] = Round(bytes, Parsed(bytes)[i - 1], i)
<1> DEFINE N == Len(bytes)
<1>1. PICK g : Loop(bytes, g, N)
  BY LoopExists
<1>2. Loop(bytes, Parsed(bytes), N)
  BY <1>1 DEF Loop, Parsed, Round, Cut
<1> QED
  BY <1>2 DEF Loop

(* q is what the loop may have found when it has got to index i. *)
Found(bytes, q, i) ==
  /\ q \in Seq(Seq(Stream))
  /\ \A m \in 1 .. Len(q) : \E e \in Ends(bytes) : e <= i /\ q[m] = Cut(bytes, e)
  /\ Ordered(q)

LEMMA RoundFinds ==
  ASSUME NEW a \in Nat, NEW b \in Nat, a >= 1, a <= b + 1, b <= Length,
         NEW i \in Nat, i >= 1, NEW q, Found(Bytes(a, b), q, i - 1)
  PROVE  Found(Bytes(a, b), Round(Bytes(a, b), q, i), i)
<1> DEFINE s == Bytes(a, b)
           c == Cut(s, i)
           r == Append(q, c)
<1>0. Ends(s) \subseteq Nat
  <2>1. Len(s) \in Nat
    BY BytesFacts
  <2> HIDE DEF s
  <2> QED
    BY <2>1 DEF Ends
<1>1. q \in Seq(Seq(Stream))
  BY DEF Found
<1>2. \A m \in 1 .. Len(q) : \E e \in Ends(s) : e <= i - 1 /\ q[m] = Cut(s, e)
  BY DEF Found
<1>3. \A m \in 1 .. Len(q) : \A l \in 1 .. m - 1 : MessageOf(q[l][1]) < MessageOf(q[m][1])
  BY DEF Found, Ordered
<1>4. \A e \in Ends(s) : /\ Cut(s, e) \in Seq(Stream) /\ MessageOf(Cut(s, e)[1]) \in 1 .. MaxMessages
                         /\ EndOf[MessageOf(Cut(s, e)[1])] = a + e - 1
  BY CutOrder
<1> HIDE DEF s
<1>5. CASE i \notin Ends(s)
  <2>1. Round(s, q, i) = q
    BY <1>5 DEF Round
  <2>2. \A m \in 1 .. Len(q) : \E e \in Ends(s) : e <= i /\ q[m] = Cut(s, e)
    BY <1>0, <1>2
  <2>3. Found(s, q, i)
    BY <1>1, <1>3, <2>2 DEF Found, Ordered
  <2> QED
    BY <2>1, <2>3 DEF s
<1>6. CASE i \in Ends(s)
  <2>1. Round(s, q, i) = r
    BY <1>6 DEF Round
  <2>2. c \in Seq(Stream) /\ MessageOf(c[1]) \in 1 .. MaxMessages /\ EndOf[MessageOf(c[1])] = a + i - 1
    BY <1>4, <1>6
  <2>9. \E e \in Ends(s) : e <= i /\ c = Cut(s, e)
    BY <1>6
  <2> HIDE DEF c
  <2>3. /\ r \in Seq(Seq(Stream)) /\ Len(r) = Len(q) + 1 /\ Len(q) \in Nat
        /\ \A m \in 1 .. Len(q) : r[m] = q[m]
        /\ r[Len(q) + 1] = c
    BY <1>1, <2>2
  <2> HIDE DEF r
  <2>4. \A m \in 1 .. Len(r) : \E e \in Ends(s) : e <= i /\ r[m] = Cut(s, e)
    <3>1. ASSUME NEW m \in 1 .. Len(q) PROVE \E e \in Ends(s) : e <= i /\ r[m] = Cut(s, e)
      <4>1. PICK e \in Ends(s) : e <= i - 1 /\ q[m] = Cut(s, e)
        BY <1>2, <3>1
      <4>2. e \in Nat /\ e <= i /\ r[m] = Cut(s, e)
        BY <1>0, <2>3, <3>1, <4>1
      <4> QED
        BY <4>2
    <3>2. \E e \in Ends(s) : e <= i /\ r[Len(q) + 1] = Cut(s, e)
      BY <2>3, <2>9
    <3>3. \A m \in 1 .. Len(r) : m \in 1 .. Len(q) \/ m = Len(q) + 1
      BY <2>3
    <3> QED
      BY <3>1, <3>2, <3>3
  <2>5. ASSUME NEW l \in 1 .. Len(q) PROVE MessageOf(q[l][1]) < MessageOf(c[1])
    <3>1. PICK e \in Ends(s) : e <= i - 1 /\ q[l] = Cut(s, e)
      BY <1>2, <2>5
    <3> DEFINE k == MessageOf(q[l][1])
               m == MessageOf(c[1])
    <3>2. /\ k \in 1 .. MaxMessages /\ EndOf[k] = a + e - 1
          /\ m \in 1 .. MaxMessages /\ EndOf[m] = a + i - 1 /\ e \in Nat
      BY <1>0, <1>4, <2>2, <3>1
    <3> HIDE DEF k, m
    <3>3. EndOf[k] < EndOf[m]
      <4>1. a + e - 1 < a + i - 1
        BY <3>1, <3>2
      <4> QED
        BY <3>2, <4>1
    <3>5. k \in 0 .. MaxMessages /\ m \in 0 .. MaxMessages
      BY <3>2, Constants
    <3>4. k < m
      BY <3>3, <3>5, EndFacts
    <3> QED
      BY <3>4 DEF k, m
  <2>6. \A m \in 1 .. Len(r) : \A l \in 1 .. m - 1 : MessageOf(r[l][1]) < MessageOf(r[m][1])
    <3>1. ASSUME NEW m \in 1 .. Len(r), NEW l \in 1 .. m - 1
          PROVE  MessageOf(r[l][1]) < MessageOf(r[m][1])
      <4>1. l \in 1 .. Len(q) /\ r[l] = q[l]
        BY <2>3, <3>1
      <4>2. CASE m = Len(q) + 1
        BY <2>3, <2>5, <4>1, <4>2
      <4>3. CASE m # Len(q) + 1
        <5>1. m \in 1 .. Len(q) /\ r[m] = q[m]
          BY <2>3, <3>1, <4>3
        <5> QED
          BY <1>3, <4>1, <5>1, <3>1
      <4> QED
        BY <4>2, <4>3
    <3> QED
      BY <3>1
  <2>7. Found(s, r, i)
    BY <2>3, <2>4, <2>6 DEF Found, Ordered
  <2> QED
    BY <2>1, <2>7 DEF s
<1> QED
  BY <1>5, <1>6

(* parseMultipleMessagesFromBuffer finds messages that are complete, in    *)
(* their order and none twice.                                             *)
LEMMA ParserFinds ==
  ASSUME NEW a \in Nat, NEW b \in Nat, a >= 1, a <= b + 1, b <= Length
  PROVE  Found(Bytes(a, b), ParseMultipleMessages(Bytes(a, b)), Len(Bytes(a, b)))
<1> DEFINE s == Bytes(a, b)
           N == Len(s)
           f == Parsed(s)
           D == {n \in 0 .. N : ~Found(s, f[n], n)}
<1>1. N \in Nat
  BY BytesFacts
<1>2. f[0] = <<>> /\ \A i \in 1 .. N : f[i] = Round(s, f[i - 1], i)
  BY <1>1, ParsedLoop
<1>3. ASSUME NEW i \in 1 .. N, Found(s, f[i - 1], i - 1) PROVE Found(s, f[i], i)
  <2>1. i \in Nat /\ i >= 1
    BY <1>1
  <2>2. Found(s, Round(s, f[i - 1], i), i)
    BY <1>3, <2>1, RoundFinds
  <2> HIDE DEF s, f
  <2> QED
    BY <1>2, <1>3, <2>2
<1>4. Found(s, f[0], 0)
  <2> HIDE DEF s, f
  <2> QED
    BY <1>2 DEF Found, Ordered
<1> HIDE DEF s, f, N
<1>5. D = {}
  <2> SUFFICES ASSUME D # {} PROVE FALSE
    OBVIOUS
  <2>1. D \subseteq Nat
    BY <1>1
  <2>2. PICK n \in D : \A m \in D : n <= m
    <3> HIDE DEF D
    <3> QED
      BY <2>1, LeastExists
  <2>3. n \in 0 .. N /\ ~Found(s, f[n], n)
    OBVIOUS
  <2>4. n \in 1 .. N
    <3>1. n # 0
      BY <1>4, <2>3
    <3> QED
      BY <1>1, <2>3, <3>1
  <2>5. n - 1 \in 0 .. N /\ ~(n <= n - 1)
    BY <1>1, <2>4
  <2>6. Found(s, f[n - 1], n - 1)
    BY <2>2, <2>5
  <2> QED
    BY <1>3, <2>3, <2>4, <2>6
<1>6. Found(s, f[N], N)
  BY <1>1, <1>5
<1> QED
  BY <1>6 DEF ParseMultipleMessages, s, f, N
-----------------------------------------------------------------------------
(* What is delivered *)

LEMMA PieceFacts ==
  ASSUME NEW k \in 1 .. MaxMessages, NEW D, NEW d, Piece(d, k, D)
  PROVE  /\ MessageOf(d[1]) = k
         /\ d = Whole(k) \/ k \in D
<1>1. PICK a \in Stream : /\ d = Bytes(a, EndOf[k])
                          /\ EndOf[k - 1] < a /\ a <= EndOf[k]
                          /\ a = EndOf[k - 1] + 1 \/ k \in D
  BY DEF Piece
<1>0. k \in 0 .. MaxMessages
  BY Constants
<1>2. k \in Nat /\ k >= 1 /\ a \in Nat /\ a >= 1 /\ EndOf[k] \in Nat
  BY <1>0, EndFacts, StreamFacts
<1>3. MessageOf(a) = k
  BY <1>1, <1>2, PlaceUnique
<1> DEFINE y == EndOf[k]
<1>4. y \in Nat /\ a <= y /\ d = Bytes(a, y)
  BY <1>1, <1>2
<1> HIDE DEF y
<1>5. a <= y + 1 /\ 1 \in 1 .. y - a + 1 /\ a + 1 - 1 = a
  BY <1>2, <1>4
<1>6. d[1] = a
  BY <1>2, <1>4, <1>5, BytesFacts
<1> QED
  BY <1>1, <1>3, <1>6 DEF Whole

(* More damage, or a later byte, changes nothing for the pieces. *)
LEMMA StillEnded ==
  ASSUME NEW d, NEW c \in Nat, NEW c2 \in Nat, c <= c2, NEW D, NEW D2, D \subseteq D2,
         EndBefore(d, c, D)
  PROVE  EndBefore(d, c2, D2)
<1>1. ASSUME NEW i \in 1 .. Len(d)
      PROVE  \E k \in 1 .. MaxMessages : EndOf[k] < c2 /\ Piece(d[i], k, D2)
  <2>1. PICK k \in 1 .. MaxMessages : EndOf[k] < c /\ Piece(d[i], k, D)
    BY <1>1 DEF EndBefore
  <2>2. EndOf[k] \in Nat
    <3>1. k \in 0 .. MaxMessages
      BY Constants
    <3> QED
      BY <3>1, EndFacts
  <2>3. EndOf[k] < c2
    <3> DEFINE p == EndOf[k]
    <3>1. p \in Nat /\ p < c
      BY <2>1, <2>2
    <3> HIDE DEF p
    <3>2. p < c2
      BY <3>1
    <3> QED
      BY <3>2 DEF p
  <2>4. Piece(d[i], k, D2)
    BY <2>1 DEF Piece
  <2> QED
    BY <2>3, <2>4
<1> QED
  BY <1>1 DEF EndBefore

(* The pieces q of the messages that end between c and c2 come after the   *)
(* pieces d of those that end before c.                                    *)
LEMMA JoinPieces ==
  ASSUME NEW d \in Seq(Seq(Stream)), NEW q \in Seq(Seq(Stream)), NEW D, NEW D2, D \subseteq D2,
         NEW c \in Nat, NEW c2 \in Nat, c <= c2, EndBefore(d, c, D), Ordered(d), Ordered(q),
         \A i \in 1 .. Len(q) :
           \E k \in 1 .. MaxMessages : c <= EndOf[k] /\ EndOf[k] < c2 /\ Piece(q[i], k, D2)
  PROVE  d \o q \in Seq(Seq(Stream)) /\ EndBefore(d \o q, c2, D2) /\ Ordered(d \o q)
<1> DEFINE r == d \o q
<1>1. /\ r \in Seq(Seq(Stream)) /\ Len(r) = Len(d) + Len(q) /\ Len(d) \in Nat /\ Len(q) \in Nat
      /\ \A i \in 1 .. Len(d) + Len(q) : r[i] = IF i <= Len(d) THEN d[i] ELSE q[i - Len(d)]
  OBVIOUS
<1> HIDE DEF r
<1>2. \A i \in 1 .. Len(d) : r[i] = d[i]
  BY <1>1
<1>3. \A i \in 1 .. Len(r) :
        i \in 1 .. Len(d) \/ (i - Len(d) \in 1 .. Len(q) /\ r[i] = q[i - Len(d)])
  <2>1. ASSUME NEW i \in 1 .. Len(r), i \notin 1 .. Len(d)
        PROVE  i - Len(d) \in 1 .. Len(q) /\ r[i] = q[i - Len(d)]
    <3>1. i \in 1 .. Len(d) + Len(q) /\ ~(i <= Len(d)) /\ i - Len(d) \in 1 .. Len(q)
      BY <1>1, <2>1
    <3> QED
      BY <1>1, <3>1
  <2> QED
    BY <2>1
<1>4. EndBefore(d, c2, D2)
  BY StillEnded
<1>5. EndBefore(r, c2, D2)
  <2>1. ASSUME NEW i \in 1 .. Len(r)
        PROVE  \E k \in 1 .. MaxMessages : EndOf[k] < c2 /\ Piece(r[i], k, D2)
    <3>1. CASE i \in 1 .. Len(d)
      BY <1>2, <1>4, <3>1 DEF EndBefore
    <3>2. CASE i \notin 1 .. Len(d)
      BY <1>3, <2>1, <3>2
    <3> QED
      BY <3>1, <3>2
  <2> QED
    BY <2>1 DEF EndBefore
<1>6. ASSUME NEW i \in 1 .. Len(d), NEW j \in 1 .. Len(q)
      PROVE  MessageOf(d[i][1]) < MessageOf(q[j][1])
  <2>1. PICK k \in 1 .. MaxMessages : EndOf[k] < c /\ Piece(d[i], k, D)
    BY <1>6 DEF EndBefore
  <2>2. PICK m \in 1 .. MaxMessages : c <= EndOf[m] /\ Piece(q[j], m, D2)
    BY <1>6
  <2>3. k \in 0 .. MaxMessages /\ m \in 0 .. MaxMessages
    BY Constants
  <2>4. EndOf[k] \in Nat /\ EndOf[m] \in Nat
    BY <2>3, EndFacts
  <2>5. EndOf[k] < EndOf[m]
    <3> DEFINE x == EndOf[k]
               y == EndOf[m]
    <3>1. x \in Nat /\ y \in Nat /\ x < c /\ c <= y
      BY <2>1, <2>2, <2>4
    <3> HIDE DEF x, y
    <3>2. x < y
      BY <3>1
    <3> QED
      BY <3>2 DEF x, y
  <2>6. k < m
    BY <2>3, <2>5, EndFacts
  <2>7. MessageOf(d[i][1]) = k /\ MessageOf(q[j][1]) = m
    BY <2>1, <2>2, PieceFacts
  <2> QED
    BY <2>6, <2>7
<1>7. ASSUME NEW i \in 1 .. Len(r), NEW j \in 1 .. i - 1
      PROVE  MessageOf(r[j][1]) < MessageOf(r[i][1])
  <2>0. j \in 1 .. Len(r)
    BY <1>1, <1>7
  <2>1. CASE i \in 1 .. Len(d)
    <3>1. j \in 1 .. Len(d)
      BY <1>1, <2>1, <1>7
    <3> QED
      BY <1>2, <1>7, <2>1, <3>1 DEF Ordered
  <2>2. CASE i \notin 1 .. Len(d)
    <3>1. i - Len(d) \in 1 .. Len(q) /\ r[i] = q[i - Len(d)]
      BY <1>3, <1>7, <2>2
    <3>2. CASE j \in 1 .. Len(d)
      BY <1>2, <1>6, <3>1, <3>2
    <3>3. CASE j \notin 1 .. Len(d)
      <4>1. r[j] = q[j - Len(d)] /\ j - Len(d) \in 1 .. Len(q)
        BY <1>3, <2>0, <3>3
      <4>2. j - Len(d) \in 1 .. (i - Len(d)) - 1
        BY <1>1, <1>7, <4>1
      <4> QED
        BY <3>1, <4>1, <4>2 DEF Ordered
    <3> QED
      BY <3>2, <3>3
  <2> QED
    BY <2>1, <2>2
<1>8. Ordered(r)
  BY <1>7 DEF Ordered
<1> QED
  BY <1>1, <1>5, <1>8 DEF r
-----------------------------------------------------------------------------
(* What stays in the cache *)

LEMMA EmptyBytes ==
  ASSUME NEW b \in Nat
  PROVE  Bytes(b + 1, b) = <<>>
<1>1. b + 1 \in Nat /\ b + 1 <= b + 1 /\ b - (b + 1) + 1 = 0
  OBVIOUS
<1>2. Bytes(b + 1, b) \in Seq(Nat) /\ Len(Bytes(b + 1, b)) = 0
  BY <1>1, BytesFacts
<1> QED
  BY <1>2

(* After the end of a message comes the first byte of one; the byte after  *)
(* that is in the same message.                                            *)
LEMMA NextMessage ==
  ASSUME NEW k \in 0 .. MaxMessages
  PROVE  /\ IsFirst(EndOf[k] + 1)
         /\ k < MaxMessages => MessageOf(EndOf[k] + 1) = k + 1 /\ MessageOf(EndOf[k] + 2) = k + 1
<1>1. IsFirst(EndOf[k] + 1)
  BY DEF IsFirst
<1>2. ASSUME k < MaxMessages
      PROVE  MessageOf(EndOf[k] + 1) = k + 1 /\ MessageOf(EndOf[k] + 2) = k + 1
  <2> DEFINE m == k + 1
  <2>1. m \in 1 .. MaxMessages /\ m \in 0 .. MaxMessages /\ m - 1 = k /\ k < m
    BY <1>2, Constants
  <2> HIDE DEF m
  <2>2. EndOf[k] \in Nat /\ EndOf[m] \in Nat /\ EndOf[k] + 2 < EndOf[m] + 1
    BY <2>1, EndFacts
  <2> DEFINE p == EndOf[k]
  <2>3. p + 1 \in Nat /\ p + 2 \in Nat /\ p < p + 1 /\ p < p + 2 /\ p + 1 <= EndOf[m] /\ p + 2 <= EndOf[m]
    BY <2>2
  <2>4. EndOf[m - 1] = p
    BY <2>1
  <2> HIDE DEF p
  <2>5. MessageOf(p + 1) = m /\ MessageOf(p + 2) = m
    BY <2>1, <2>3, <2>4, PlaceUnique
  <2> QED
    BY <2>5 DEF p, m
<1> QED
  BY <1>1, <1>2

(* The bytes that parse() keeps start behind all complete messages, at the *)
(* first byte of a message or, if that one is dropped, after it.           *)
LEMMA AfterParse ==
  ASSUME NEW a \in Nat, NEW b \in Nat, a >= 1, a <= b + 1, b <= Length,
         NEW s, s = Bytes(a, b), Ends(s) # {},
         NEW lost, lost = IF RestStart(s) = Len(s) THEN {MessageOf(s[RestStart(s)])} ELSE {}
  PROVE  /\ lost \subseteq 1 .. MaxMessages
         /\ \E c \in Nat : /\ a <= c /\ c <= b + 1
                           /\ Remaining(s, RestStart(s)) = Bytes(c, b)
                           /\ \A e \in Ends(s) : a + e - 1 < c
                           /\ AtBoundary(c, lost)
<1> DEFINE rest == RestStart(s)
           last == Max(Ends(s) \cup {0})
           n == Len(s)
<1>1. /\ s \in Seq(Stream) /\ n = b - a + 1 /\ n \in Nat
      /\ \A j \in 1 .. b - a + 1 : s[j] = a + j - 1
  <2>1. /\ Bytes(a, b) \in Seq(Stream) /\ Len(Bytes(a, b)) = b - a + 1
        /\ \A j \in 1 .. b - a + 1 : Bytes(a, b)[j] = a + j - 1
    BY BytesFacts
  <2>2. b - a + 1 \in Nat
    OBVIOUS
  <2> QED
    BY <2>1, <2>2
<1>2. Ends(s) \subseteq 1 .. n
  BY DEF Ends
<1> HIDE DEF n
<1>3. Ends(s) \cup {0} \subseteq 0 .. n /\ Ends(s) \cup {0} # {}
  BY <1>1, <1>2
<1>4. last \in Ends(s) \cup {0} /\ \A y \in Ends(s) \cup {0} : last >= y
  BY <1>1, <1>3, MaxFacts
<1>5. rest = last + 1
  BY DEF RestStart
<1> HIDE DEF rest, last
<1>6. last \in Ends(s) /\ \A e \in Ends(s) : e <= last
  <2>1. PICK e \in Ends(s) : TRUE
    OBVIOUS
  <2>2. e \in 1 .. n /\ last >= e
    BY <1>2, <1>4, <2>1
  <2>3. last # 0
    BY <1>1, <2>2
  <2>4. \A f \in Ends(s) : f \in 1 .. n /\ last >= f
    BY <1>2, <1>4
  <2>5. last \in Ends(s)
    BY <1>4, <2>3
  <2> QED
    BY <1>1, <1>2, <2>4, <2>5
<1>7. last \in Nat /\ last >= 1 /\ last <= n
  BY <1>1, <1>2, <1>6
<1>8. PICK k \in 1 .. MaxMessages : a + last - 1 = EndOf[k]
  BY <1>6, CutFacts
<1>9. k \in Nat /\ k \in 0 .. MaxMessages /\ EndOf[k] \in Nat
  <2>1. k \in Nat /\ k \in 0 .. MaxMessages
    BY Constants
  <2> QED
    BY <2>1, EndFacts
<1>10. /\ IsFirst(EndOf[k] + 1)
       /\ k < MaxMessages => MessageOf(EndOf[k] + 1) = k + 1 /\ MessageOf(EndOf[k] + 2) = k + 1
  BY <1>9, NextMessage
<1> DEFINE p == EndOf[k]
<1>11. p \in Nat /\ a + last - 1 = p /\ a + rest - 1 = p + 1 /\ p >= a /\ rest \in Nat
  BY <1>5, <1>7, <1>8, <1>9
<1>12. /\ IsFirst(p + 1)
       /\ k < MaxMessages => MessageOf(p + 1) = k + 1 /\ MessageOf(p + 2) = k + 1
  BY <1>10
<1>18. p = EndOf[k]
  OBVIOUS
<1> HIDE DEF p
<1>13. \A e \in Ends(s) : a + e - 1 < p + 1
  BY <1>1, <1>2, <1>6, <1>7, <1>11
<1>14. CASE n > rest
  <2>1. lost = {}
    BY <1>1, <1>11, <1>14 DEF n, rest
  <2>2. p + 1 \in Nat /\ a <= p + 1 /\ p + 1 <= b + 1
    BY <1>1, <1>11, <1>14
  <2>3. Remaining(s, rest) = SubSeq(s, rest, n)
    BY <1>14 DEF Remaining, n
  <2>4. SubSeq(s, rest, n) = Bytes(a + rest - 1, a + n - 1)
    <3>1. n \in Nat /\ rest \in Nat /\ rest >= 1 /\ rest <= n /\ n <= b - a + 1
      BY <1>1, <1>5, <1>7, <1>11, <1>14
    <3> QED
      BY <3>1, CutBytes
  <2>5. a + rest - 1 = p + 1 /\ a + n - 1 = b
    BY <1>1, <1>11
  <2>6. Remaining(s, rest) = Bytes(p + 1, b)
    BY <2>3, <2>4, <2>5
  <2>7. AtBoundary(p + 1, lost)
    BY <1>12 DEF AtBoundary
  <2> QED
    BY <1>13, <2>1, <2>2, <2>6, <2>7 DEF rest
<1>15. CASE n = rest
  <2>1. lost = {MessageOf(s[rest])}
    BY <1>15 DEF n, rest
  <2>2. rest \in 1 .. b - a + 1 /\ b = p + 1
    BY <1>1, <1>5, <1>7, <1>11, <1>15
  <2>3. s[rest] = p + 1
    BY <1>1, <1>11, <2>2
  <2>4. s[rest] \in Stream
    <3>1. s \in Seq(Stream) /\ rest \in 1 .. Len(s)
      BY <1>1, <1>15, <2>2 DEF n
    <3> QED
      BY <3>1
  <2>13. k < MaxMessages
    <3>1. p + 1 <= Length
      BY <2>3, <2>4, StreamFacts
    <3>2. k # MaxMessages
      BY <1>11, <1>18, <3>1, StreamFacts DEF Length
    <3> QED
      BY <1>9, <3>2, Constants
  <2>5. lost = {k + 1}
    BY <1>12, <2>1, <2>3, <2>13
  <2>6. k + 1 \in 1 .. MaxMessages
    BY <1>9, <2>13, Constants
  <2>7. Remaining(s, rest) = <<>>
    BY <1>1, <1>11, <1>15 DEF Remaining, n
  <2>8. Bytes(b + 1, b) = <<>>
    BY EmptyBytes
  <2>9. p + 2 = b + 1 /\ p + 2 \in Nat /\ a <= p + 2
    BY <1>11, <2>2
  <2>10. AtBoundary(p + 2, lost)
    BY <1>12, <2>5, <2>13 DEF AtBoundary
  <2>11. \A e \in Ends(s) : a + e - 1 < p + 2
    BY <1>1, <1>2, <1>6, <1>7, <1>11
  <2>12. Remaining(s, rest) = Bytes(p + 2, b)
    BY <2>7, <2>8, <2>9
  <2> QED
    BY <2>5, <2>6, <2>9, <2>10, <2>11, <2>12 DEF rest
<1>16. CASE n < rest
  <2>1. lost = {}
    BY <1>1, <1>11, <1>16 DEF n, rest
  <2>2. b = p /\ p + 1 = b + 1 /\ p + 1 \in Nat /\ a <= p + 1
    BY <1>1, <1>5, <1>7, <1>11, <1>16
  <2>3. Remaining(s, rest) = <<>>
    BY <1>1, <1>11, <1>16 DEF Remaining, n
  <2>4. Bytes(b + 1, b) = <<>>
    BY EmptyBytes
  <2>5. AtBoundary(p + 1, lost)
    BY <1>12 DEF AtBoundary
  <2>6. Remaining(s, rest) = Bytes(p + 1, b)
    BY <2>2, <2>3, <2>4
  <2>7. p + 1 <= b + 1 /\ lost \subseteq 1 .. MaxMessages
    BY <2>1, <2>2
  <2>8. /\ a <= p + 1 /\ p + 1 <= b + 1
        /\ Remaining(s, RestStart(s)) = Bytes(p + 1, b)
        /\ \A e \in Ends(s) : a + e - 1 < p + 1
        /\ AtBoundary(p + 1, lost)
    BY <1>13, <2>2, <2>5, <2>6, <2>7 DEF rest
  <2> QED
    BY <2>2, <2>7, <2>8
<1>17. n > rest \/ n = rest \/ n < rest
  BY <1>1, <1>11
<1> QED
  BY <1>14, <1>15, <1>16, <1>17

(* What the parser finds in the bytes a .. b are pieces of messages, whole *)
(* but for one that is known to be damaged.                                *)
LEMMA FoundPieces ==
  ASSUME NEW a \in Nat, NEW b \in Nat, a >= 1, a <= b + 1, b <= Length,
         NEW D, AtBoundary(a, D), NEW e \in Ends(Bytes(a, b))
  PROVE  \E k \in 1 .. MaxMessages :
           a + e - 1 = EndOf[k] /\ a <= EndOf[k] /\ Piece(Cut(Bytes(a, b), e), k, D)
<1>1. PICK k \in 1 .. MaxMessages, x \in Stream :
        /\ a + e - 1 = EndOf[k] /\ a <= x
        /\ Cut(Bytes(a, b), e) = Bytes(x, EndOf[k])
        /\ EndOf[k - 1] < x /\ x < EndOf[k]
        /\ a <= EndOf[k - 1] + 1 => x = EndOf[k - 1] + 1
  BY CutFacts
<1> DEFINE y == EndOf[k]
           h == k - 1
           p == EndOf[h]
<1>2. k \in Nat /\ k >= 1 /\ k \in 0 .. MaxMessages /\ h \in 0 .. MaxMessages /\ x \in Nat
  BY Constants, StreamFacts
<1>3. p \in Nat /\ y \in Nat
  BY <1>2, EndFacts
<1>4. a <= x /\ p < x /\ x < y /\ (a <= p + 1 => x = p + 1)
  BY <1>1
<1> HIDE DEF y, p
<1>5. a <= y /\ x <= y
  BY <1>2, <1>3, <1>4
<1>6. x = p + 1 \/ k \in D
  <2>1. CASE a <= p + 1
    BY <1>4, <2>1
  <2>2. CASE ~(a <= p + 1)
    <3>1. p < a /\ a <= y /\ a # p + 1
      BY <1>3, <1>5, <2>2
    <3>2. MessageOf(a) = k /\ (IsFirst(a) <=> a = p + 1)
      BY <1>2, <3>1, PlaceUnique DEF p, y
    <3> QED
      BY <3>1, <3>2 DEF AtBoundary
  <2> QED
    BY <2>1, <2>2
<1>7. Piece(Cut(Bytes(a, b), e), k, D)
  BY <1>1, <1>4, <1>5, <1>6 DEF Piece, p, y
<1> QED
  BY <1>1, <1>5, <1>7 DEF y
-----------------------------------------------------------------------------
(* The invariant *)

LEMMA InitInv == Init => IInv
<1> SUFFICES ASSUME Init PROVE IInv
  OBVIOUS
<1> USE DEF Init
<1>1. TypeOK
  <2>1. mode \in {"caching", "oneByOne"}
    BY ConstantsAssumption
  <2>2. arrived \in 0 .. Length /\ read \in 0 .. arrived
    BY StreamFacts
  <2>3. buffer \in Seq(Stream) /\ delivered \in Seq(Seq(Stream))
    OBVIOUS
  <2>4. Len(buffer) <= Capacity /\ header \in 0 .. HeaderSize
    BY Constants
  <2>5. {connLost, closed, garbled} \subseteq BOOLEAN /\ decapitated \subseteq 1 .. MaxMessages
    OBVIOUS
  <2> QED
    BY <2>1, <2>2, <2>3, <2>4, <2>5 DEF TypeOK
<1>2. ModeInv
  BY DEF ModeInv
<1>3. BufferInv
  <2>1. Bytes(0 + 1, 0) = <<>>
    BY EmptyBytes
  <2>2. read - Len(buffer) + 1 = 0 + 1
    OBVIOUS
  <2> QED
    BY <2>1, <2>2 DEF BufferInv
<1>4. StartInv
  <2>1. Start = EndOf[0] + 1
    BY ConstantsAssumption DEF Start
  <2>2. IsFirst(EndOf[0] + 1)
    BY Constants DEF IsFirst
  <2> QED
    BY <2>1, <2>2 DEF StartInv, AtBoundary
<1>5. PiecesInv /\ OrderInv
  BY DEF PiecesInv, OrderInv, EndBefore, Ordered
<1> QED
  BY <1>1, <1>2, <1>3, <1>4, <1>5 DEF IInv

(* Arrive, OtherCallFails and a stuttering step leave the session alone. *)
LEMMA OutsideInv ==
  ASSUME IInv,
         Arrive \/ OtherCallFails \/ UNCHANGED vars
  PROVE  IInv'
<1>1. UNCHANGED <<mode, read, buffer, header, delivered, closed, garbled, decapitated>>
  BY DEF Arrive, OtherCallFails, vars
<1>2. arrived' \in 0 .. Length /\ read \in 0 .. arrived'
  <2>1. arrived \in 0 .. Length /\ read \in 0 .. arrived /\ Length \in Nat
    BY StreamFacts DEF IInv, TypeOK
  <2>2. CASE Arrive
    <3>1. arrived' \in arrived + 1 .. Length
      BY <2>2 DEF Arrive
    <3> QED
      BY <2>1, <3>1
  <2>3. CASE arrived' = arrived
    BY <2>1, <2>3
  <2> QED
    BY <2>2, <2>3 DEF OtherCallFails, vars
<1>3. connLost' \in BOOLEAN
  <2>1. connLost \in BOOLEAN
    BY DEF IInv, TypeOK
  <2> QED
    BY <2>1 DEF Arrive, OtherCallFails, vars
<1>4. TypeOK'
  BY <1>1, <1>2, <1>3 DEF IInv, TypeOK
<1>5. Start' = Start
  BY <1>1 DEF Start
<1>6. (ModeInv /\ BufferInv /\ StartInv /\ PiecesInv /\ OrderInv)'
  BY <1>1, <1>5 DEF IInv, ModeInv, BufferInv, StartInv, PiecesInv, OrderInv
<1> QED
  BY <1>4, <1>6 DEF IInv

(* The types as the steps below use them *)
LEMMA StateFacts ==
  ASSUME IInv
  PROVE  /\ arrived \in Nat /\ read \in Nat /\ read <= arrived /\ arrived <= Length
         /\ header \in Nat /\ header <= HeaderSize
         /\ Len(buffer) \in Nat /\ header + Len(buffer) <= read /\ Len(buffer) <= Capacity
         /\ Start \in Nat /\ Start >= 1
<1>1. /\ arrived \in Nat /\ read \in Nat /\ read <= arrived /\ arrived <= Length
      /\ header \in Nat /\ header <= HeaderSize
  BY StreamFacts, Constants DEF IInv, TypeOK
<1>2. Len(buffer) \in Nat /\ header + Len(buffer) <= read /\ Len(buffer) <= Capacity
  BY DEF IInv, TypeOK, ModeInv
<1>3. Start \in Nat /\ Start >= 1
  BY <1>1, <1>2 DEF Start
<1> QED
  BY <1>1, <1>2, <1>3

LEMMA BufferFacts ==
  ASSUME NEW c \in Nat, NEW r \in Nat, c >= 1, c <= r + 1, r <= Length,
         NEW buf, buf = Bytes(c, r)
  PROVE  /\ buf \in Seq(Stream) /\ Len(buf) = r - c + 1
         /\ buf # <<>> => Last(buf) = r
         /\ buf = Bytes(r - Len(buf) + 1, r)
<1>1. /\ Bytes(c, r) \in Seq(Stream) /\ Len(Bytes(c, r)) = r - c + 1
      /\ \A i \in 1 .. r - c + 1 : Bytes(c, r)[i] = c + i - 1
  BY BytesFacts
<1>2. buf \in Seq(Stream) /\ Len(buf) = r - c + 1
  BY <1>1
<1>3. ASSUME buf # <<>> PROVE Last(buf) = r
  <2>1. Len(buf) >= 1 /\ Len(buf) \in Nat
    BY <1>2, <1>3
  <2>2. r - c + 1 \in 1 .. r - c + 1 /\ c + (r - c + 1) - 1 = r
    BY <1>2, <2>1
  <2>3. buf[Len(buf)] = r
    BY <1>1, <1>2, <2>2
  <2> QED
    BY <2>3 DEF Last
<1>4. r - Len(buf) + 1 = c
  BY <1>2
<1> QED
  BY <1>2, <1>3, <1>4

(* A read with the cache *)
LEMMA CachingInv ==
  ASSUME IInv, ReceiveWithCaching
  PROVE  IInv'
<1> DEFINE size == Min({Room, arrived - read})
           b == read + size
           a == Start
           bytes == buffer \o Bytes(read + 1, b)
           none == Ends(bytes) = {}
           rest == RestStart(bytes)
           lost == IF ~none /\ rest = Len(bytes) THEN {MessageOf(bytes[rest])} ELSE {}
           found == ParseMultipleMessages(bytes)
<1>1. /\ arrived \in Nat /\ read \in Nat /\ read <= arrived /\ arrived <= Length
      /\ Len(buffer) \in Nat /\ header + Len(buffer) <= read /\ Len(buffer) <= Capacity
      /\ a \in Nat /\ a >= 1
  BY StateFacts
<1>2. mode = "caching" /\ header = 0 /\ ~garbled
  BY DEF IInv, ModeInv, ReceiveWithCaching, TypeOK
<1>3. a = read - Len(buffer) + 1
  BY <1>1, <1>2 DEF Start
<1>4. /\ read' = b
      /\ delivered' = delivered \o found
      /\ buffer' = IF none THEN bytes ELSE Remaining(bytes, rest)
      /\ closed' = (none /\ connLost)
      /\ decapitated' = decapitated \cup lost
      /\ garbled' \in BOOLEAN
      /\ UNCHANGED <<mode, arrived, header, connLost>>
  BY DEF ReceiveWithCaching
<1>5. size \in Nat /\ size <= Capacity - Len(buffer) /\ size <= arrived - read
  <2>1. Capacity - Len(buffer) \in Nat /\ arrived - read \in Nat
    BY <1>1, Constants
  <2>2. size = Min({Capacity - Len(buffer), arrived - read})
    BY DEF Room
  <2> QED
    BY <2>1, <2>2, MinOfTwo
<1> HIDE DEF size
<1>6. b \in Nat /\ read <= b /\ b <= arrived /\ b <= Length /\ a <= read + 1 /\ a <= b + 1
      /\ b - a + 1 <= Capacity
  BY <1>1, <1>3, <1>5, StreamFacts, Constants
<1> HIDE DEF a, b
<1>7. bytes = Bytes(a, b)
  <2>1. buffer = Bytes(a, read)
    BY <1>3 DEF IInv, BufferInv
  <2>2. Bytes(a, read) \o Bytes(read + 1, b) = Bytes(a, b)
    BY <1>1, <1>6, JoinBytes
  <2> QED
    BY <2>1, <2>2
<1> HIDE DEF bytes
<1>8. Found(bytes, found, Len(bytes))
  BY <1>1, <1>6, <1>7, ParserFinds
<1>9. AtBoundary(a, decapitated)
  BY <1>2 DEF IInv, StartInv, a
<1> HIDE DEF found
(* Where the cache begins now *)
<1>10. /\ lost \subseteq 1 .. MaxMessages
       /\ \E c \in Nat : /\ a <= c /\ c <= b + 1 /\ buffer' = Bytes(c, b)
                         /\ \A e \in Ends(bytes) : a + e - 1 < c
                         /\ AtBoundary(c, decapitated \cup lost)
  <2>1. CASE none
    <3>1. lost = {}
      BY <2>1
    <3>2. buffer' = Bytes(a, b)
      BY <1>4, <1>7, <2>1
    <3>3. \A e \in Ends(bytes) : a + e - 1 < a
      BY <2>1
    <3>4. AtBoundary(a, decapitated \cup lost)
      BY <1>9, <3>1
    <3>5. a <= a
      BY <1>1
    <3> HIDE DEF lost, none
    <3>6. lost \subseteq 1 .. MaxMessages
      BY <3>1
    <3> QED
      BY <1>1, <1>6, <3>2, <3>3, <3>4, <3>5, <3>6
  <2>2. CASE ~none
    <3>1. lost = IF RestStart(bytes) = Len(bytes) THEN {MessageOf(bytes[RestStart(bytes)])} ELSE {}
      BY <2>2
    <3>2. Ends(bytes) # {} /\ buffer' = Remaining(bytes, RestStart(bytes))
      BY <1>4, <2>2
    <3> HIDE DEF lost, none, rest
    <3>3. /\ lost \subseteq 1 .. MaxMessages
          /\ \E c \in Nat : /\ a <= c /\ c <= b + 1
                            /\ Remaining(bytes, RestStart(bytes)) = Bytes(c, b)
                            /\ \A e \in Ends(bytes) : a + e - 1 < c
                            /\ AtBoundary(c, lost)
      BY <1>1, <1>6, <1>7, <3>1, <3>2, AfterParse
    <3>4. PICK c \in Nat : /\ a <= c /\ c <= b + 1
                           /\ Remaining(bytes, RestStart(bytes)) = Bytes(c, b)
                           /\ \A e \in Ends(bytes) : a + e - 1 < c
                           /\ AtBoundary(c, lost)
      BY <3>3
    <3>5. AtBoundary(c, decapitated \cup lost)
      BY <3>4 DEF AtBoundary
    <3>6. a <= c /\ c <= b + 1 /\ buffer' = Bytes(c, b) /\ \A e \in Ends(bytes) : a + e - 1 < c
      BY <3>2, <3>4
    <3> QED
      BY <3>3, <3>5, <3>6
  <2> QED
    BY <2>1, <2>2
<1>11. PICK c \in Nat : /\ a <= c /\ c <= b + 1 /\ buffer' = Bytes(c, b)
                        /\ \A e \in Ends(bytes) : a + e - 1 < c
                        /\ AtBoundary(c, decapitated \cup lost)
  BY <1>10
<1>12. /\ buffer' \in Seq(Stream) /\ Len(buffer') = b - c + 1
       /\ buffer' # <<>> => Last(buffer') = b
       /\ buffer' = Bytes(b - Len(buffer') + 1, b)
  <2>1. c >= 1
    BY <1>1, <1>11
  <2> QED
    BY <1>6, <1>11, <2>1, BufferFacts
<1>13. Start' = c
  <2>1. Start' = read' - Len(buffer') - header' + 1
    BY DEF Start
  <2> QED
    BY <1>2, <1>4, <1>6, <1>11, <1>12, <2>1
(* What is delivered now *)
<1>14. \A i \in 1 .. Len(found) :
         \E k \in 1 .. MaxMessages : a <= EndOf[k] /\ EndOf[k] < c /\ Piece(found[i], k, decapitated')
  <2>1. ASSUME NEW i \in 1 .. Len(found)
        PROVE  \E k \in 1 .. MaxMessages : a <= EndOf[k] /\ EndOf[k] < c /\ Piece(found[i], k, decapitated')
    <3>1. PICK e \in Ends(bytes) : found[i] = Cut(bytes, e)
      BY <1>8, <2>1 DEF Found
    <3>2. \E k \in 1 .. MaxMessages :
            a + e - 1 = EndOf[k] /\ a <= EndOf[k] /\ Piece(Cut(bytes, e), k, decapitated)
      BY <1>1, <1>6, <1>7, <1>9, FoundPieces
    <3>3. PICK k \in 1 .. MaxMessages :
            a + e - 1 = EndOf[k] /\ a <= EndOf[k] /\ Piece(found[i], k, decapitated)
      BY <3>1, <3>2
    <3>4. EndOf[k] < c
      BY <1>11, <3>3
    <3>5. Piece(found[i], k, decapitated')
      BY <1>4, <3>3 DEF Piece
    <3> QED
      BY <3>3, <3>4, <3>5
  <2> QED
    BY <2>1
<1>15. delivered' \in Seq(Seq(Stream)) /\ EndBefore(delivered', c, decapitated') /\ Ordered(delivered')
  <2>1. delivered \in Seq(Seq(Stream))
    BY DEF IInv, TypeOK
  <2>2. found \in Seq(Seq(Stream)) /\ Ordered(found)
    BY <1>8 DEF Found
  <2>3. EndBefore(delivered, a, decapitated) /\ Ordered(delivered)
    BY <1>2 DEF IInv, PiecesInv, OrderInv, a
  <2>4. decapitated \subseteq decapitated'
    BY <1>4
  <2> DEFINE D2 == decapitated'
  <2>5. decapitated \subseteq D2 /\ \A i \in 1 .. Len(found) :
          \E k \in 1 .. MaxMessages : a <= EndOf[k] /\ EndOf[k] < c /\ Piece(found[i], k, D2)
    BY <1>14, <2>4
  <2> HIDE DEF D2
  <2>6. /\ delivered \o found \in Seq(Seq(Stream)) /\ EndBefore(delivered \o found, c, D2)
        /\ Ordered(delivered \o found)
    BY <1>1, <1>11, <2>1, <2>2, <2>3, <2>5, JoinPieces
  <2> QED
    BY <1>4, <2>6 DEF D2
<1>16. TypeOK'
  <2>1. mode' \in {"caching", "oneByOne"} /\ header' \in 0 .. HeaderSize
    BY <1>4 DEF IInv, TypeOK
  <2>2. arrived' \in 0 .. Length /\ read' \in 0 .. arrived'
    BY <1>1, <1>4, <1>6, StreamFacts
  <2>3. Len(buffer') <= Capacity
    BY <1>1, <1>6, <1>11, <1>12, Constants
  <2>4. buffer' # <<>> => Last(buffer') = read'
    BY <1>4, <1>12
  <2>5. connLost' \in BOOLEAN /\ garbled' \in BOOLEAN /\ closed' \in BOOLEAN
    <3>1. connLost \in BOOLEAN
      BY DEF IInv, TypeOK
    <3>2. (none /\ connLost) \in BOOLEAN
      OBVIOUS
    <3> QED
      BY <1>4, <3>1, <3>2
  <2>6. decapitated' \subseteq 1 .. MaxMessages
    <3>1. decapitated \subseteq 1 .. MaxMessages
      BY DEF IInv, TypeOK
    <3> HIDE DEF lost
    <3> QED
      BY <1>4, <1>10, <3>1
  <2>7. {connLost', closed', garbled'} \subseteq BOOLEAN
    BY <2>5
  <2> QED
    BY <1>12, <1>15, <2>1, <2>2, <2>3, <2>4, <2>6, <2>7 DEF TypeOK
<1>17. ModeInv'
  <2>1. header' + Len(buffer') <= read'
    BY <1>1, <1>2, <1>4, <1>6, <1>11, <1>12
  <2> QED
    BY <1>2, <1>4, <2>1 DEF ModeInv
<1>18. BufferInv'
  BY <1>4, <1>12 DEF BufferInv
<1>19. StartInv'
  BY <1>4, <1>11, <1>13 DEF StartInv
<1>20. PiecesInv' /\ OrderInv'
  BY <1>13, <1>15 DEF PiecesInv, OrderInv
<1> QED
  BY <1>16, <1>17, <1>18, <1>19, <1>20 DEF IInv

(* Without the cache the next message starts at Start. *)
LEMMA OneByOneFacts ==
  ASSUME IInv, mode = "oneByOne"
  PROVE  /\ buffer = <<>> /\ Len(buffer) = 0 /\ decapitated = {}
         /\ Start = read - header + 1
         /\ ~garbled => IsFirst(Start)
<1>1. buffer = <<>> /\ decapitated = {}
  BY DEF IInv, ModeInv
<1>2. Len(buffer) = 0
  BY <1>1
<1>3. Start = read - header + 1
  BY <1>2, StateFacts DEF Start
<1>4. ~garbled => IsFirst(Start)
  BY <1>1 DEF IInv, StartInv, AtBoundary
<1> QED
  BY <1>1, <1>2, <1>3, <1>4

LEMMA HeaderInv ==
  ASSUME IInv, ReceiveHeader
  PROVE  IInv'
<1> DEFINE size == Min({HeaderSize, arrived - read})
           b == read + size
<1>1. /\ arrived \in Nat /\ read \in Nat /\ read <= arrived /\ arrived <= Length
  BY StateFacts
<1>2. mode = "oneByOne" /\ header = 0 /\ ~garbled
  BY DEF ReceiveHeader
<1>3. buffer = <<>> /\ Len(buffer) = 0 /\ decapitated = {} /\ Start = read + 1 /\ IsFirst(Start)
  BY <1>1, <1>2, OneByOneFacts
<1>4. /\ read' = b
      /\ garbled' \in BOOLEAN
      /\ header' = IF garbled' THEN 0 ELSE size
      /\ UNCHANGED <<mode, arrived, buffer, delivered, connLost, closed, decapitated>>
  <2>1. garbled' \in IF size = BodyStart THEN BOOLEAN ELSE {size < BodyStart}
    BY DEF ReceiveHeader
  <2>2. (size < BodyStart) \in BOOLEAN
    OBVIOUS
  <2>3. garbled' \in BOOLEAN
    BY <2>1, <2>2, Zenon
  <2> QED
    BY <2>3 DEF ReceiveHeader
<1>5. size \in Nat /\ size <= HeaderSize /\ size <= arrived - read
  <2>1. HeaderSize \in Nat /\ arrived - read \in Nat
    BY <1>1, Constants
  <2> QED
    BY <2>1, MinOfTwo
<1> HIDE DEF size
<1>6. b \in Nat /\ b <= arrived
  BY <1>1, <1>5
<1>7. header' \in 0 .. HeaderSize /\ header' <= b
  <2>1. CASE garbled'
    BY <1>1, <1>4, <1>5, <2>1, Constants
  <2>2. CASE ~garbled'
    BY <1>1, <1>4, <1>5, <2>2, Constants
  <2> QED
    BY <2>1, <2>2
<1>8. TypeOK'
  <2>1. read' \in 0 .. arrived'
    BY <1>1, <1>4, <1>6
  <2>2. garbled' \in BOOLEAN
    BY <1>4
  <2>3. /\ mode' \in {"caching", "oneByOne"} /\ arrived' \in 0 .. Length
        /\ delivered' \in Seq(Seq(Stream)) /\ decapitated' \subseteq 1 .. MaxMessages
        /\ buffer' \in Seq(Stream) /\ Len(buffer') <= Capacity
    BY <1>4 DEF IInv, TypeOK
  <2>4. {connLost', closed', garbled'} \subseteq BOOLEAN
    BY <1>4, <2>2 DEF IInv, TypeOK
  <2>5. buffer' = <<>>
    BY <1>3, <1>4
  <2> QED
    BY <1>7, <2>1, <2>3, <2>4, <2>5 DEF TypeOK
<1>9. header' > 0 => ~garbled'
  BY <1>4
<1>10. ModeInv'
  <2>1. header' + Len(buffer') <= read'
    BY <1>3, <1>4, <1>6, <1>7
  <2> QED
    BY <1>2, <1>3, <1>4, <1>9, <2>1 DEF ModeInv
<1>11. BufferInv'
  <2>1. Bytes(b + 1, b) = <<>> /\ b - 0 + 1 = b + 1
    BY <1>6, EmptyBytes
  <2> QED
    BY <1>3, <1>4, <2>1 DEF BufferInv
<1>12. ASSUME ~garbled' PROVE Start' = Start
  <2>1. header' = size
    BY <1>4, <1>12
  <2>2. Start' = b - 0 - size + 1
    BY <1>3, <1>4, <2>1 DEF Start
  <2>3. b - 0 - size + 1 = read + 1
    BY <1>1, <1>5
  <2> QED
    BY <1>3, <2>2, <2>3
<1>13. StartInv'
  BY <1>3, <1>12 DEF StartInv, AtBoundary
<1>14. PiecesInv' /\ OrderInv'
  BY <1>2, <1>4, <1>12 DEF IInv, PiecesInv, OrderInv
<1> QED
  BY <1>8, <1>10, <1>11, <1>13, <1>14 DEF IInv

(* The bytes that receive() reads first are the beginning of a message. *)
LEMMA HeaderOfMessage ==
  ASSUME NEW a \in Nat, IsFirst(a), NEW h \in Nat, h >= 1, h <= HeaderSize, a + h - 1 <= Length
  PROVE  \E k \in 1 .. MaxMessages : /\ MessageOf(a + h - 1) = k
                                     /\ a = EndOf[k - 1] + 1
                                     /\ a + h - 1 < EndOf[k]
<1>1. PICK j \in 0 .. MaxMessages : a = EndOf[j] + 1
  BY DEF IsFirst
<1>2. EndOf[j] \in Nat
  BY StreamFacts
<1>3. j # MaxMessages
  BY <1>1, <1>2 DEF Length
<1> DEFINE k == j + 1
<1>4. k \in 1 .. MaxMessages /\ k \in 0 .. MaxMessages /\ k - 1 = j /\ j < k
  BY <1>3, Constants
<1> HIDE DEF k
<1>5. EndOf[k] \in Nat /\ EndOf[j] + HeaderSize < EndOf[k] /\ EndOf[k - 1] = EndOf[j]
  BY <1>4, EndFacts
<1>6. a + h - 1 \in Nat /\ EndOf[k - 1] < a + h - 1 /\ a + h - 1 < EndOf[k]
  BY <1>1, <1>2, <1>5, Constants
<1>7. a + h - 1 <= EndOf[k]
  BY <1>5, <1>6
<1>8. MessageOf(a + h - 1) = k
  BY <1>4, <1>6, <1>7, PlaceUnique
<1> QED
  BY <1>1, <1>4, <1>5, <1>6, <1>8

LEMMA BodyInv ==
  ASSUME IInv, ReceiveBody
  PROVE  IInv'
<1> DEFINE size == Min({RemainingBytes, arrived - read})
           b == read + size
           a == Start
           d == Bytes(a, b)
<1>1. /\ arrived \in Nat /\ read \in Nat /\ read <= arrived /\ arrived <= Length
      /\ header \in Nat /\ header <= HeaderSize /\ header + Len(buffer) <= read /\ a \in Nat /\ a >= 1
  BY StateFacts
<1>2. header > 0 /\ ~garbled /\ mode = "oneByOne"
  <2>1. header > 0
    BY DEF ReceiveBody
  <2>2. ~garbled /\ mode # "caching"
    BY <1>1, <2>1 DEF IInv, ModeInv
  <2>3. mode \in {"caching", "oneByOne"}
    BY DEF IInv, TypeOK
  <2> QED
    BY <2>1, <2>2, <2>3
<1>3. buffer = <<>> /\ Len(buffer) = 0 /\ decapitated = {} /\ a = read - header + 1 /\ IsFirst(a)
  BY <1>2, OneByOneFacts
<1> HIDE DEF a
<1>16. a + header - 1 = read /\ header >= 1 /\ read <= Length
  BY <1>1, <1>2, <1>3, StreamFacts
<1>17. PICK k \in 1 .. MaxMessages : MessageOf(read) = k /\ a = EndOf[k - 1] + 1 /\ read < EndOf[k]
  <2>1. \E k \in 1 .. MaxMessages : /\ MessageOf(a + header - 1) = k
                                    /\ a = EndOf[k - 1] + 1
                                    /\ a + header - 1 < EndOf[k]
    BY <1>1, <1>3, <1>16, HeaderOfMessage
  <2> QED
    BY <1>16, <2>1
<1>18. k \in 0 .. MaxMessages /\ k - 1 \in 0 .. MaxMessages
  BY Constants
<1>19. EndOf[k] \in Nat /\ EndOf[k] <= Length /\ EndOf[k - 1] \in Nat
  BY <1>18, StreamFacts
<1>20. RemainingBytes = EndOf[k] - read
  BY <1>17 DEF RemainingBytes
<1>4. /\ read' = b
      /\ garbled' = (size < RemainingBytes)
      /\ delivered' = IF size = 0 THEN delivered ELSE Append(delivered, d)
      /\ connLost' = (connLost /\ size > 0)
      /\ header' = 0
      /\ UNCHANGED <<mode, arrived, buffer, closed, decapitated>>
  BY <1>3 DEF ReceiveBody
<1>5. size \in Nat /\ size <= RemainingBytes /\ size <= arrived - read
  <2>1. RemainingBytes \in Nat /\ arrived - read \in Nat
    BY <1>1, <1>17, <1>19, <1>20
  <2> QED
    BY <2>1, MinOfTwo
<1> HIDE DEF size
<1>6. b \in Nat /\ b <= arrived /\ b <= Length /\ a <= b + 1
  BY <1>1, <1>2, <1>3, <1>5, StreamFacts
<1>7. d \in Seq(Stream)
  <2> HIDE DEF b
  <2> QED
    BY <1>1, <1>6, BytesFacts
<1>8. delivered \in Seq(Seq(Stream))
  BY DEF IInv, TypeOK
<1> DEFINE q == <<d>>
<1> HIDE DEF d
<1>9. q \in Seq(Seq(Stream)) /\ Len(q) = 1 /\ q[1] = d
  BY <1>7
<1>10. Append(delivered, d) = delivered \o q /\ Append(delivered, d) \in Seq(Seq(Stream))
  BY <1>7, <1>8
<1>11. TypeOK'
  <2>1. read' \in 0 .. arrived'
    BY <1>1, <1>4, <1>6
  <2>2. garbled' \in BOOLEAN /\ connLost' \in BOOLEAN
    <3>1. (size < RemainingBytes) \in BOOLEAN /\ (connLost /\ size > 0) \in BOOLEAN
      OBVIOUS
    <3> QED
      BY <1>4, <3>1
  <2>3. /\ mode' \in {"caching", "oneByOne"} /\ arrived' \in 0 .. Length
        /\ decapitated' \subseteq 1 .. MaxMessages
        /\ buffer' \in Seq(Stream) /\ Len(buffer') <= Capacity /\ closed' \in BOOLEAN
    BY <1>4 DEF IInv, TypeOK
  <2>4. {connLost', closed', garbled'} \subseteq BOOLEAN
    BY <2>2, <2>3
  <2>5. delivered' \in Seq(Seq(Stream))
    BY <1>4, <1>8, <1>10
  <2>6. header' \in 0 .. HeaderSize
    BY <1>4, Constants
  <2>7. buffer' = <<>>
    BY <1>3, <1>4
  <2> QED
    BY <2>1, <2>3, <2>4, <2>5, <2>6, <2>7 DEF TypeOK
<1>12. ModeInv'
  BY <1>2, <1>3, <1>4, <1>6 DEF ModeInv
<1>13. BufferInv'
  <2>1. Bytes(b + 1, b) = <<>> /\ b - 0 + 1 = b + 1
    BY <1>6, EmptyBytes
  <2> QED
    BY <1>3, <1>4, <2>1 DEF BufferInv
<1>14. ASSUME ~garbled'
       PROVE  StartInv' /\ PiecesInv' /\ OrderInv'
  <2> DEFINE c == EndOf[k] + 1
  <2>0. ~(size < RemainingBytes)
    BY <1>4, <1>14, Zenon
  <2>1. size = EndOf[k] - read /\ size # 0
    BY <1>1, <1>5, <1>17, <1>19, <1>20, <2>0
  <2>2. b = EndOf[k]
    BY <1>1, <1>19, <2>1
  <2>3. c \in Nat /\ a <= c /\ b + 1 = c
    BY <1>1, <1>6, <1>19, <2>2
  <2>4. Start' = c
    <3>1. Start' = b - 0 - 0 + 1
      BY <1>3, <1>4 DEF Start
    <3> QED
      BY <1>6, <2>3, <3>1
  <2>5. a <= EndOf[k] /\ EndOf[k - 1] < a /\ a \in Stream
    BY <1>1, <1>16, <1>17, <1>19, StreamFacts DEF Stream
  <2>7. Piece(d, k, {})
    BY <1>17, <2>2, <2>5 DEF d, Piece
  <2>8. a <= EndOf[k] /\ EndOf[k] < c
    BY <1>19, <2>5
  <2>9. IsFirst(c)
    BY <1>18, NextMessage
  <2> HIDE DEF c, q
  <2>10. \A i \in 1 .. Len(q) :
           \E m \in 1 .. MaxMessages : a <= EndOf[m] /\ EndOf[m] < c /\ Piece(q[i], m, {})
    <3>1. \A i \in 1 .. Len(q) : i = 1
      BY <1>9
    <3> QED
      BY <1>9, <2>7, <2>8, <3>1
  <2>11. Ordered(q)
    <3>1. \A i \in 1 .. Len(q) : 1 .. i - 1 = {}
      BY <1>9
    <3> QED
      BY <3>1 DEF Ordered
  <2>12. EndBefore(delivered, a, {}) /\ Ordered(delivered)
    BY <1>2, <1>3 DEF IInv, PiecesInv, OrderInv, a
  <2>13. EndBefore(delivered \o q, c, {}) /\ Ordered(delivered \o q)
    BY <1>1, <1>8, <1>9, <2>3, <2>10, <2>11, <2>12, JoinPieces
  <2>14. delivered' = delivered \o q /\ decapitated' = {}
    BY <1>3, <1>4, <1>10, <2>1
  <2>15. StartInv'
    BY <2>4, <2>9 DEF StartInv, AtBoundary
  <2>16. PiecesInv' /\ OrderInv'
    BY <2>4, <2>13, <2>14 DEF PiecesInv, OrderInv
  <2> QED
    BY <2>15, <2>16
<1>15. StartInv' /\ PiecesInv' /\ OrderInv'
  <2>1. CASE garbled'
    BY <2>1 DEF StartInv, PiecesInv, OrderInv
  <2> QED
    BY <1>14, <2>1
<1> QED
  BY <1>11, <1>12, <1>13, <1>15 DEF IInv
-----------------------------------------------------------------------------
LEMMA NextInv == IInv /\ [Next]_vars => IInv'
<1> SUFFICES ASSUME IInv, [Next]_vars PROVE IInv'
  OBVIOUS
<1>1. CASE Arrive \/ OtherCallFails \/ UNCHANGED vars
  BY <1>1, OutsideInv
<1>2. CASE ReceiveWithCaching
  BY <1>2, CachingInv
<1>3. CASE ReceiveHeader
  BY <1>3, HeaderInv
<1>4. CASE ReceiveBody
  BY <1>4, BodyInv
<1> QED
  BY <1>1, <1>2, <1>3, <1>4 DEF Next, HandleClient

LEMMA Inductive == Spec => []IInv
  BY InitInv, NextInv, PTL DEF Spec

(* Every variable of the session keeps its type, and the cache never holds *)
(* more than it has room for, wherever TCP cuts the stream.                *)
THEOREM TypeCorrect == Spec => []TypeOK
<1>1. IInv => TypeOK
  BY DEF IInv
<1> QED
  BY <1>1, Inductive, PTL

(* Both ways of receiving hand over the messages of the client in order    *)
(* and none twice; only a message whose first byte parse() has dropped may *)
(* lack its beginning, and the parser is in step again after it.           *)
THEOREM DamageConfined == Spec => []DamageIsConfined
<1>1. IInv => DamageIsConfined
  <2> SUFFICES ASSUME IInv, ~garbled PROVE DamageIsConfined
    BY DEF DamageIsConfined
  <2>1. EndBefore(delivered, Start, decapitated) /\ Ordered(delivered)
    BY DEF IInv, PiecesInv, OrderInv
  <2>2. ASSUME NEW i \in 1 .. Len(delivered)
        PROVE  LET k == MessageOf(delivered[i][1])
               IN  /\ delivered[i] = Whole(k) \/ k \in decapitated
                   /\ \A j \in 1 .. i - 1 : MessageOf(delivered[j][1]) < k
    <3>1. PICK k \in 1 .. MaxMessages : Piece(delivered[i], k, decapitated)
      BY <2>1, <2>2 DEF EndBefore
    <3>2. MessageOf(delivered[i][1]) = k /\ (delivered[i] = Whole(k) \/ k \in decapitated)
      BY <3>1, PieceFacts
    <3>3. \A j \in 1 .. i - 1 : MessageOf(delivered[j][1]) < MessageOf(delivered[i][1])
      BY <2>1, <2>2 DEF Ordered
    <3> QED
      BY <3>2, <3>3
  <2> QED
    BY <2>2 DEF DamageIsConfined
<1> QED
  BY <1>1, Inductive, PTL
=============================================================================
