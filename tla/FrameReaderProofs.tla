------------------------- MODULE FrameReaderProofs -------------------------
(***************************************************************************)
(* Proofs about FrameReader: however the stream is cut, the reader stays   *)
(* in step with the frames, and it implements MessageChannel.              *)
(***************************************************************************)
EXTENDS FrameReader, SequenceTheorems, FiniteSetTheorems, WellFoundedInduction,
        TLAPS

-----------------------------------------------------------------------------
(* The frame of a message.                                                 *)

(* The buffer for the header holds a header and a part of the content.     *)
LEMMA SizeFacts ==
  ASSUME NEW body \in Body
  PROVE  /\ Len(body) \in Nat /\ Len(body) > 0
         /\ HeaderWidth(Len(body)) \in Nat
         /\ 1 <= HeaderWidth(Len(body)) /\ HeaderWidth(Len(body)) <= BufferSize
         /\ BufferSize \in Nat /\ BufferSize > 0
         /\ Len(body) >= BufferSize - HeaderWidth(Len(body))
         /\ Size(body) = HeaderWidth(Len(body)) + Len(body)
         /\ Size(body) \in Nat /\ Size(body) >= BufferSize
<1> DEFINE n == Len(body)
           w == HeaderWidth(n)
           s == Size(body)
<1>1. body \in Seq({"char", "blank"})
  BY FrameAssumption
<1>2. n \in Nat
  BY <1>1, LenProperties
<1>3. /\ w \in 1..BufferSize /\ n >= BufferSize - w /\ n > 0
      /\ BufferSize \in Nat /\ BufferSize > 0
  BY FrameAssumption
<1>4. s = w + n
  BY DEF Size
<1> HIDE DEF n, w, s
<1> QED
  <2>1. /\ n \in Nat /\ n > 0 /\ w \in Nat /\ 1 <= w /\ w <= BufferSize
        /\ BufferSize \in Nat /\ BufferSize > 0 /\ n >= BufferSize - w
        /\ s = w + n /\ s \in Nat /\ s >= BufferSize
    BY <1>2, <1>3, <1>4
  <2> QED
    BY <2>1 DEF n, w, s

(* Its bytes.                                                              *)
LEMMA FrameBytes ==
  ASSUME NEW body \in Body, NEW m \in Nat \ {0}
  PROVE  /\ write_(m, body) \in Seq(Byte)
         /\ Len(write_(m, body)) = Size(body)
         /\ \A i \in 1..Size(body) : write_(m, body)[i] = <<m, i>>
<1> DEFINE s == Size(body)
           f == write_(m, body)
<1>1. s \in Nat
  BY SizeFacts
<1>2. f = [i \in 1..s |-> <<m, i>>]
  BY DEF write_
<1> HIDE DEF s, f
<1>3. \A i \in 1..s : <<m, i>> \in Byte
  BY <1>1 DEF Byte
<1>4. f \in [1..s -> Byte]
  BY <1>2, <1>3
<1>5. f \in Seq(Byte)
  BY <1>1, <1>4, SeqDef
<1>6. Len(f) = s
  BY <1>1, <1>4, <1>5, LenProperties
<1> QED
  BY <1>2, <1>5, <1>6 DEF s, f

-----------------------------------------------------------------------------
(* The stream: the bytes that have arrived, then those on their way.       *)

Stream == socket \o wire

(* The byte is one of a frame.                                             *)
InRange(messages, byte) ==
  /\ byte[1] \in 1..Len(messages)
  /\ byte[2] \in 1..Size(messages[byte[1]])

(* The bytes of its frame after it.                                        *)
Rest(messages, byte) == Size(messages[byte[1]]) - byte[2]

(* In the stream s the rest of a frame follows each of its bytes, and then *)
(* the next frame begins.                                                  *)
Frames(messages, s) ==
  \A i \in 1..Len(s) :
    /\ InRange(messages, s[i])
    /\ \A d \in 0..Rest(messages, s[i]) :
         i + d <= Len(s) => s[i + d] = <<s[i][1], s[i][2] + d>>
    /\ i + Rest(messages, s[i]) + 1 <= Len(s) =>
         s[i + Rest(messages, s[i]) + 1] = <<s[i][1] + 1, 1>>

(* It ends with the last frame.                                            *)
Ended(messages, s) ==
  s # <<>> => s[Len(s)] = <<Len(messages), Size(messages[Len(messages)])>>

StreamInv ==
  /\ Frames(sent, Stream)
  /\ open => Ended(sent, Stream)

TypeInv == TypeOK /\ StreamInv

(* The types of a byte in range.                                           *)
LEMMA RangeTypes ==
  ASSUME NEW messages \in Seq(Body), NEW byte, InRange(messages, byte)
  PROVE  /\ messages[byte[1]] \in Body
         /\ byte[1] \in Nat /\ byte[2] \in Nat /\ byte[2] > 0
         /\ Size(messages[byte[1]]) \in Nat
         /\ Rest(messages, byte) \in Nat
<1>1. byte[1] \in 1..Len(messages) /\ byte[2] \in 1..Size(messages[byte[1]])
  BY DEF InRange
<1>2. messages[byte[1]] \in Body
  BY <1>1, ElementOfSeq
<1>3. Size(messages[byte[1]]) \in Nat
  BY <1>2, SizeFacts
<1>4. Len(messages) \in Nat
  BY LenProperties
<1> QED
  BY <1>1, <1>2, <1>3, <1>4 DEF Rest

(* The stream without some of its first bytes.                             *)
LEMMA FramesDropped ==
  ASSUME NEW messages \in Seq(Body), NEW s \in Seq(Byte), NEW t \in Seq(Byte),
         NEW n \in 0..Len(s), Len(t) = Len(s) - n,
         \A i \in 1..Len(t) : t[i] = s[i + n],
         Frames(messages, s)
  PROVE  /\ Frames(messages, t)
         /\ Ended(messages, s) => Ended(messages, t)
<1> DEFINE k == Len(s)
           l == Len(t)
<1>1. k \in Nat /\ l \in Nat /\ n \in Nat /\ n <= k /\ l = k - n
  BY LenProperties
<1> HIDE DEF k, l
<1>2. ASSUME NEW i \in 1..l
      PROVE  /\ InRange(messages, t[i])
             /\ \A d \in 0..Rest(messages, t[i]) :
                  i + d <= l => t[i + d] = <<t[i][1], t[i][2] + d>>
             /\ i + Rest(messages, t[i]) + 1 <= l =>
                  t[i + Rest(messages, t[i]) + 1] = <<t[i][1] + 1, 1>>
  <2> DEFINE j == i + n
             b == s[j]
             r == Rest(messages, b)
  <2>1. j \in 1..k /\ i \in Nat
    BY <1>1
  <2>2. t[i] = b
    BY DEF l
  <2>3. /\ InRange(messages, b)
        /\ \A d \in 0..r : j + d <= k => s[j + d] = <<b[1], b[2] + d>>
        /\ j + r + 1 <= k => s[j + r + 1] = <<b[1] + 1, 1>>
    BY <2>1 DEF Frames, k
  <2>4. r \in Nat
    BY <2>3, RangeTypes
  <2>5. \A e \in 1..l : t[e] = s[e + n]
    BY DEF l
  <2> HIDE DEF b, r
  <2>6. ASSUME NEW d \in 0..r, i + d <= l
        PROVE  t[i + d] = <<b[1], b[2] + d>>
    <3>1. i + d \in 1..l /\ (i + d) + n = j + d /\ j + d <= k
      BY <1>1, <2>1, <2>4, <2>6
    <3> QED
      BY <2>3, <2>5, <3>1
  <2>7. ASSUME i + r + 1 <= l
        PROVE  t[i + r + 1] = <<b[1] + 1, 1>>
    <3>1. i + r + 1 \in 1..l /\ (i + r + 1) + n = j + r + 1 /\ j + r + 1 <= k
      BY <1>1, <2>1, <2>4, <2>7
    <3> QED
      BY <2>3, <2>5, <3>1
  <2> QED
    BY <2>2, <2>3, <2>6, <2>7 DEF r
<1>3. Frames(messages, t)
  BY <1>2 DEF Frames, l
<1>4. ASSUME Ended(messages, s), t # <<>>
      PROVE  t[l] = s[k]
  <2>1. l # 0
    BY <1>4, EmptySeq DEF l
  <2>2. l \in 1..l /\ l + n = k
    BY <1>1, <2>1
  <2> QED
    BY <2>2 DEF l
<1>5. t # <<>> => s # <<>>
  <2> SUFFICES ASSUME t # <<>>
               PROVE  s # <<>>
    OBVIOUS
  <2>1. l # 0
    BY EmptySeq DEF l
  <2>2. k # 0
    BY <1>1, <2>1
  <2> QED
    BY <2>2, EmptySeq DEF k
<1> QED
  BY <1>3, <1>4, <1>5 DEF Ended, k, l

(* The stream cut off.                                                     *)
LEMMA FramesCut ==
  ASSUME NEW messages \in Seq(Body), NEW s \in Seq(Byte), NEW t \in Seq(Byte),
         Len(t) <= Len(s), \A i \in 1..Len(t) : t[i] = s[i],
         Frames(messages, s)
  PROVE  Frames(messages, t)
<1> DEFINE k == Len(s)
           l == Len(t)
<1>1. k \in Nat /\ l \in Nat /\ l <= k
  BY LenProperties
<1> HIDE DEF k, l
<1> SUFFICES ASSUME NEW i \in 1..l
             PROVE  /\ InRange(messages, t[i])
                    /\ \A d \in 0..Rest(messages, t[i]) :
                         i + d <= l => t[i + d] = <<t[i][1], t[i][2] + d>>
                    /\ i + Rest(messages, t[i]) + 1 <= l =>
                         t[i + Rest(messages, t[i]) + 1] = <<t[i][1] + 1, 1>>
  BY DEF Frames, l
<1> DEFINE b == s[i]
           r == Rest(messages, b)
<1>2. i \in 1..k /\ i \in Nat
  BY <1>1
<1>3. /\ InRange(messages, b)
      /\ \A d \in 0..r : i + d <= k => s[i + d] = <<b[1], b[2] + d>>
      /\ i + r + 1 <= k => s[i + r + 1] = <<b[1] + 1, 1>>
  BY <1>2 DEF Frames, k
<1>4. r \in Nat
  BY <1>3, RangeTypes
<1>5. \A e \in 1..l : t[e] = s[e]
  BY DEF l
<1>6. t[i] = b
  BY <1>5
<1> HIDE DEF b, r
<1>7. ASSUME NEW d \in 0..r, i + d <= l
      PROVE  t[i + d] = <<b[1], b[2] + d>>
  <2>1. i + d \in 1..l /\ i + d <= k
    BY <1>1, <1>2, <1>4, <1>7
  <2> QED
    BY <1>3, <1>5, <2>1
<1>8. ASSUME i + r + 1 <= l
      PROVE  t[i + r + 1] = <<b[1] + 1, 1>>
  <2>1. i + r + 1 \in 1..l /\ i + r + 1 <= k
    BY <1>1, <1>2, <1>4, <1>8
  <2> QED
    BY <1>3, <1>5, <2>1
<1> QED
  BY <1>3, <1>6, <1>7, <1>8 DEF r

(* A frame is added.                                                       *)
LEMMA FramesWritten ==
  ASSUME NEW messages \in Seq(Body), NEW s \in Seq(Byte), NEW body \in Body,
         Frames(messages, s), Ended(messages, s)
  PROVE  LET t == s \o write_(Len(messages) + 1, body)
             more == Append(messages, body)
         IN /\ t \in Seq(Byte) /\ Len(t) = Len(s) + Size(body)
            /\ \A i \in 1..Len(s) : t[i] = s[i]
            /\ t[Len(s) + 1] = <<Len(messages) + 1, 1>>
            /\ Frames(more, t) /\ Ended(more, t)
<1> DEFINE K == Len(messages)
           k == Len(s)
           z == Size(body)
           f == write_(K + 1, body)
           t == s \o f
           more == Append(messages, body)
<1>1. K \in Nat /\ k \in Nat /\ z \in Nat /\ z > 0 /\ K + 1 \in Nat \ {0}
  BY LenProperties, SizeFacts
<1>2. f \in Seq(Byte) /\ Len(f) = z /\ \A i \in 1..z : f[i] = <<K + 1, i>>
  <2> HIDE DEF K
  <2> QED
    BY <1>1, FrameBytes
<1>3. /\ t \in Seq(Byte) /\ Len(t) = k + z
      /\ \A i \in 1..k : t[i] = s[i]
      /\ \A i \in 1..z : t[k + i] = <<K + 1, i>>
  <2> HIDE DEF f
  <2>1. /\ t \in Seq(Byte) /\ Len(t) = k + Len(f)
        /\ \A i \in 1..(k + Len(f)) : t[i] = IF i <= k THEN s[i] ELSE f[i - k]
    BY <1>2, ConcatProperties
  <2> HIDE DEF t, K, k, z
  <2>2. \A i \in 1..k : i \in 1..(k + z) /\ i <= k
    BY <1>1
  <2>3. \A i \in 1..z : k + i \in 1..(k + z) /\ ~(k + i <= k) /\ (k + i) - k = i
    BY <1>1
  <2> QED
    BY <1>2, <2>1, <2>2, <2>3
<1>4. /\ Len(more) = K + 1
      /\ \A j \in 1..K : more[j] = messages[j]
      /\ more[K + 1] = body
  BY AppendProperties
<1>5. k # 0 => s[k] = <<K, Size(messages[K])>>
  BY EmptySeq DEF Ended
<1> HIDE DEF K, k, z, f, t, more
<1> DEFINE Good(i) ==
             /\ InRange(more, t[i])
             /\ \A d \in 0..Rest(more, t[i]) :
                  i + d <= k + z => t[i + d] = <<t[i][1], t[i][2] + d>>
             /\ i + Rest(more, t[i]) + 1 <= k + z =>
                  t[i + Rest(more, t[i]) + 1] = <<t[i][1] + 1, 1>>
<1>6. ASSUME NEW i \in 1..k
      PROVE  Good(i)
  <2> DEFINE b == s[i]
             r == Rest(messages, b)
  <2>1. t[i] = b
    BY <1>3
  <2>2. /\ InRange(messages, b)
        /\ \A d \in 0..r : i + d <= k => s[i + d] = <<b[1], b[2] + d>>
        /\ i + r + 1 <= k => s[i + r + 1] = <<b[1] + 1, 1>>
    BY DEF Frames, k
  <2>3. /\ messages[b[1]] \in Body /\ b[1] \in Nat /\ b[2] \in Nat
        /\ Size(messages[b[1]]) \in Nat /\ r \in Nat
        /\ r = Size(messages[b[1]]) - b[2]
    BY <2>2, RangeTypes DEF Rest
  <2> HIDE DEF b, r
  <2>4. b[1] \in 1..K
    BY <2>2 DEF InRange, K
  <2>5. InRange(more, b)
    BY <1>1, <1>4, <2>2, <2>4 DEF InRange
  <2>6. Rest(more, b) = r
    BY <1>4, <2>3, <2>4 DEF Rest
  <2>7. k # 0 /\ i \in Nat /\ i <= k
    BY <1>1
  <2>8. i + r <= k
    <3> SUFFICES ASSUME k < i + r
                 PROVE  FALSE
      BY <1>1, <2>3, <2>7
    <3> DEFINE d == k - i
    <3>1. d \in 0..r /\ i + d = k /\ d < r
      BY <1>1, <2>3, <2>7
    <3>2. s[k] = <<b[1], b[2] + d>>
      BY <1>1, <2>2, <3>1
    <3> HIDE DEF d
    <3>3. <<b[1], b[2] + d>> = <<K, Size(messages[K])>>
      BY <1>5, <2>7, <3>2
    <3>4. b[1] = K /\ b[2] + d = Size(messages[b[1]])
      BY <3>3
    <3> QED
      BY <2>3, <3>1, <3>4
  <2>9. ASSUME NEW d \in 0..r
        PROVE  t[i + d] = <<b[1], b[2] + d>>
    <3>1. i + d \in 1..k /\ i + d <= k
      BY <1>1, <2>3, <2>7, <2>8
    <3> QED
      BY <1>3, <2>2, <3>1
  <2>10. t[i + r + 1] = <<b[1] + 1, 1>>
    <3>1. CASE i + r = k
      <4>1. s[k] = <<b[1], b[2] + r>>
        <5>1. r \in 0..r /\ i + r <= k
          BY <2>3, <2>8
        <5> QED
          BY <2>2, <3>1, <5>1
      <4>2. <<b[1], b[2] + r>> = <<K, Size(messages[K])>>
        BY <1>5, <2>7, <4>1
      <4>3. b[1] = K
        BY <4>2
      <4>4. 1 \in 1..z
        BY <1>1
      <4>5. t[k + 1] = <<K + 1, 1>>
        BY <1>3, <4>4
      <4> QED
        BY <3>1, <4>3, <4>5
    <3>2. CASE i + r # k
      <4>1. i \in Nat /\ r \in Nat /\ k \in Nat /\ i + r <= k
        BY <1>1, <2>3, <2>7, <2>8
      <4> HIDE DEF r
      <4>2. i + r < k
        BY <3>2, <4>1
      <4>3. i + r + 1 \in 1..k /\ i + r + 1 <= k
        BY <4>1, <4>2
      <4> QED
        BY <1>3, <2>2, <4>3
    <3> QED
      BY <3>1, <3>2
  <2> QED
    BY <2>1, <2>5, <2>6, <2>9, <2>10
<1>7. ASSUME NEW j \in 1..z
      PROVE  Good(k + j)
  <2> DEFINE b == <<K + 1, j>>
             i == k + j
  <2>1. t[i] = b
    BY <1>3
  <2>2. b[1] = K + 1 /\ b[2] = j
    OBVIOUS
  <2> HIDE DEF b
  <2>3. j \in Nat /\ i \in Nat
    BY <1>1
  <2>4. InRange(more, b)
    BY <1>1, <1>4, <2>2 DEF InRange, z
  <2>5. Rest(more, b) = z - j
    BY <1>4, <2>2 DEF Rest, z
  <2>6. ASSUME NEW d \in 0..(z - j)
        PROVE  t[i + d] = <<K + 1, j + d>>
    <3>1. j + d \in 1..z /\ k + (j + d) = i + d
      BY <1>1, <2>3
    <3> QED
      BY <1>3, <3>1
  <2>7. ~(i + (z - j) + 1 <= k + z)
    BY <1>1, <2>3
  <2> HIDE DEF i
  <2>8. Good(i)
    BY <2>1, <2>2, <2>4, <2>5, <2>6, <2>7
  <2> QED
    BY <2>8 DEF i
<1>8. Frames(more, t)
  <2>1. ASSUME NEW i \in 1..(k + z)
        PROVE  Good(i)
    <3>1. CASE i <= k
      <4>1. i \in 1..k
        BY <3>1
      <4> QED
        BY <1>6, <4>1
    <3>2. CASE ~(i <= k)
      <4>1. i - k \in 1..z /\ k + (i - k) = i
        BY <1>1, <3>2
      <4> QED
        BY <1>7, <4>1
    <3> QED
      BY <3>1, <3>2
  <2> HIDE DEF Good
  <2>2. \A i \in 1..Len(t) : Good(i)
    BY <1>3, <2>1
  <2> QED
    BY <1>3, <2>2 DEF Frames, Good
<1>9. Ended(more, t)
  <2>1. z \in 1..z
    BY <1>1
  <2>2. t[Len(t)] = <<K + 1, z>>
    BY <1>3, <2>1
  <2> QED
    BY <1>4, <2>2 DEF Ended, z
<1>10. t[k + 1] = <<K + 1, 1>>
  <2>1. 1 \in 1..z
    BY <1>1
  <2> QED
    BY <1>3, <2>1
<1> QED
  BY <1>3, <1>8, <1>9, <1>10 DEF t, more, f, K, k, z

(* Bytes are taken off the front of the socket.                            *)
LEMMA DropSocket ==
  ASSUME NEW s \in Seq(Byte), NEW w \in Seq(Byte), NEW n \in 0..Len(s)
  PROVE  LET t == SubSeq(s, n + 1, Len(s))
         IN /\ t \in Seq(Byte) /\ Len(t) = Len(s) - n
            /\ s \o w \in Seq(Byte) /\ t \o w \in Seq(Byte)
            /\ Len(s \o w) \in Nat /\ Len(s) \in Nat /\ Len(s) <= Len(s \o w)
            /\ Len(t \o w) = Len(s \o w) - n
            /\ \A i \in 1..Len(t \o w) : (t \o w)[i] = (s \o w)[i + n]
            /\ \A i \in 1..Len(s) : (s \o w)[i] = s[i]
<1> DEFINE k == Len(s)
           l == Len(w)
           t == SubSeq(s, n + 1, k)
           u == t \o w
           all == s \o w
<1>1. k \in Nat /\ l \in Nat /\ n \in Nat /\ n <= k
  BY LenProperties
<1>2. t \in Seq(Byte) /\ Len(t) = k - n /\ \A i \in 1..(k - n) : t[i] = s[i + n]
  <2>1. \A i \in (n + 1)..k : s[i] \in Byte
    BY <1>1, ElementOfSeq
  <2> HIDE DEF k
  <2>2. n + 1 \in Int /\ k \in Int
    BY <1>1
  <2>3. /\ t \in Seq(Byte)
        /\ Len(t) = IF n + 1 <= k THEN k - (n + 1) + 1 ELSE 0
        /\ \A i \in 1..(k - (n + 1) + 1) : t[i] = s[(n + 1) + i - 1]
    BY <2>1, <2>2, SubSeqProperties
  <2> HIDE DEF t
  <2>4. k - (n + 1) + 1 = k - n /\ \A i \in 1..(k - n) : (n + 1) + i - 1 = i + n
    BY <1>1
  <2>5. Len(t) = k - n
    BY <1>1, <2>3
  <2> QED
    BY <2>3, <2>4, <2>5
<1>3. /\ all \in Seq(Byte) /\ Len(all) = k + l
      /\ \A i \in 1..(k + l) : all[i] = IF i <= k THEN s[i] ELSE w[i - k]
  BY ConcatProperties
<1> HIDE DEF t
<1>4. /\ u \in Seq(Byte) /\ Len(u) = Len(t) + l
      /\ \A i \in 1..(Len(t) + l) :
           u[i] = IF i <= Len(t) THEN t[i] ELSE w[i - Len(t)]
  BY <1>2, ConcatProperties
<1> HIDE DEF k, l, u, all
<1>5. Len(t) + l = (k + l) - n
  BY <1>1, <1>2
<1>6. ASSUME NEW i \in 1..((k + l) - n)
      PROVE  u[i] = all[i + n]
  <2>1. i + n \in 1..(k + l) /\ i \in Nat
    BY <1>1
  <2>2. CASE i <= k - n
    <3>1. i \in 1..(k - n) /\ i + n <= k
      BY <1>1, <2>1, <2>2
    <3> QED
      BY <1>2, <1>3, <1>4, <1>5, <2>1, <2>2, <3>1
  <2>3. CASE ~(i <= k - n)
    <3>1. ~(i + n <= k) /\ (i + n) - k = i - (k - n)
      BY <1>1, <2>1, <2>3
    <3> QED
      BY <1>2, <1>3, <1>4, <1>5, <2>1, <2>3, <3>1
  <2> QED
    BY <2>2, <2>3
<1>7. \A i \in 1..k : all[i] = s[i]
  <2>1. \A i \in 1..k : i \in 1..(k + l) /\ i <= k
    BY <1>1
  <2> QED
    BY <1>3, <2>1
<1>8. k + l \in Nat /\ k <= k + l
  BY <1>1
<1> QED
  BY <1>1, <1>2, <1>3, <1>4, <1>5, <1>6, <1>7, <1>8 DEF u, t, all, k

(* A part of what is on its way arrives.                                   *)
LEMMA ArriveStream ==
  ASSUME NEW s \in Seq(Byte), NEW w \in Seq(Byte), NEW k \in 1..Len(w)
  PROVE  LET head == SubSeq(w, 1, k)
             rest == SubSeq(w, k + 1, Len(w))
         IN /\ s \o head \in Seq(Byte) /\ rest \in Seq(Byte)
            /\ (s \o head) \o rest = s \o w
<1> DEFINE n == Len(w)
           head == SubSeq(w, 1, k)
           rest == SubSeq(w, k + 1, n)
<1>1. n \in Nat /\ k \in Nat /\ k >= 1 /\ k <= n
  BY LenProperties
<1>2. \A i \in 1..n : w[i] \in Byte
  BY ElementOfSeq
<1>3. head \o rest = w
  <2>1. SubSeq(w, 1, n) = w
    BY SubSeqFull
  <2>2. 1 \in 1..(n + 1) /\ k \in (1 - 1)..n /\ n \in k..n
    BY <1>1
  <2>3. SubSeq(w, 1, k) \o SubSeq(w, k + 1, n) = SubSeq(w, 1, n)
    BY <2>2, ConcatAdjacentSubSeq
  <2> QED
    BY <2>1, <2>3
<1> HIDE DEF n
<1>4. head \in Seq(Byte)
  <2>1. \A i \in 1..k : w[i] \in Byte
    BY <1>1, <1>2
  <2> QED
    BY <1>1, <2>1, SubSeqProperties
<1>5. rest \in Seq(Byte)
  <2>1. \A i \in (k + 1)..n : w[i] \in Byte
    BY <1>1, <1>2
  <2>2. k + 1 \in Int /\ n \in Int
    BY <1>1
  <2> QED
    BY <2>1, <2>2, SubSeqProperties
<1> HIDE DEF head, rest
<1>6. (s \o head) \o rest = s \o (head \o rest)
  <2>1. \A t, u \in Seq(Byte) : (s \o t) \o u = s \o (t \o u)
    BY ConcatAssociative
  <2> QED
    BY <1>4, <1>5, <2>1
<1>7. s \o head \in Seq(Byte)
  BY <1>4, ConcatProperties
<1>8. (s \o head) \o rest = s \o w
  BY <1>3, <1>6
<1> QED
  BY <1>5, <1>7, <1>8 DEF head, rest, n

(* The rest of what is on its way is lost.                                 *)
LEMMA VanishStream ==
  ASSUME NEW s \in Seq(Byte), NEW w \in Seq(Byte), NEW k \in 0..Len(w)
  PROVE  LET head == SubSeq(w, 1, k)
         IN /\ head \in Seq(Byte)
            /\ s \o w \in Seq(Byte) /\ s \o head \in Seq(Byte)
            /\ Len(s \o head) <= Len(s \o w)
            /\ \A i \in 1..Len(s \o head) : (s \o head)[i] = (s \o w)[i]
<1> DEFINE n == Len(w)
           l == Len(s)
           head == SubSeq(w, 1, k)
           all == s \o w
           cut == s \o head
<1>1. n \in Nat /\ l \in Nat /\ k \in Nat /\ k <= n
  BY LenProperties
<1>2. \A i \in 1..n : w[i] \in Byte
  BY ElementOfSeq
<1>3. /\ all \in Seq(Byte) /\ Len(all) = l + n
      /\ \A i \in 1..(l + n) : all[i] = IF i <= l THEN s[i] ELSE w[i - l]
  BY ConcatProperties
<1> HIDE DEF n
<1>4. head \in Seq(Byte) /\ Len(head) = k /\ \A i \in 1..k : head[i] = w[i]
  <2>1. \A i \in 1..k : w[i] \in Byte
    BY <1>1, <1>2
  <2>2. /\ head \in Seq(Byte)
        /\ Len(head) = IF 1 <= k THEN k - 1 + 1 ELSE 0
        /\ \A i \in 1..(k - 1 + 1) : head[i] = w[1 + i - 1]
    BY <1>1, <2>1, SubSeqProperties
  <2> HIDE DEF head
  <2> QED
    BY <1>1, <2>2
<1> HIDE DEF head
<1>5. /\ cut \in Seq(Byte) /\ Len(cut) = l + Len(head)
      /\ \A i \in 1..(l + Len(head)) :
           cut[i] = IF i <= l THEN s[i] ELSE head[i - l]
  BY <1>4, ConcatProperties
<1> HIDE DEF l, all, cut
<1>6. Len(cut) = l + k /\ l + k <= l + n
  BY <1>1, <1>4, <1>5
<1>7. ASSUME NEW i \in 1..(l + k)
      PROVE  cut[i] = all[i]
  <2>1. i \in 1..(l + n)
    BY <1>1
  <2>2. ~(i <= l) => i - l \in 1..k
    BY <1>1
  <2> QED
    BY <1>3, <1>4, <1>5, <2>1, <2>2
<1> QED
  BY <1>3, <1>4, <1>5, <1>6, <1>7 DEF cut, all, head

-----------------------------------------------------------------------------
(* operator>>.                                                             *)

(* A set of numbers has a least one.                                       *)
LEMMA LeastNumber ==
  ASSUME NEW T \in SUBSET Nat, T # {}
  PROVE  \E x \in T : \A y \in T : x <= y
<1> DEFINE R == OpToRel(<, Nat)
<1>1. IsWellFoundedOn(R, Nat)
  BY NatLessThanWellFounded
<1>2. \A x, y \in Nat : <<x, y>> \in R <=> x < y
  BY DEF OpToRel
<1>3. PICK x \in T : \A y \in T : ~(<<y, x>> \in R)
  <2> HIDE DEF R
  <2> QED
    BY <1>1, WFMin
<1> HIDE DEF R
<1>4. ASSUME NEW y \in T
      PROVE  x <= y
  <2>1. x \in Nat /\ y \in Nat
    OBVIOUS
  <2>2. ~(y < x)
    BY <1>2, <1>3, <2>1
  <2> QED
    BY <2>1, <2>2
<1> QED
  BY <1>4

(* That is its minimum.                                                    *)
LEMMA MinNumber ==
  ASSUME NEW T \in SUBSET Nat, T # {}
  PROVE  /\ Min(T) \in T
         /\ \A y \in T : Min(T) <= y
BY LeastNumber DEF Min

(* It takes a part of the bytes; all of them if none is white space.       *)
LEMMA TokenFacts ==
  ASSUME NEW bytes \in Seq(Byte)
  PROVE  /\ Token(bytes) \in Seq(Byte)
         /\ Len(Token(bytes)) <= Len(bytes)
         /\ (\A i \in 1..Len(bytes) : CharOf(bytes[i]) # "blank") =>
              Token(bytes) = bytes
<1> DEFINE n == Len(bytes)
           solid == {i \in DOMAIN bytes : CharOf(bytes[i]) # "blank"}
           first == Min(solid)
           blank == {i \in first..n : CharOf(bytes[i]) = "blank"}
           end == IF blank = {} THEN n ELSE Min(blank) - 1
           part == SubSeq(bytes, first, end)
<1>1. n \in Nat /\ DOMAIN bytes = 1..n /\ \A i \in 1..n : bytes[i] \in Byte
  BY LenProperties, ElementOfSeq
<1>2. Token(bytes) = IF solid = {} THEN <<>> ELSE part
  BY DEF Token
<1>3. CASE solid = {}
  <2>1. Token(bytes) = <<>> /\ <<>> \in Seq(Byte) /\ Len(<<>>) = 0
    BY <1>2, <1>3, EmptySeq
  <2>2. ASSUME \A i \in 1..n : CharOf(bytes[i]) # "blank"
        PROVE  bytes = <<>>
    <3>1. n = 0
      <4>1. n \notin 1..n
        BY <1>1, <1>3, <2>2
      <4> QED
        BY <1>1, <4>1
    <3> QED
      BY <3>1, EmptySeq
  <2>3. (\A i \in 1..n : CharOf(bytes[i]) # "blank") => Token(bytes) = bytes
    BY <2>1, <2>2
  <2>4. Len(Token(bytes)) <= n
    BY <1>1, <2>1
  <2> QED
    BY <2>1, <2>3, <2>4
<1>4. CASE solid # {}
  <2>1. first \in 1..n /\ CharOf(bytes[first]) # "blank"
        /\ \A i \in solid : first <= i
    <3>1. solid \in SUBSET Nat
      BY <1>1
    <3>2. first \in solid /\ \A i \in solid : first <= i
      <4> HIDE DEF solid
      <4> QED
        BY <1>4, <3>1, MinNumber
    <3> QED
      BY <1>1, <3>2
  <2>2. end \in Nat /\ end <= n
    <3>1. CASE blank = {}
      BY <1>1, <3>1
    <3>2. CASE blank # {}
      <4>1. blank \in SUBSET Nat /\ blank \subseteq 1..n
        <5> HIDE DEF first, n
        <5> QED
          BY <1>1, <2>1
      <4>2. Min(blank) \in blank
        <5> HIDE DEF blank
        <5> QED
          BY <3>2, <4>1, MinNumber
      <4>3. Min(blank) \in 1..n
        BY <4>1, <4>2
      <4> HIDE DEF blank
      <4> QED
        BY <1>1, <3>2, <4>3
    <3> QED
      BY <3>1, <3>2
  <2> DEFINE a == first
             b == end
  <2>3. part = SubSeq(bytes, a, b)
    OBVIOUS
  <2>4. a \in Nat /\ a >= 1 /\ b \in Nat /\ b <= n
    BY <1>1, <2>1, <2>2
  <2>5. /\ SubSeq(bytes, a, b) \in Seq(Byte)
        /\ Len(SubSeq(bytes, a, b)) = IF a <= b THEN b - a + 1 ELSE 0
    <3> HIDE DEF a, b
    <3>1. \A i \in a..b : bytes[i] \in Byte
      BY <1>1, <2>4
    <3> QED
      BY <2>4, <3>1, SubSeqProperties
  <2>6. (IF a <= b THEN b - a + 1 ELSE 0) <= n
    <3> HIDE DEF a, b
    <3> QED
      BY <1>1, <2>4
  <2>7. ASSUME \A i \in 1..n : CharOf(bytes[i]) # "blank"
        PROVE  Token(bytes) = bytes
    <3>1. blank = {}
      <4> HIDE DEF first, n
      <4> QED
        BY <1>1, <2>1, <2>7
    <3>2. 1 \in solid
      BY <1>1, <2>1, <2>7
    <3>3. first = 1
      <4>1. first <= 1 /\ first \in 1..n
        BY <2>1, <3>2
      <4> HIDE DEF first
      <4> QED
        BY <4>1
    <3>4. part = SubSeq(bytes, 1, n)
      BY <3>1, <3>3
    <3> QED
      BY <1>2, <1>4, <3>4, SubSeqFull
  <2>8. Token(bytes) = SubSeq(bytes, a, b)
    BY <1>2, <1>4
  <2> HIDE DEF a, b
  <2> QED
    BY <2>5, <2>6, <2>7, <2>8
<1> QED
  BY <1>3, <1>4

-----------------------------------------------------------------------------
(* The types, and the stream.                                              *)

(* At first nothing is sent.                                               *)
LEMMA InitTypeInv == Init => TypeInv /\ Stream = <<>>
<1> SUFFICES ASSUME Init
             PROVE  TypeInv /\ Stream = <<>>
  OBVIOUS
<1>1. /\ <<>> \in Seq(Body) /\ <<>> \in Seq(Byte) /\ <<>> \in Seq(Seq(Byte))
      /\ Len(<<>>) = 0
  BY EmptySeq
<1>2. Stream = <<>>
  BY <1>1, ConcatEmptySeq DEF Init, Stream
<1>3. TypeOK
  BY <1>1 DEF Init, TypeOK
<1>4. StreamInv
  BY <1>1, <1>2 DEF StreamInv, Frames, Ended
<1> QED
  BY <1>2, <1>3, <1>4 DEF TypeInv

(* The types of the stream.                                                *)
LEMMA StreamTypes ==
  ASSUME TypeInv
  PROVE  /\ socket \in Seq(Byte) /\ wire \in Seq(Byte) /\ sent \in Seq(Body)
         /\ Stream \in Seq(Byte)
         /\ Len(Stream) \in Nat /\ Len(socket) \in Nat /\ Len(sent) \in Nat
         /\ Len(socket) <= Len(Stream)
         /\ \A i \in 1..Len(socket) : Stream[i] = socket[i]
         /\ Frames(sent, Stream)
         /\ open => Ended(sent, Stream)
<1>1. socket \in Seq(Byte) /\ wire \in Seq(Byte) /\ sent \in Seq(Body)
  BY DEF TypeInv, TypeOK
<1>2. 0 \in 0..Len(socket)
  BY <1>1, LenProperties
<1>3. /\ Stream \in Seq(Byte) /\ Len(Stream) \in Nat /\ Len(socket) \in Nat
      /\ Len(socket) <= Len(Stream)
      /\ \A i \in 1..Len(socket) : Stream[i] = socket[i]
  BY <1>1, <1>2, DropSocket DEF Stream
<1> QED
  BY <1>1, <1>3, LenProperties DEF TypeInv, StreamInv

(* A message is written: a frame after the stream.                         *)
LEMMA WriteStep ==
  ASSUME TypeInv, Write
  PROVE  /\ TypeInv' /\ open
         /\ UNCHANGED <<socket, open, readVars>>
         /\ Len(sent') = Len(sent) + 1
         /\ \A j \in 1..Len(sent) : sent'[j] = sent[j]
         /\ \E body \in Body : sent' = Append(sent, body)
         /\ Len(Stream') > Len(Stream)
         /\ \A i \in 1..Len(Stream) : Stream'[i] = Stream[i]
         /\ Stream'[Len(Stream) + 1] = <<Len(sent) + 1, 1>>
<1>1. PICK body \in Body : /\ sent' = Append(sent, body)
                           /\ wire' = wire \o write_(Len(sent) + 1, body)
  BY DEF Write
<1>2. open /\ UNCHANGED <<socket, open, readVars>>
  BY DEF Write
<1> DEFINE f == write_(Len(sent) + 1, body)
<1>3. /\ socket \in Seq(Byte) /\ wire \in Seq(Byte) /\ sent \in Seq(Body)
      /\ Stream \in Seq(Byte) /\ Len(Stream) \in Nat /\ Len(sent) \in Nat
      /\ Frames(sent, Stream) /\ Ended(sent, Stream)
  BY <1>2, StreamTypes
<1>4. f \in Seq(Byte)
  BY <1>3, FrameBytes
<1>5. Stream' = Stream \o f
  <2>1. (socket \o wire) \o f = socket \o (wire \o f)
    <3> HIDE DEF f
    <3> QED
      BY <1>3, <1>4, ConcatAssociative
  <2> QED
    BY <1>1, <1>2, <2>1 DEF Stream
<1>6. /\ Stream' \in Seq(Byte) /\ Len(Stream') = Len(Stream) + Size(body)
      /\ \A i \in 1..Len(Stream) : Stream'[i] = Stream[i]
      /\ Stream'[Len(Stream) + 1] = <<Len(sent) + 1, 1>>
      /\ Frames(sent', Stream') /\ Ended(sent', Stream')
  BY <1>1, <1>3, <1>5, FramesWritten
<1>7. Size(body) \in Nat /\ Size(body) > 0
  BY SizeFacts
<1>8. /\ sent' \in Seq(Body) /\ Len(sent') = Len(sent) + 1
      /\ \A j \in 1..Len(sent) : sent'[j] = sent[j]
  BY <1>1, <1>3, AppendProperties
<1>9. wire' \in Seq(Byte)
  BY <1>1, <1>3, <1>4, ConcatProperties
<1>10. TypeOK'
  BY <1>2, <1>8, <1>9 DEF TypeInv, TypeOK, readVars, Missing
<1>11. StreamInv'
  BY <1>6 DEF StreamInv
<1>12. Len(Stream') > Len(Stream)
  BY <1>3, <1>6, <1>7
<1> QED
  BY <1>1, <1>2, <1>6, <1>8, <1>10, <1>11, <1>12 DEF TypeInv

(* The peer vanishes: the stream is cut off.                               *)
LEMMA VanishStep ==
  ASSUME TypeInv, Vanish
  PROVE  /\ TypeInv' /\ open /\ ~open'
         /\ UNCHANGED <<sent, socket, readVars>>
         /\ Len(Stream') <= Len(Stream)
         /\ \A i \in 1..Len(Stream') : Stream'[i] = Stream[i]
<1>1. PICK k \in 0..Len(wire) : wire' = SubSeq(wire, 1, k)
  BY DEF Vanish
<1>2. open /\ open' = FALSE /\ UNCHANGED <<sent, socket, readVars>>
  BY DEF Vanish
<1>3. /\ socket \in Seq(Byte) /\ wire \in Seq(Byte) /\ sent \in Seq(Body)
      /\ Frames(sent, Stream)
  BY StreamTypes
<1>4. Stream' = socket \o SubSeq(wire, 1, k)
  BY <1>1, <1>2 DEF Stream
<1>5. /\ wire' \in Seq(Byte) /\ Stream \in Seq(Byte) /\ Stream' \in Seq(Byte)
      /\ Len(Stream') <= Len(Stream)
      /\ \A i \in 1..Len(Stream') : Stream'[i] = Stream[i]
  <2> DEFINE t == SubSeq(wire, 1, k)
             u == socket \o t
             s == socket \o wire
  <2>1. /\ t \in Seq(Byte) /\ u \in Seq(Byte) /\ s \in Seq(Byte)
        /\ Len(u) <= Len(s)
        /\ \A i \in 1..Len(u) : u[i] = s[i]
    BY <1>3, VanishStream
  <2>2. wire' = t /\ Stream' = u /\ Stream = s
    BY <1>1, <1>4 DEF Stream
  <2> HIDE DEF t, u, s
  <2> QED
    BY <2>1, <2>2
<1>6. Frames(sent, Stream')
  BY <1>3, <1>5, FramesCut
<1>7. TypeOK'
  BY <1>2, <1>5 DEF TypeInv, TypeOK, readVars, Missing
<1>8. StreamInv'
  BY <1>2, <1>6 DEF StreamInv
<1> QED
  BY <1>2, <1>5, <1>7, <1>8 DEF TypeInv

(* Bytes arrive: the stream is the same.                                   *)
LEMMA ArriveStep ==
  ASSUME TypeInv, Arrive
  PROVE  /\ TypeInv'
         /\ wire # <<>>
         /\ UNCHANGED <<sent, open, readVars, Stream>>
<1>1. PICK k \in 1..Len(wire) :
        /\ socket' = socket \o SubSeq(wire, 1, k)
        /\ wire' = SubSeq(wire, k + 1, Len(wire))
  BY DEF Arrive
<1>2. UNCHANGED <<sent, open, readVars>>
  BY DEF Arrive
<1>3. socket \in Seq(Byte) /\ wire \in Seq(Byte)
  BY StreamTypes
<1>4. socket' \in Seq(Byte) /\ wire' \in Seq(Byte) /\ Stream' = Stream
  BY <1>1, <1>3, ArriveStream DEF Stream
<1>5. wire # <<>>
  <2>1. Len(wire) # 0
    BY <1>1
  <2> QED
    BY <2>1, EmptySeq
<1>6. TypeOK'
  BY <1>2, <1>4 DEF TypeInv, TypeOK, readVars, Missing
<1>7. StreamInv'
  BY <1>2, <1>4 DEF TypeInv, StreamInv
<1> QED
  BY <1>2, <1>4, <1>5, <1>6, <1>7 DEF TypeInv

(* Bytes are taken from the socket.                                        *)
LEMMA TakenStream ==
  ASSUME TypeInv, NEW n \in 0..Len(socket),
         socket' = SubSeq(socket, n + 1, Len(socket)),
         UNCHANGED peerVars
  PROVE  /\ socket' \in Seq(Byte)
         /\ StreamInv'
         /\ Len(Stream') = Len(Stream) - n
         /\ \A i \in 1..Len(Stream') : Stream'[i] = Stream[i + n]
<1>1. UNCHANGED <<sent, wire, open>>
  BY DEF peerVars
<1>2. /\ socket \in Seq(Byte) /\ wire \in Seq(Byte) /\ sent \in Seq(Body)
      /\ Stream \in Seq(Byte) /\ Len(Stream) \in Nat /\ Len(socket) \in Nat
      /\ Len(socket) <= Len(Stream)
      /\ Frames(sent, Stream) /\ (open => Ended(sent, Stream))
  BY StreamTypes
<1>3. Stream' = SubSeq(socket, n + 1, Len(socket)) \o wire
  BY <1>1 DEF Stream
<1>4. /\ socket' \in Seq(Byte) /\ Stream' \in Seq(Byte)
      /\ Len(Stream') = Len(Stream) - n
      /\ \A i \in 1..Len(Stream') : Stream'[i] = Stream[i + n]
  <2> DEFINE t == SubSeq(socket, n + 1, Len(socket))
             u == t \o wire
  <2>1. /\ t \in Seq(Byte) /\ u \in Seq(Byte)
        /\ Len(u) = Len(socket \o wire) - n
        /\ \A i \in 1..Len(u) : u[i] = (socket \o wire)[i + n]
    BY <1>2, DropSocket
  <2>2. socket' = t /\ Stream' = u /\ Stream = socket \o wire
    BY <1>3 DEF Stream
  <2> HIDE DEF t, u
  <2> QED
    BY <2>1, <2>2
<1>5. n \in 0..Len(Stream)
  BY <1>2
<1>6. /\ Frames(sent, Stream')
      /\ Ended(sent, Stream) => Ended(sent, Stream')
  BY <1>2, <1>4, <1>5, FramesDropped
<1>7. StreamInv'
  BY <1>1, <1>2, <1>6 DEF StreamInv
<1> QED
  BY <1>4, <1>7

(* The buffer for the header is filled, with the first bytes of the        *)
(* stream.                                                                 *)
LEMMA HeaderStep ==
  ASSUME TypeInv, ReadHeader
  PROVE  LET m == Stream[1][1]
             w == HeaderWidth(Len(sent[m]))
             bytes == SubSeq(socket, w + 1, BufferSize)
         IN /\ socket # <<>> /\ Len(Stream) >= BufferSize
            /\ InRange(sent, Stream[1])
            /\ bytes \in Seq(Byte) /\ Len(bytes) = BufferSize - w
            /\ \A i \in 1..(BufferSize - w) : bytes[i] = Stream[w + i]
            /\ TypeInv'
            /\ Len(Stream') = Len(Stream) - BufferSize
            /\ \A i \in 1..Len(Stream') : Stream'[i] = Stream[i + BufferSize]
            /\ UNCHANGED <<sent, wire, open, received>>
            /\ contentbuf' = <<>>
            /\ \/ /\ Stream[1][2] = 1 /\ pc' = "content"
                  /\ contentLength' = Len(sent[m])
                  /\ contentInHeader' = Token(bytes)
               \/ Stream[1][2] # 1 /\ pc' = "failed"
<1> DEFINE m == Stream[1][1]
           w == HeaderWidth(Len(sent[m]))
           bytes == SubSeq(socket, w + 1, BufferSize)
           B == BufferSize
<1>1. /\ socket \in Seq(Byte) /\ sent \in Seq(Body)
      /\ Len(Stream) \in Nat /\ Len(socket) \in Nat /\ Len(socket) <= Len(Stream)
      /\ \A i \in 1..Len(socket) : Stream[i] = socket[i]
      /\ Frames(sent, Stream)
  BY StreamTypes
<1>2. B \in Nat /\ B > 0
  BY FrameAssumption
<1>3. Len(socket) >= B
  BY DEF ReadHeader, Enough
<1>4. 1 \in 1..Len(socket) /\ 1 \in 1..Len(Stream)
  BY <1>1, <1>2, <1>3
<1>5. Stream[1] = socket[1] /\ InRange(sent, Stream[1])
  BY <1>1, <1>4 DEF Frames
<1>6. sent[m] \in Body /\ m \in Nat
  BY <1>1, <1>5, RangeTypes
<1>7. /\ Len(sent[m]) \in Nat /\ w \in Nat /\ 1 <= w /\ w <= B
      /\ Len(sent[m]) >= B - w
  BY <1>6, SizeFacts
<1>8. /\ UNCHANGED <<sent, wire, open, received>>
      /\ socket' = SubSeq(socket, B + 1, Len(socket))
      /\ contentbuf' = <<>>
      /\ \/ /\ Stream[1][2] = 1 /\ pc' = "content"
            /\ contentLength' = Len(sent[m])
            /\ contentInHeader' = Token(bytes)
         \/ /\ Stream[1][2] # 1 /\ pc' = "failed"
            /\ UNCHANGED <<contentLength, contentInHeader>>
  BY <1>5 DEF ReadHeader, peerVars
<1> HIDE DEF m, w
<1>9. /\ bytes \in Seq(Byte) /\ Len(bytes) = B - w
      /\ \A i \in 1..(B - w) : bytes[i] = Stream[w + i]
  <2>1. \A i \in (w + 1)..B : socket[i] \in Byte
    <3>1. \A i \in (w + 1)..B : i \in 1..Len(socket)
      BY <1>1, <1>2, <1>3, <1>7
    <3> QED
      BY <1>1, <3>1, ElementOfSeq
  <2>2. w + 1 \in Int /\ B \in Int
    BY <1>2, <1>7
  <2>3. /\ bytes \in Seq(Byte)
        /\ Len(bytes) = IF w + 1 <= B THEN B - (w + 1) + 1 ELSE 0
        /\ \A i \in 1..(B - (w + 1) + 1) : bytes[i] = socket[(w + 1) + i - 1]
    BY <2>1, <2>2, SubSeqProperties
  <2> HIDE DEF bytes, B
  <2>4. Len(bytes) = B - w
    BY <1>2, <1>7, <2>3
  <2>5. /\ B - (w + 1) + 1 = B - w
        /\ \A i \in 1..(B - w) : /\ (w + 1) + i - 1 = w + i
                                 /\ w + i \in 1..Len(socket)
    BY <1>1, <1>2, <1>3, <1>7
  <2> QED
    BY <1>1, <2>3, <2>4, <2>5
<1>10. /\ socket' \in Seq(Byte) /\ StreamInv'
       /\ Len(Stream') = Len(Stream) - B
       /\ \A i \in 1..Len(Stream') : Stream'[i] = Stream[i + B]
  <2>1. B \in 0..Len(socket)
    BY <1>1, <1>2, <1>3
  <2> HIDE DEF B
  <2> QED
    BY <1>8, <2>1, TakenStream DEF peerVars
<1> HIDE DEF bytes
<1>11. TypeOK'
  <2>1. /\ sent' \in Seq(Body) /\ wire' \in Seq(Byte) /\ open' \in BOOLEAN
        /\ received' \in Seq(Seq(Byte))
    BY <1>8 DEF TypeInv, TypeOK
  <2>2. contentbuf' \in Seq(Byte) /\ Len(contentbuf') = 0
    BY <1>8, EmptySeq
  <2>3. CASE /\ Stream[1][2] = 1 /\ pc' = "content"
             /\ contentLength' = Len(sent[m])
             /\ contentInHeader' = Token(bytes)
    <3>1. /\ Token(bytes) \in Seq(Byte) /\ Len(Token(bytes)) <= Len(bytes)
      BY <1>9, TokenFacts
    <3>2. Len(Token(bytes)) \in Nat
      BY <3>1, LenProperties
    <3>3. contentLength' - Len(contentInHeader') - Len(contentbuf') \in Nat
      BY <1>2, <1>7, <1>9, <2>2, <2>3, <3>1, <3>2
    <3> QED
      BY <1>7, <1>10, <2>1, <2>2, <2>3, <3>1, <3>3 DEF TypeOK, Missing
  <2>4. CASE /\ Stream[1][2] # 1 /\ pc' = "failed"
             /\ UNCHANGED <<contentLength, contentInHeader>>
    BY <1>10, <2>1, <2>2, <2>4 DEF TypeInv, TypeOK
  <2> QED
    BY <1>8, <2>3, <2>4
<1>12. socket # <<>>
  BY <1>2, <1>3, EmptySeq
<1>13. Len(Stream) >= B
  BY <1>1, <1>2, <1>3
<1> QED
  BY <1>5, <1>8, <1>9, <1>10, <1>11, <1>12, <1>13 DEF TypeInv, bytes, w, m

(* A part of the content is read: as much as has arrived and is missing.   *)
Message == contentInHeader \o contentbuf

(* The message grows by the bytes it takes from the stream.                *)
LEMMA ContentStep ==
  ASSUME TypeInv, ReadContent
  PROVE  /\ TypeInv'
         /\ UNCHANGED <<sent, wire, open, pc, contentLength, received>>
         /\ Transferred \in Nat /\ Transferred > 0 /\ Transferred <= Missing
         /\ Missing \in Nat /\ Missing > 0
         /\ Missing' = Missing - Transferred
         /\ Len(Stream') = Len(Stream) - Transferred
         /\ Transferred <= Len(Stream)
         /\ \A i \in 1..Len(Stream') : Stream'[i] = Stream[i + Transferred]
         /\ Message \in Seq(Byte) /\ Message' \in Seq(Byte)
         /\ Len(Message') = Len(Message) + Transferred
         /\ \A i \in 1..Len(Message) : Message'[i] = Message[i]
         /\ \A i \in 1..Transferred : Message'[Len(Message) + i] = Stream[i]
<1> DEFINE T == Transferred
           M == Missing
           k == Len(socket)
           part == SubSeq(socket, 1, T)
<1>1. /\ socket \in Seq(Byte) /\ k \in Nat /\ Len(Stream) \in Nat
      /\ k <= Len(Stream)
      /\ \A i \in 1..k : Stream[i] = socket[i]
  BY StreamTypes
<1>2. /\ pc = "content" /\ M > 0 /\ socket # <<>>
      /\ contentbuf' = contentbuf \o part
      /\ socket' = SubSeq(socket, T + 1, k)
      /\ UNCHANGED <<sent, wire, open, pc, contentLength, contentInHeader, received>>
  BY DEF ReadContent, peerVars
<1>3. /\ contentInHeader \in Seq(Byte) /\ contentbuf \in Seq(Byte)
      /\ contentLength \in Nat /\ M \in Nat
  BY <1>2 DEF TypeInv, TypeOK
<1>4. k # 0
  BY <1>1, <1>2, EmptySeq
<1>5. T = IF M <= k THEN M ELSE k
  BY DEF Transferred
<1>6. M = contentLength - Len(contentInHeader) - Len(contentbuf)
  BY DEF Missing
<1>7. M' = contentLength - Len(contentInHeader) - Len(contentbuf')
  BY <1>2 DEF Missing
<1> HIDE DEF T, M, k
<1>8. T \in Nat /\ T > 0 /\ T <= M /\ T <= k /\ T \in 0..k /\ T <= Len(Stream)
  BY <1>1, <1>2, <1>3, <1>4, <1>5
<1>9. /\ part \in Seq(Byte) /\ Len(part) = T
      /\ \A i \in 1..T : part[i] = Stream[i]
  <2>1. \A i \in 1..T : socket[i] \in Byte /\ i \in 1..k
    <3>1. \A i \in 1..T : i \in 1..k
      BY <1>1, <1>8
    <3> QED
      BY <1>1, <3>1, ElementOfSeq DEF k
  <2>2. /\ part \in Seq(Byte)
        /\ Len(part) = IF 1 <= T THEN T - 1 + 1 ELSE 0
        /\ \A i \in 1..(T - 1 + 1) : part[i] = socket[1 + i - 1]
    BY <1>8, <2>1, SubSeqProperties
  <2> HIDE DEF part
  <2>3. T - 1 + 1 = T /\ \A i \in 1..T : 1 + i - 1 = i
    BY <1>8
  <2> QED
    BY <1>1, <1>8, <2>1, <2>2, <2>3
<1> HIDE DEF part
<1>10. /\ socket' \in Seq(Byte) /\ StreamInv'
       /\ Len(Stream') = Len(Stream) - T
       /\ \A i \in 1..Len(Stream') : Stream'[i] = Stream[i + T]
  BY <1>2, <1>8, TakenStream DEF peerVars, k
<1>11. contentbuf' \in Seq(Byte) /\ Len(contentbuf') = Len(contentbuf) + T
  <2>1. /\ contentbuf \o part \in Seq(Byte)
        /\ Len(contentbuf \o part) = Len(contentbuf) + Len(part)
    BY <1>3, <1>9, ConcatProperties
  <2> QED
    BY <1>2, <1>9, <2>1
<1>12. M' = M - T
  <2>1. /\ Len(contentInHeader) \in Nat /\ Len(contentbuf) \in Nat
    BY <1>3, LenProperties
  <2> QED
    BY <1>3, <1>6, <1>7, <1>8, <1>11, <2>1
<1>13. /\ Message \in Seq(Byte) /\ Len(Message) \in Nat
       /\ Message' = Message \o part
  <2>1. Message' = contentInHeader \o (contentbuf \o part)
    BY <1>2 DEF Message
  <2>2. (contentInHeader \o contentbuf) \o part
          = contentInHeader \o (contentbuf \o part)
    BY <1>3, <1>9, ConcatAssociative
  <2>3. contentInHeader \o contentbuf \in Seq(Byte)
    BY <1>3, ConcatProperties
  <2> QED
    BY <2>1, <2>2, <2>3, LenProperties DEF Message
<1>14. /\ Message' \in Seq(Byte) /\ Len(Message') = Len(Message) + T
       /\ \A i \in 1..Len(Message) : Message'[i] = Message[i]
       /\ \A i \in 1..T : Message'[Len(Message) + i] = Stream[i]
  <2> DEFINE l == Len(Message)
             new == Message \o part
  <2>1. /\ new \in Seq(Byte) /\ Len(new) = l + Len(part)
        /\ \A i \in 1..(l + Len(part)) :
             new[i] = IF i <= l THEN Message[i] ELSE part[i - l]
    BY <1>9, <1>13, ConcatProperties
  <2> HIDE DEF new, l
  <2>2. l \in Nat
    BY <1>13 DEF l
  <2>3. /\ \A i \in 1..l : i \in 1..(l + T) /\ i <= l
        /\ \A i \in 1..T : l + i \in 1..(l + T) /\ ~(l + i <= l) /\ (l + i) - l = i
    BY <1>8, <2>2
  <2>4. /\ \A i \in 1..l : new[i] = Message[i]
        /\ \A i \in 1..T : new[l + i] = Stream[i]
    BY <1>9, <2>1, <2>3
  <2> QED
    BY <1>9, <1>13, <2>1, <2>4 DEF new, l
<1>15. TypeOK'
  <2>1. M' \in Nat
    BY <1>3, <1>8, <1>12
  <2> QED
    BY <1>2, <1>10, <1>11, <2>1 DEF TypeInv, TypeOK, M
<1> QED
  BY <1>2, <1>3, <1>8, <1>10, <1>12, <1>13, <1>14, <1>15 DEF TypeInv, T, M

(* A message is returned.                                                  *)
LEMMA ReturnStep ==
  ASSUME TypeInv, ReturnMessage
  PROVE  /\ TypeInv'
         /\ UNCHANGED <<sent, wire, socket, open, Stream>>
         /\ pc = "content" /\ pc' = "wait"
         /\ Missing = 0 \/ EndOfStream
         /\ Missing \in Nat
         /\ Message \in Seq(Byte)
         /\ received' = Append(received, Message)
         /\ Len(received') = Len(received) + 1 /\ Len(received) \in Nat
         /\ \A m \in 1..Len(received) : received'[m] = received[m]
         /\ received'[Len(received) + 1] = Message
<1>1. /\ pc = "content" /\ pc' = "wait" /\ (Missing = 0 \/ EndOfStream)
      /\ received' = Append(received, Message)
      /\ UNCHANGED <<sent, wire, socket, open, contentLength, contentInHeader,
                     contentbuf>>
  BY DEF ReturnMessage, Message, peerVars
<1>2. /\ contentInHeader \in Seq(Byte) /\ contentbuf \in Seq(Byte)
      /\ received \in Seq(Seq(Byte)) /\ Missing \in Nat
  BY <1>1 DEF TypeInv, TypeOK
<1>3. Message \in Seq(Byte)
  BY <1>2, ConcatProperties DEF Message
<1>4. /\ received' \in Seq(Seq(Byte)) /\ Len(received') = Len(received) + 1
      /\ Len(received) \in Nat
      /\ \A m \in 1..Len(received) : received'[m] = received[m]
      /\ received'[Len(received) + 1] = Message
  BY <1>1, <1>2, <1>3, AppendProperties, LenProperties
<1>5. TypeOK'
  BY <1>1, <1>4 DEF TypeInv, TypeOK
<1>6. StreamInv' /\ Stream' = Stream
  BY <1>1 DEF TypeInv, StreamInv, Stream
<1> QED
  BY <1>1, <1>2, <1>3, <1>4, <1>5, <1>6 DEF TypeInv

(* The invariant.                                                          *)
LEMMA NextTypeInv == TypeInv /\ [Next]_vars => TypeInv'
<1> SUFFICES ASSUME TypeInv, [Next]_vars
             PROVE  TypeInv'
  OBVIOUS
<1>1. CASE UNCHANGED vars
  BY <1>1 DEF vars, peerVars, readVars, TypeInv, TypeOK, StreamInv, Stream, Missing
<1>2. CASE Next
  BY <1>2, WriteStep, VanishStep, ArriveStep, HeaderStep, ContentStep, ReturnStep
     DEF Next, Reader
<1> QED
  BY <1>1, <1>2

(* And it always holds.                                                    *)
LEMMA TypeInvInvariant == Spec => []TypeInv
BY InitTypeInv, NextTypeInv, PTL DEF Spec

(* Every variable has its type; in particular no more is read than is      *)
(* missing, so that the unsigned number of bytes still to read never       *)
(* wraps (ioHandler.cpp:96-99), whatever was sent and however it was cut.  *)
THEOREM FrameTypes == Spec => []TypeOK
<1>1. TypeInv => TypeOK
  BY DEF TypeInv
<1> QED
  BY <1>1, TypeInvInvariant, PTL

-----------------------------------------------------------------------------
(* The reader in step with the frames.                                     *)

(* The first m frames are taken from the stream, and no more.              *)
AtFrame(m) ==
  /\ Stream # <<>> => Stream[1] = <<m + 1, 1>>
  /\ Stream = <<>> /\ open => Len(sent) = m

(* And the first k bytes of the frame of the m-th message, and no more.    *)
InFrame(m, k) ==
  /\ Stream # <<>> => Stream[1] = <<m, k + 1>>
  /\ Stream = <<>> => ~open

(* The peer and the network leave that as it is.                           *)
LEMMA PeerKeepsPlace ==
  ASSUME TypeInv, Write \/ Vanish \/ Arrive
  PROVE  /\ \A m : AtFrame(m) => AtFrame(m)'
         /\ \A m, k : InFrame(m, k) => InFrame(m, k)'
<1>1. Stream \in Seq(Byte) /\ Len(Stream) \in Nat
  BY StreamTypes
<1>2. CASE Write
  <2>1. /\ TypeInv' /\ open /\ open' = open
        /\ Len(Stream') > Len(Stream)
        /\ \A i \in 1..Len(Stream) : Stream'[i] = Stream[i]
        /\ Stream'[Len(Stream) + 1] = <<Len(sent) + 1, 1>>
    BY <1>2, WriteStep
  <2>2. Stream' # <<>>
    <3>1. Len(Stream') # 0
      BY <1>1, <2>1
    <3> QED
      BY <3>1, EmptySeq
  <2>3. Stream # <<>> => Stream'[1] = Stream[1]
    <3> SUFFICES ASSUME Stream # <<>>
                 PROVE  Stream'[1] = Stream[1]
      OBVIOUS
    <3>1. 1 \in 1..Len(Stream)
      BY <1>1, EmptySeq
    <3> QED
      BY <2>1, <3>1
  <2>4. Stream = <<>> => Stream'[1] = <<Len(sent) + 1, 1>>
    <3> SUFFICES ASSUME Stream = <<>>
                 PROVE  Stream'[1] = <<Len(sent) + 1, 1>>
      OBVIOUS
    <3>1. Len(Stream) = 0
      BY EmptySeq
    <3>2. Len(Stream) + 1 = 1
      BY <3>1
    <3> QED
      BY <2>1, <3>2
  <2> QED
    BY <2>1, <2>2, <2>3, <2>4 DEF AtFrame, InFrame
<1>3. CASE Vanish
  <2>1. /\ TypeInv' /\ ~open'
        /\ Len(Stream') <= Len(Stream)
        /\ \A i \in 1..Len(Stream') : Stream'[i] = Stream[i]
    BY <1>3, VanishStep
  <2>2. Stream' \in Seq(Byte) /\ Len(Stream') \in Nat
    <3>1. socket' \in Seq(Byte) /\ wire' \in Seq(Byte)
      BY <2>1 DEF TypeInv, TypeOK
    <3> QED
      BY <3>1, ConcatProperties, LenProperties DEF Stream
  <2>3. Stream' # <<>> => Stream # <<>> /\ Stream'[1] = Stream[1]
    <3> SUFFICES ASSUME Stream' # <<>>
                 PROVE  Stream # <<>> /\ Stream'[1] = Stream[1]
      OBVIOUS
    <3>1. Len(Stream') # 0
      BY <2>2, EmptySeq
    <3>2. 1 \in 1..Len(Stream') /\ Len(Stream) # 0
      BY <1>1, <2>1, <2>2, <3>1
    <3> QED
      BY <2>1, <3>2, EmptySeq
  <2> QED
    BY <2>1, <2>3 DEF AtFrame, InFrame
<1>4. CASE Arrive
  <2>1. UNCHANGED <<sent, open, Stream>>
    BY <1>4, ArriveStep
  <2> QED
    BY <2>1 DEF AtFrame, InFrame
<1> QED
  BY <1>2, <1>3, <1>4

(* The reader takes n bytes.                                               *)
Takes(n) ==
  /\ n > 0 /\ n <= Len(Stream)
  /\ sent' = sent /\ open' = open
  /\ Len(Stream') = Len(Stream) - n
  /\ \A i \in 1..Len(Stream') : Stream'[i] = Stream[i + n]

(* They are bytes of a frame, k of which are taken already.                *)
LEMMA TakesPlace ==
  ASSUME TypeInv, TypeInv', NEW m \in Nat, NEW k \in Nat, NEW n \in Nat,
         InFrame(m, k), Takes(n), k + n <= Size(sent[m])
  PROVE  /\ m \in 1..Len(sent)
         /\ \A i \in 1..n : Stream[i] = <<m, k + i>>
         /\ k + n < Size(sent[m]) => InFrame(m, k + n)'
         /\ k + n = Size(sent[m]) => AtFrame(m)'
<1>1. Stream[1] = <<m, k + 1>>
  <2>1. Len(Stream) # 0
    BY StreamTypes DEF Takes
  <2>2. Stream # <<>>
    BY <2>1, EmptySeq
  <2> QED
    BY <2>2 DEF InFrame
<1> USE DEF Takes
<1> DEFINE b == Stream[1]
           l == Len(Stream)
           z == Size(sent[m])
           r == Rest(sent, b)
<1>2. /\ sent \in Seq(Body) /\ Stream \in Seq(Byte) /\ l \in Nat
      /\ Len(sent) \in Nat
      /\ Frames(sent, Stream) /\ (open => Ended(sent, Stream))
  BY StreamTypes
<1>3. 1 \in 1..l
  BY <1>2 DEF l
<1>4. /\ InRange(sent, b)
      /\ \A d \in 0..r : 1 + d <= l => Stream[1 + d] = <<b[1], b[2] + d>>
      /\ 1 + r + 1 <= l => Stream[1 + r + 1] = <<b[1] + 1, 1>>
  BY <1>2, <1>3 DEF Frames
<1>5. b[1] = m /\ b[2] = k + 1
  BY <1>1
<1>6. /\ m \in 1..Len(sent) /\ m \in Nat /\ z \in Nat /\ r \in Nat
      /\ r = z - (k + 1)
  BY <1>2, <1>4, <1>5, RangeTypes DEF InRange, Rest
<1> HIDE DEF b, l, z, r
<1>7. /\ \A d \in 0..r : 1 + d <= l => Stream[1 + d] = <<m, (k + 1) + d>>
      /\ 1 + r + 1 <= l => Stream[1 + r + 1] = <<m + 1, 1>>
  BY <1>4, <1>5
<1>8. /\ n <= l /\ k + n <= z
      /\ Len(Stream') = l - n
  BY DEF l, z
<1>9. ASSUME NEW i \in 1..n
      PROVE  Stream[i] = <<m, k + i>>
  <2> DEFINE d == i - 1
  <2>1. d \in 0..r /\ 1 + d <= l /\ 1 + d = i /\ (k + 1) + d = k + i
    BY <1>2, <1>6, <1>8
  <2> HIDE DEF d
  <2> QED
    BY <1>7, <2>1
<1>10. Stream' \in Seq(Byte) /\ Len(Stream') \in Nat
  <2>1. socket' \in Seq(Byte) /\ wire' \in Seq(Byte)
    BY DEF TypeInv, TypeOK
  <2> QED
    BY <2>1, ConcatProperties, LenProperties DEF Stream
<1>11. Stream' # <<>> => 1 + n <= l /\ Stream'[1] = Stream[1 + n]
  <2> SUFFICES ASSUME Stream' # <<>>
               PROVE  1 + n <= l /\ Stream'[1] = Stream[1 + n]
    OBVIOUS
  <2>1. Len(Stream') # 0
    BY <1>10, EmptySeq
  <2>2. 1 \in 1..Len(Stream') /\ 1 + n <= l
    BY <1>2, <1>8, <1>10, <2>1
  <2> QED
    BY <2>2
<1>12. Stream' = <<>> => l = n
  <2> SUFFICES ASSUME Stream' = <<>>
               PROVE  l = n
    OBVIOUS
  <2>1. Len(Stream') = 0
    BY EmptySeq
  <2> QED
    BY <1>2, <1>8, <2>1
<1>13. Stream' = <<>> /\ open => <<m, k + n>> = <<Len(sent), Size(sent[Len(sent)])>>
  <2> SUFFICES ASSUME Stream' = <<>>, open
               PROVE  <<m, k + n>> = <<Len(sent), Size(sent[Len(sent)])>>
    OBVIOUS
  <2>1. l = n /\ n \in 1..n
    BY <1>12
  <2>2. Stream # <<>>
    <3>1. Len(Stream) # 0
      BY <1>8, <2>1 DEF l
    <3> QED
      BY <3>1, EmptySeq
  <2>3. Stream[l] = <<Len(sent), Size(sent[Len(sent)])>>
    BY <1>2, <2>2 DEF Ended, l
  <2> QED
    BY <1>9, <2>1, <2>3
<1>14. ASSUME k + n < z
       PROVE  InFrame(m, k + n)'
  <2>1. n \in 0..r /\ (k + 1) + n = k + n + 1
    BY <1>6, <1>14
  <2>2. Stream' # <<>> => Stream'[1] = <<m, k + n + 1>>
    BY <1>7, <1>11, <2>1
  <2>3. Stream' = <<>> => ~open
    <3> SUFFICES ASSUME Stream' = <<>>, open
                 PROVE  FALSE
      OBVIOUS
    <3>1. m = Len(sent) /\ k + n = Size(sent[Len(sent)])
      BY <1>13
    <3>2. k + n = z
      BY <3>1 DEF z
    <3> QED
      BY <1>6, <1>14, <3>2
  <2> QED
    BY <2>2, <2>3 DEF InFrame
<1>15. ASSUME k + n = z
       PROVE  AtFrame(m)'
  <2>1. 1 + r + 1 = 1 + n
    BY <1>6, <1>15
  <2>2. Stream' # <<>> => Stream'[1] = <<m + 1, 1>>
    BY <1>7, <1>11, <2>1
  <2>3. Stream' = <<>> /\ open => Len(sent) = m
    BY <1>13
  <2> QED
    BY <2>2, <2>3 DEF AtFrame
<1> QED
  BY <1>6, <1>9, <1>14, <1>15 DEF z

(* The first n messages, as far as they are sent, are plain.               *)
PlainSoFar(n) == \A j \in 1..Len(sent) : j <= n => Plain(sent[j])

(* The reader waits for the frame after those it has returned.             *)
WaitInv ==
  pc = "wait" /\ PlainSoFar(Len(received)) =>
    /\ Len(received) <= Len(sent)
    /\ AtFrame(Len(received))

(* It reads the content of the m-th message, and what it has read is the   *)
(* first part of it.                                                       *)
Reading(m) ==
  /\ m \in 1..Len(sent)
  /\ contentLength = Len(sent[m])
  /\ Plain(sent[m]) =>
       /\ \A i \in 1..Len(Message) : Message[i] = <<m, HeaderWidth(contentLength) + i>>
       /\ Missing > 0 => InFrame(m, HeaderWidth(contentLength) + Len(Message))
       /\ Missing = 0 => AtFrame(m)

ContentInv ==
  pc = "content" /\ PlainSoFar(Len(received)) => Reading(Len(received) + 1)

FailInv == pc = "failed" => ~PlainSoFar(Len(received))

(* What was returned, and when the last message may have been cut.         *)
ReceivedInv ==
  \A m \in 1..Len(received) :
    m <= Len(sent) /\ PlainUpTo(m) =>
      \/ received[m] = ContentOf(m)
      \/ /\ m = Len(received) /\ EndOfStream /\ pc = "wait"
         /\ IsPrefix(received[m], ContentOf(m))

FrameInv == TypeInv /\ WaitInv /\ ContentInv /\ FailInv /\ ReceivedInv

(* The number of messages returned.                                        *)
LEMMA CountTypes ==
  ASSUME TypeInv
  PROVE  Len(received) \in Nat /\ Len(sent) \in Nat
BY LenProperties DEF TypeInv, TypeOK

(* The bytes of a message.                                                 *)
LEMMA ContentFacts ==
  ASSUME TypeInv, NEW m \in 1..Len(sent)
  PROVE  /\ sent[m] \in Body /\ m \in Nat
         /\ ContentOf(m) \in Seq(Byte)
         /\ Len(ContentOf(m)) = Len(sent[m])
         /\ \A i \in 1..Len(sent[m]) :
              ContentOf(m)[i] = <<m, HeaderWidth(Len(sent[m])) + i>>
<1> DEFINE n == Len(sent[m])
           w == HeaderWidth(n)
           f == ContentOf(m)
<1>1. sent \in Seq(Body) /\ Len(sent) \in Nat
  BY StreamTypes
<1>2. sent[m] \in Body
  BY <1>1, ElementOfSeq
<1>3. n \in Nat /\ w \in Nat
  BY <1>2, SizeFacts
<1>4. f = [i \in 1..n |-> <<m, w + i>>]
  BY DEF ContentOf
<1> HIDE DEF n, w, f
<1>5. m \in Nat /\ m > 0
  BY <1>1
<1>6. \A i \in 1..n : <<m, w + i>> \in Byte
  BY <1>3, <1>5 DEF Byte
<1>7. f \in [1..n -> Byte]
  BY <1>4, <1>6
<1>8. f \in Seq(Byte)
  BY <1>3, <1>7, SeqDef
<1>9. Len(f) = n
  BY <1>3, <1>7, <1>8, LenProperties
<1> QED
  BY <1>2, <1>4, <1>5, <1>8, <1>9 DEF n, w, f

(* A sequence whose elements are the first ones of another.                *)
LEMMA PrefixByElements ==
  ASSUME NEW s \in Seq(Byte), NEW t \in Seq(Byte), Len(s) <= Len(t),
         \A i \in 1..Len(s) : s[i] = t[i]
  PROVE  IsPrefix(s, t)
<1> DEFINE n == Len(s)
           u == SubSeq(t, 1, n)
<1>1. n \in Nat /\ Len(t) \in Nat /\ n <= Len(t)
  BY LenProperties
<1>2. SubSeq(s, 1, n) = s
  BY SubSeqFull
<1>3. \A i \in 1..n : t[i] \in Byte
  <2>1. \A i \in 1..n : i \in 1..Len(t)
    BY <1>1
  <2> QED
    BY <2>1, ElementOfSeq
<1> HIDE DEF n
<1>4. /\ u \in Seq(Byte)
      /\ Len(u) = IF 1 <= n THEN n - 1 + 1 ELSE 0
      /\ \A i \in 1..(n - 1 + 1) : u[i] = t[1 + i - 1]
  BY <1>1, <1>3, SubSeqProperties
<1> HIDE DEF u
<1>5. Len(u) = n /\ \A i \in 1..n : u[i] = t[i]
  <2>1. n - 1 + 1 = n /\ \A i \in 1..n : 1 + i - 1 = i
    BY <1>1
  <2> QED
    BY <1>1, <1>4, <2>1
<1>6. u = s
  <2>1. \A i \in 1..Len(u) : u[i] = s[i]
    BY <1>5 DEF n
  <2> QED
    BY <1>4, <1>5, <2>1, SeqEqual DEF n
<1> QED
  BY <1>1, <1>2, <1>6 DEF IsPrefix, n, u

(* What is read and what is missing of a message.                          *)
LEMMA MessageLength ==
  ASSUME TypeInv, pc = "content"
  PROVE  /\ Message \in Seq(Byte) /\ Len(Message) \in Nat /\ Missing \in Nat
         /\ Len(Message) + Missing = contentLength
<1>1. /\ contentInHeader \in Seq(Byte) /\ contentbuf \in Seq(Byte)
      /\ contentLength \in Nat /\ Missing \in Nat
  BY DEF TypeInv, TypeOK
<1>2. /\ Message \in Seq(Byte)
      /\ Len(Message) = Len(contentInHeader) + Len(contentbuf)
  BY <1>1, ConcatProperties DEF Message
<1>3. Len(contentInHeader) \in Nat /\ Len(contentbuf) \in Nat
  BY <1>1, LenProperties
<1>4. Missing = contentLength - Len(contentInHeader) - Len(contentbuf)
  BY DEF Missing
<1> QED
  BY <1>1, <1>2, <1>3, <1>4

(* When all messages are plain, no more are returned than were sent.       *)
LEMMA NoMoreThanSent ==
  ASSUME FrameInv, PlainUpTo(Len(sent))
  PROVE  /\ pc # "failed" /\ Len(received) <= Len(sent)
         /\ pc = "content" => Len(received) + 1 <= Len(sent)
<1>1. Len(received) \in Nat /\ Len(sent) \in Nat
  BY CountTypes DEF FrameInv
<1>2. PlainSoFar(Len(received))
  BY DEF PlainUpTo, PlainSoFar
<1>3. pc \in {"wait", "content", "failed"}
  BY DEF FrameInv, TypeInv, TypeOK
<1>4. pc # "failed"
  BY <1>2 DEF FrameInv, FailInv
<1>5. pc = "wait" => Len(received) <= Len(sent)
  BY <1>2 DEF FrameInv, WaitInv
<1>6. pc = "content" => Len(received) + 1 <= Len(sent)
  <2> SUFFICES ASSUME pc = "content"
               PROVE  Len(received) + 1 <= Len(sent)
    OBVIOUS
  <2>1. Len(received) + 1 \in 1..Len(sent)
    BY <1>2 DEF FrameInv, ContentInv, Reading
  <2> QED
    BY <1>1, <2>1
<1> QED
  BY <1>1, <1>3, <1>4, <1>5, <1>6

(* The peer and the network keep the reader in step.                       *)
LEMMA PeerInStep ==
  ASSUME FrameInv, Write \/ Vanish \/ Arrive
  PROVE  FrameInv'
<1>1. /\ TypeInv /\ WaitInv /\ ContentInv /\ FailInv /\ ReceivedInv
  BY DEF FrameInv
<1>2. /\ TypeInv' /\ UNCHANGED readVars /\ ~EndOfStream
      /\ \A j \in 1..Len(sent) : sent'[j] = sent[j]
      /\ \/ sent' = sent
         \/ Len(sent') = Len(sent) + 1
  <2>1. CASE Write
    <3>1. ~EndOfStream
      BY <1>1, <2>1, WriteStep DEF EndOfStream
    <3> QED
      BY <1>1, <2>1, <3>1, WriteStep
  <2>2. CASE Vanish
    <3>1. ~EndOfStream
      BY <1>1, <2>2, VanishStep DEF EndOfStream
    <3> QED
      BY <1>1, <2>2, <3>1, VanishStep
  <2>3. CASE Arrive
    <3>1. ~EndOfStream
      BY <1>1, <2>3, ArriveStep DEF EndOfStream
    <3> QED
      BY <1>1, <2>3, <3>1, ArriveStep
  <2> QED
    BY <2>1, <2>2, <2>3
<1>3. UNCHANGED <<pc, contentLength, contentInHeader, contentbuf, received,
                  Missing, Message>>
  BY <1>2 DEF readVars, Missing, Message
<1>4. Len(sent) \in Nat /\ Len(sent') \in Nat /\ Len(received) \in Nat
      /\ Len(sent) <= Len(sent')
  BY <1>1, <1>2, CountTypes
<1>5. \A n \in Nat : PlainSoFar(n)' => PlainSoFar(n)
  <2>1. \A j \in 1..Len(sent) : j \in 1..Len(sent')
    BY <1>4
  <2> QED
    BY <1>2, <2>1 DEF PlainSoFar
<1>6. /\ \A m : AtFrame(m) => AtFrame(m)'
      /\ \A m, k : InFrame(m, k) => InFrame(m, k)'
  BY <1>1, PeerKeepsPlace
<1>7. WaitInv'
  <2> SUFFICES ASSUME pc' = "wait", PlainSoFar(Len(received))'
               PROVE  /\ Len(received') <= Len(sent')
                      /\ AtFrame(Len(received))'
    BY DEF WaitInv
  <2> PICK c \in Nat : c = Len(received)
    BY <1>4
  <2>1. PlainSoFar(c)
    <3>1. PlainSoFar(c)'
      BY <1>3
    <3> QED
      BY <1>5, <3>1
  <2>2. c <= Len(sent) /\ AtFrame(c)
    BY <1>1, <1>3, <2>1 DEF WaitInv
  <2>3. AtFrame(c)'
    BY <1>6, <2>2
  <2> QED
    BY <1>3, <1>4, <2>2, <2>3
<1>8. ContentInv'
  <2> SUFFICES ASSUME pc' = "content", PlainSoFar(Len(received))'
               PROVE  Reading(Len(received) + 1)'
    BY DEF ContentInv
  <2> PICK c \in Nat : c = Len(received)
    BY <1>4
  <2> PICK m \in Nat : m = c + 1
    OBVIOUS
  <2>1. PlainSoFar(c)
    <3>1. PlainSoFar(c)'
      BY <1>3
    <3> QED
      BY <1>5, <3>1
  <2>2. Reading(m)
    BY <1>1, <1>3, <2>1 DEF ContentInv
  <2>3. m \in 1..Len(sent) /\ m \in 1..Len(sent')
    BY <1>4, <2>2 DEF Reading
  <2>4. sent'[m] = sent[m]
    BY <1>2, <2>3
  <2>5. Reading(m)'
    <3> PICK k : k = HeaderWidth(contentLength) + Len(Message)
      OBVIOUS
    <3>1. InFrame(m, k) => InFrame(m, k)'
      BY <1>6
    <3>2. AtFrame(m) => AtFrame(m)'
      BY <1>6
    <3>3. /\ contentLength = Len(sent[m])
          /\ Plain(sent[m]) =>
               /\ \A i \in 1..Len(Message) :
                    Message[i] = <<m, HeaderWidth(contentLength) + i>>
               /\ Missing > 0 => InFrame(m, k)
               /\ Missing = 0 => AtFrame(m)
      BY <2>2 DEF Reading
    <3>4. Plain(sent[m])' = Plain(sent[m])
      BY <2>4 DEF Plain
    <3>5. k = HeaderWidth(contentLength') + Len(Message')
      BY <1>3
    <3>6. /\ contentLength' = Len(sent'[m])
          /\ Plain(sent[m])' =>
               /\ \A i \in 1..Len(Message') :
                    Message'[i] = <<m, HeaderWidth(contentLength') + i>>
               /\ Missing' > 0 => InFrame(m, k)'
               /\ Missing' = 0 => AtFrame(m)'
      BY <1>3, <2>4, <3>1, <3>2, <3>3, <3>4
    <3> QED
      BY <2>3, <3>5, <3>6 DEF Reading
  <2> QED
    BY <1>3, <2>5
<1>9. FailInv'
  <2> SUFFICES ASSUME pc' = "failed", PlainSoFar(Len(received))'
               PROVE  FALSE
    BY DEF FailInv
  <2> PICK c \in Nat : c = Len(received)
    BY <1>4
  <2>1. PlainSoFar(c)'
    BY <1>3
  <2>2. PlainSoFar(c)
    BY <1>5, <2>1
  <2> QED
    BY <1>1, <1>3, <2>2 DEF FailInv
<1>10. ReceivedInv'
  <2> SUFFICES ASSUME NEW m \in 1..Len(received), m <= Len(sent'), PlainUpTo(m)'
               PROVE  received[m] = ContentOf(m)'
    BY <1>3 DEF ReceivedInv
  <2>1. m \in Nat /\ m >= 1
    OBVIOUS
  <2>2. CASE m <= Len(sent)
    <3>1. m \in 1..Len(sent) /\ \A j \in 1..m : j \in 1..Len(sent)
      BY <1>4, <2>1, <2>2
    <3>2. PlainUpTo(m)
      BY <1>2, <3>1 DEF PlainUpTo
    <3>3. received[m] = ContentOf(m)
      BY <1>1, <1>2, <2>2, <3>2 DEF ReceivedInv
    <3>4. ContentOf(m)' = ContentOf(m)
      BY <1>2, <3>1 DEF ContentOf
    <3> QED
      BY <3>3, <3>4
  <2>3. CASE ~(m <= Len(sent))
    <3>1. \A j \in 1..Len(sent) : j \in 1..m
      BY <1>4, <2>1, <2>3
    <3>2. PlainUpTo(Len(sent))
      BY <1>2, <3>1 DEF PlainUpTo
    <3>3. Len(received) <= Len(sent)
      BY <3>2, NoMoreThanSent
    <3> QED
      BY <1>4, <2>1, <2>3, <3>3
  <2> QED
    BY <2>2, <2>3
<1> QED
  BY <1>2, <1>7, <1>8, <1>9, <1>10 DEF FrameInv

(* The header's buffer is filled: with the frame that is due.              *)
LEMMA HeaderInStep ==
  ASSUME FrameInv, ReadHeader
  PROVE  FrameInv'
<1> DEFINE w == HeaderWidth(Len(sent[Stream[1][1]]))
           bytes == SubSeq(socket, w + 1, BufferSize)
           B == BufferSize
<1>1. /\ TypeInv /\ WaitInv /\ ReceivedInv
  BY DEF FrameInv
<1>2. /\ socket # <<>> /\ Len(Stream) >= B
      /\ InRange(sent, Stream[1])
      /\ bytes \in Seq(Byte) /\ Len(bytes) = B - w
      /\ \A i \in 1..(B - w) : bytes[i] = Stream[w + i]
      /\ TypeInv'
      /\ Len(Stream') = Len(Stream) - B
      /\ \A i \in 1..Len(Stream') : Stream'[i] = Stream[i + B]
      /\ UNCHANGED <<sent, wire, open, received>>
      /\ contentbuf' = <<>>
      /\ \/ /\ Stream[1][2] = 1 /\ pc' = "content"
            /\ contentLength' = Len(sent[Stream[1][1]])
            /\ contentInHeader' = Token(bytes)
         \/ Stream[1][2] # 1 /\ pc' = "failed"
  BY <1>1, HeaderStep
<1>3. pc = "wait" /\ ~EndOfStream
  BY <1>2 DEF ReadHeader, EndOfStream
<1>4. /\ Len(received) \in Nat /\ Len(sent) \in Nat /\ Len(Stream) \in Nat
      /\ B \in Nat /\ B > 0 /\ sent \in Seq(Body)
  BY <1>1, CountTypes, StreamTypes, FrameAssumption
<1> PICK c \in Nat : c = Len(received)
  BY <1>4
<1> PICK m \in Nat : m = c + 1
  OBVIOUS
<1>5. ASSUME PlainSoFar(c)
      PROVE  Stream[1] = <<m, 1>>
  <2>1. Len(Stream) # 0
    BY <1>2, <1>4
  <2>2. Stream # <<>>
    BY <2>1, EmptySeq
  <2>3. AtFrame(c)
    BY <1>1, <1>3, <1>5 DEF WaitInv
  <2> QED
    BY <2>2, <2>3 DEF AtFrame
<1> HIDE DEF w, bytes, B
<1>6. WaitInv'
  BY <1>2 DEF WaitInv
<1>7. FailInv'
  <2> SUFFICES ASSUME pc' = "failed", PlainSoFar(Len(received))'
               PROVE  FALSE
    BY DEF FailInv
  <2>1. PlainSoFar(c)
    BY <1>2 DEF PlainSoFar
  <2>2. Stream[1][2] = 1
    BY <1>5, <2>1
  <2> QED
    BY <1>2, <2>2
<1>8. ReceivedInv'
  <2> SUFFICES ASSUME NEW j \in 1..Len(received), j <= Len(sent), PlainUpTo(j)'
               PROVE  received[j] = ContentOf(j)'
    BY <1>2 DEF ReceivedInv
  <2>1. PlainUpTo(j) /\ ContentOf(j)' = ContentOf(j)
    BY <1>2 DEF PlainUpTo, ContentOf
  <2> QED
    BY <1>1, <1>3, <2>1 DEF ReceivedInv
<1>9. ContentInv'
  <2> SUFFICES ASSUME pc' = "content", PlainSoFar(Len(received))'
               PROVE  Reading(Len(received) + 1)'
    BY DEF ContentInv
  <2>1. PlainSoFar(c)
    BY <1>2 DEF PlainSoFar
  <2>2. Stream[1] = <<m, 1>>
    BY <1>5, <2>1
  <2>3. m \in 1..Len(sent)
    BY <1>2, <2>2 DEF InRange
  <2>4. w = HeaderWidth(Len(sent[m])) /\ contentLength' = Len(sent[m])
        /\ contentInHeader' = Token(bytes)
    BY <1>2, <2>2 DEF w
  <2>5. sent[m] \in Body
    BY <1>4, <2>3, ElementOfSeq
  <2>6. /\ Len(sent[m]) \in Nat /\ w \in Nat /\ 1 <= w /\ w <= B
        /\ Len(sent[m]) >= B - w
        /\ Size(sent[m]) = w + Len(sent[m]) /\ Size(sent[m]) \in Nat
        /\ B <= Size(sent[m])
    BY <2>4, <2>5, SizeFacts DEF B
  <2>7. /\ \A i \in 1..B : Stream[i] = <<m, i>>
        /\ B < Size(sent[m]) => InFrame(m, B)'
        /\ B = Size(sent[m]) => AtFrame(m)'
    <3> PICK k \in Nat : k = 0
      OBVIOUS
    <3> PICK n \in Nat : n = B
      BY <1>4
    <3>1. k + n = B /\ \A i \in 1..B : k + i = i
      BY <1>4
    <3>2. Takes(n)
      BY <1>2, <1>4 DEF Takes
    <3>3. InFrame(m, k)
      <4>1. Len(Stream) # 0
        BY <1>2, <1>4
      <4>2. Stream # <<>>
        BY <4>1, EmptySeq
      <4> QED
        BY <2>2, <4>2 DEF InFrame
    <3>4. /\ \A i \in 1..n : Stream[i] = <<m, k + i>>
          /\ k + n < Size(sent[m]) => InFrame(m, k + n)'
          /\ k + n = Size(sent[m]) => AtFrame(m)'
      <4>1. TypeInv /\ TypeInv' /\ k + n <= Size(sent[m])
        BY <1>1, <1>2, <2>6, <3>1
      <4> QED
        BY <3>2, <3>3, <4>1, TakesPlace
    <3> QED
      BY <3>1, <3>4 DEF B
  <2>8. ASSUME Plain(sent[m])
        PROVE  /\ Message' = bytes
               /\ \A i \in 1..Len(bytes) : bytes[i] = <<m, w + i>>
               /\ w + Len(bytes) = B
               /\ Missing' = Size(sent[m]) - B
    <3>1. ASSUME NEW i \in 1..(B - w)
          PROVE  bytes[i] = <<m, w + i>> /\ CharOf(bytes[i]) # "blank"
      <4>1. w + i \in 1..B /\ (w + i) - w = i
        BY <1>4, <2>6
      <4>2. bytes[i] = <<m, w + i>>
        BY <1>2, <2>7, <4>1
      <4>3. CharOf(bytes[i]) = sent[m][i]
        BY <2>4, <4>1, <4>2 DEF CharOf
      <4>4. sent[m][i] # "blank"
        BY <2>4, <2>8 DEF Plain, B
      <4> QED
        BY <4>2, <4>3, <4>4
    <3>2. Token(bytes) = bytes
      BY <1>2, <3>1, TokenFacts
    <3>3. Message' = bytes
      <4>1. Message' = bytes \o <<>>
        BY <1>2, <2>4, <3>2 DEF Message
      <4> QED
        BY <1>2, <4>1, ConcatEmptySeq
    <3>4. Missing' = Len(sent[m]) - (B - w) - 0
      <4>1. Len(contentbuf') = 0
        BY <1>2, EmptySeq
      <4>2. Len(contentInHeader') = B - w
        BY <1>2, <2>4, <3>2
      <4>3. Missing' = contentLength' - Len(contentInHeader') - Len(contentbuf')
        BY DEF Missing
      <4> QED
        BY <2>4, <4>1, <4>2, <4>3
    <3>5. w + (B - w) = B /\ Len(sent[m]) - (B - w) - 0 = Size(sent[m]) - B
      BY <1>4, <2>6
    <3> QED
      BY <1>2, <3>1, <3>3, <3>4, <3>5
  <2>9. Reading(m)'
    <3>1. m \in 1..Len(sent') /\ contentLength' = Len(sent'[m])
      BY <1>2, <2>3, <2>4
    <3>2. Plain(sent[m])' = Plain(sent[m])
      BY <1>2 DEF Plain
    <3>3. ASSUME Plain(sent[m])
          PROVE  /\ \A i \in 1..Len(Message') :
                      Message'[i] = <<m, HeaderWidth(contentLength') + i>>
                 /\ Missing' > 0 => InFrame(m, B)'
                 /\ Missing' = 0 => AtFrame(m)'
                 /\ HeaderWidth(contentLength') + Len(Message') = B
      <4>1. Missing' > 0 => B < Size(sent[m])
        BY <1>4, <2>6, <2>8, <3>3
      <4>2. Missing' = 0 => B = Size(sent[m])
        BY <1>4, <2>6, <2>8, <3>3
      <4> QED
        BY <2>4, <2>7, <2>8, <3>3, <4>1, <4>2
    <3> QED
      BY <3>1, <3>2, <3>3 DEF Reading
  <2> QED
    BY <1>2, <2>9
<1> QED
  BY <1>2, <1>6, <1>7, <1>8, <1>9 DEF FrameInv

(* A part of the content is read: of the message that is being read.       *)
LEMMA ContentInStep ==
  ASSUME FrameInv, ReadContent
  PROVE  FrameInv'
<1> DEFINE T == Transferred
<1>1. TypeInv /\ ContentInv /\ ReceivedInv
  BY DEF FrameInv
<1>2. /\ TypeInv' /\ pc = "content" /\ socket # <<>>
      /\ UNCHANGED <<sent, wire, open, pc, contentLength, received>>
      /\ T \in Nat /\ T > 0 /\ T <= Missing
      /\ Missing \in Nat /\ Missing > 0
      /\ Missing' = Missing - T
      /\ Len(Stream') = Len(Stream) - T
      /\ T <= Len(Stream)
      /\ \A i \in 1..Len(Stream') : Stream'[i] = Stream[i + T]
      /\ Len(Message') = Len(Message) + T
      /\ \A i \in 1..Len(Message) : Message'[i] = Message[i]
      /\ \A i \in 1..T : Message'[Len(Message) + i] = Stream[i]
  BY <1>1, ContentStep DEF ReadContent
<1>3. ~EndOfStream
  BY <1>2 DEF EndOfStream
<1>4. /\ Len(received) \in Nat /\ Len(Stream) \in Nat /\ sent \in Seq(Body)
      /\ Len(sent) \in Nat
  BY <1>1, CountTypes, StreamTypes
<1>5. Len(Message) \in Nat /\ Len(Message) + Missing = contentLength
  BY <1>1, <1>2, MessageLength
<1> HIDE DEF T
<1> PICK n \in Nat : n = T
  BY <1>2
<1> PICK c \in Nat : c = Len(received)
  BY <1>4
<1> PICK m \in Nat : m = c + 1
  OBVIOUS
<1>6. WaitInv' /\ FailInv'
  BY <1>2 DEF WaitInv, FailInv
<1>7. ReceivedInv'
  <2> SUFFICES ASSUME NEW j \in 1..Len(received), j <= Len(sent), PlainUpTo(j)'
               PROVE  received[j] = ContentOf(j)'
    BY <1>2 DEF ReceivedInv
  <2>1. PlainUpTo(j) /\ ContentOf(j)' = ContentOf(j)
    BY <1>2 DEF PlainUpTo, ContentOf
  <2> QED
    BY <1>1, <1>3, <2>1 DEF ReceivedInv
<1>8. ContentInv'
  <2> SUFFICES ASSUME PlainSoFar(Len(received))'
               PROVE  Reading(Len(received) + 1)'
    BY DEF ContentInv
  <2>1. PlainSoFar(c)
    BY <1>2 DEF PlainSoFar
  <2>2. Reading(m)
    BY <1>1, <1>2, <2>1 DEF ContentInv
  <2>3. m \in 1..Len(sent) /\ contentLength = Len(sent[m])
    BY <2>2 DEF Reading
  <2>4. sent[m] \in Body
    BY <1>4, <2>3, ElementOfSeq
  <2> DEFINE w == HeaderWidth(contentLength)
             l == Len(Message)
             M == Missing
             z == Size(sent[m])
  <2>5. w \in Nat /\ l \in Nat /\ M \in Nat /\ z \in Nat /\ z = w + Len(sent[m])
    BY <1>2, <1>5, <2>3, <2>4, SizeFacts
  <2>6. n <= M /\ Missing' = M - n /\ l + M = Len(sent[m])
    BY <1>2, <1>5, <2>3
  <2>7. Plain(sent[m]) =>
          /\ \A i \in 1..l : Message[i] = <<m, w + i>>
          /\ InFrame(m, w + l)
    BY <1>2, <2>2 DEF Reading
  <2>8. /\ Len(Message') = l + n
        /\ \A i \in 1..l : Message'[i] = Message[i]
        /\ \A i \in 1..n : Message'[l + i] = Stream[i]
    BY <1>2
  <2> HIDE DEF w, l, M, z
  <2>9. z = w + (l + M) /\ w + l \in Nat
    BY <2>5, <2>6
  <2> PICK k \in Nat : k = w + l
    BY <2>9
  <2>10. k + n <= z /\ k + n = w + (l + n) /\ Missing' = z - (k + n)
    BY <2>5, <2>6, <2>9
  <2>11. Missing' > 0 => k + n < z
    BY <2>5, <2>10
  <2>12. Missing' = 0 => k + n = z
    BY <2>5, <2>10
  <2>13. ASSUME Plain(sent[m])
         PROVE  /\ \A i \in 1..(l + n) : Message'[i] = <<m, w + i>>
                /\ k + n < z => InFrame(m, k + n)'
                /\ k + n = z => AtFrame(m)'
    <3>1. InFrame(m, k)
      BY <2>7, <2>13
    <3>2. Takes(n) /\ TypeInv /\ TypeInv'
      BY <1>1, <1>2 DEF Takes
    <3>3. /\ \A i \in 1..n : Stream[i] = <<m, k + i>>
          /\ k + n < z => InFrame(m, k + n)'
          /\ k + n = z => AtFrame(m)'
      <4>1. k + n <= Size(sent[m])
        BY <2>10 DEF z
      <4>2. /\ \A i \in 1..n : Stream[i] = <<m, k + i>>
            /\ k + n < Size(sent[m]) => InFrame(m, k + n)'
            /\ k + n = Size(sent[m]) => AtFrame(m)'
        BY <3>1, <3>2, <4>1, TakesPlace
      <4> QED
        BY <4>2 DEF z
    <3>4. ASSUME NEW i \in 1..(l + n)
          PROVE  Message'[i] = <<m, w + i>>
      <4>1. CASE i <= l
        <5>1. i \in 1..l
          BY <2>5, <4>1
        <5> QED
          BY <2>7, <2>8, <2>13, <5>1
      <4>2. CASE ~(i <= l)
        <5>1. i - l \in 1..n /\ l + (i - l) = i /\ k + (i - l) = w + i
          BY <2>5, <4>2
        <5> QED
          BY <2>8, <3>3, <5>1
      <4> QED
        BY <4>1, <4>2
    <3> QED
      BY <3>3, <3>4
  <2>14. Reading(m)'
    <3>1. Plain(sent[m])' = Plain(sent[m])
      BY <1>2 DEF Plain
    <3>2. w = HeaderWidth(contentLength')
      BY <1>2 DEF w
    <3>3. k + n = HeaderWidth(contentLength') + Len(Message')
      BY <2>8, <2>10, <3>2
    <3>4. m \in 1..Len(sent') /\ contentLength' = Len(sent'[m])
      BY <1>2, <2>3
    <3>5. ASSUME Plain(sent[m])
          PROVE  /\ \A i \in 1..Len(Message') :
                      Message'[i] = <<m, HeaderWidth(contentLength') + i>>
                 /\ Missing' > 0 => InFrame(m, k + n)'
                 /\ Missing' = 0 => AtFrame(m)'
      BY <2>8, <2>11, <2>12, <2>13, <3>2, <3>5
    <3> QED
      BY <3>1, <3>3, <3>4, <3>5 DEF Reading
  <2> QED
    BY <1>2, <2>14
<1> QED
  BY <1>2, <1>6, <1>7, <1>8 DEF FrameInv

(* A message is returned: the next one, or the part of it that came.       *)
LEMMA ReturnInStep ==
  ASSUME FrameInv, ReturnMessage
  PROVE  FrameInv'
<1>1. TypeInv /\ ContentInv /\ ReceivedInv
  BY DEF FrameInv
<1>2. /\ TypeInv' /\ pc = "content" /\ pc' = "wait"
      /\ UNCHANGED <<sent, wire, socket, open, Stream>>
      /\ Missing = 0 \/ EndOfStream
      /\ Len(received') = Len(received) + 1
      /\ \A m \in 1..Len(received) : received'[m] = received[m]
      /\ received'[Len(received) + 1] = Message
  BY <1>1, ReturnStep
<1>3. /\ Message \in Seq(Byte) /\ Len(Message) \in Nat /\ Missing \in Nat
      /\ Len(Message) + Missing = contentLength
  BY <1>1, <1>2, MessageLength
<1>4. Len(received) \in Nat /\ Len(sent) \in Nat
  BY <1>1, CountTypes
<1> PICK c \in Nat : c = Len(received)
  BY <1>4
<1> PICK m \in Nat : m = c + 1
  OBVIOUS
<1>5. ASSUME PlainSoFar(m)
      PROVE  /\ m \in 1..Len(sent)
             /\ contentLength = Len(sent[m])
             /\ \A i \in 1..Len(Message) :
                  Message[i] = <<m, HeaderWidth(Len(sent[m])) + i>>
             /\ Missing = 0 => AtFrame(m)
  <2>1. PlainSoFar(c)
    <3>1. \A j \in 1..Len(sent) : j <= c => j <= m
      OBVIOUS
    <3> QED
      BY <1>5, <3>1 DEF PlainSoFar
  <2>2. Reading(m)
    BY <1>1, <1>2, <2>1 DEF ContentInv
  <2>3. m \in 1..Len(sent) /\ m <= m
    BY <2>2 DEF Reading
  <2>4. Plain(sent[m])
    BY <1>5, <2>3 DEF PlainSoFar
  <2> QED
    BY <2>2, <2>4 DEF Reading
<1>6. ContentInv' /\ FailInv'
  BY <1>2 DEF ContentInv, FailInv
<1>7. WaitInv'
  <2> SUFFICES ASSUME PlainSoFar(Len(received))'
               PROVE  Len(received') <= Len(sent) /\ AtFrame(Len(received))'
    BY <1>2 DEF WaitInv
  <2>1. PlainSoFar(m)
    BY <1>2 DEF PlainSoFar
  <2>2. m \in 1..Len(sent) /\ (Missing = 0 => AtFrame(m))
    BY <1>5, <2>1
  <2>3. AtFrame(m)
    <3>1. CASE Missing = 0
      BY <2>2, <3>1
    <3>2. CASE EndOfStream
      <4>1. Stream = <<>> /\ ~open
        BY <3>2, ConcatEmptySeq, EmptySeq DEF EndOfStream, Stream
      <4> QED
        BY <4>1 DEF AtFrame
    <3> QED
      BY <1>2, <3>1, <3>2
  <2>4. AtFrame(m)'
    BY <1>2, <2>3 DEF AtFrame
  <2> QED
    BY <1>2, <2>2, <2>4
<1>8. ReceivedInv'
  <2> SUFFICES ASSUME NEW j \in 1..Len(received'), j <= Len(sent), PlainUpTo(j)
               PROVE  \/ received'[j] = ContentOf(j)
                      \/ /\ j = Len(received') /\ EndOfStream
                         /\ IsPrefix(received'[j], ContentOf(j))
    <3>1. EndOfStream' = EndOfStream
      BY <1>2 DEF EndOfStream
    <3>2. \A j : PlainUpTo(j)' = PlainUpTo(j) /\ ContentOf(j)' = ContentOf(j)
      BY <1>2 DEF PlainUpTo, ContentOf
    <3> QED
      BY <1>2, <3>1, <3>2 DEF ReceivedInv
  <2>1. j \in Nat /\ 1 <= j /\ j <= c + 1
    BY <1>2, <1>4
  <2>2. CASE j <= c
    <3>1. j \in 1..Len(received)
      BY <1>4, <2>1, <2>2
    <3>2. received[j] = ContentOf(j)
      BY <1>1, <1>2, <3>1 DEF ReceivedInv
    <3> QED
      BY <1>2, <3>1, <3>2
  <2>3. CASE ~(j <= c)
    <3>1. j = m
      BY <2>1, <2>3
    <3>2. PlainSoFar(m)
      <4>1. \A i \in 1..Len(sent) : i <= m => i \in 1..m
        BY <1>4
      <4> QED
        BY <3>1, <4>1 DEF PlainUpTo, PlainSoFar
    <3>3. /\ m \in 1..Len(sent)
          /\ contentLength = Len(sent[m])
          /\ \A i \in 1..Len(Message) :
               Message[i] = <<m, HeaderWidth(Len(sent[m])) + i>>
      BY <1>5, <3>2
    <3>4. /\ ContentOf(m) \in Seq(Byte)
          /\ Len(ContentOf(m)) = contentLength
          /\ \A i \in 1..contentLength :
               ContentOf(m)[i] = <<m, HeaderWidth(Len(sent[m])) + i>>
      BY <1>1, <3>3, ContentFacts
    <3>5. /\ Len(Message) <= contentLength
          /\ \A i \in 1..Len(Message) : i \in 1..contentLength
      BY <1>3
    <3>6. \A i \in 1..Len(Message) : Message[i] = ContentOf(m)[i]
      BY <3>3, <3>4, <3>5
    <3>7. received'[j] = Message
      BY <1>2, <3>1
    <3>8. CASE Missing = 0
      <4>1. Len(Message) = Len(ContentOf(m))
        BY <1>3, <3>4, <3>8
      <4>2. Message = ContentOf(m)
        BY <1>3, <3>4, <3>6, <4>1, SeqEqual
      <4> QED
        BY <3>1, <3>7, <4>2
    <3>9. CASE EndOfStream
      <4>1. IsPrefix(Message, ContentOf(m))
        BY <1>3, <3>4, <3>5, <3>6, PrefixByElements
      <4> QED
        BY <1>2, <3>1, <3>7, <3>9, <4>1
    <3> QED
      BY <1>2, <3>8, <3>9
  <2> QED
    BY <2>2, <2>3
<1> QED
  BY <1>2, <1>6, <1>7, <1>8 DEF FrameInv

(* At first the reader waits for the first frame.                          *)
LEMMA InitFrameInv == Init => FrameInv
<1> SUFFICES ASSUME Init
             PROVE  FrameInv
  OBVIOUS
<1>1. TypeInv /\ Stream = <<>>
  BY InitTypeInv
<1>2. Len(sent) = 0 /\ Len(received) = 0 /\ pc = "wait" /\ open
  BY EmptySeq DEF Init
<1>3. AtFrame(0)
  BY <1>1, <1>2 DEF AtFrame
<1> QED
  BY <1>1, <1>2, <1>3
     DEF FrameInv, WaitInv, ContentInv, FailInv, ReceivedInv

(* Every step keeps it so.                                                 *)
LEMMA NextFrameInv == FrameInv /\ [Next]_vars => FrameInv'
<1> SUFFICES ASSUME FrameInv, [Next]_vars
             PROVE  FrameInv'
  OBVIOUS
<1>1. CASE UNCHANGED vars
  <2>1. TypeInv'
    BY <1>1, NextTypeInv DEF FrameInv
  <2>2. UNCHANGED <<sent, wire, socket, open, pc, contentLength,
                    contentInHeader, contentbuf, received>>
    BY <1>1 DEF vars, peerVars, readVars
  <2>3. UNCHANGED <<Stream, Message, Missing, EndOfStream>>
    BY <2>2 DEF Stream, Message, Missing, EndOfStream
  <2>4. WaitInv' /\ FailInv'
    BY <2>2, <2>3 DEF FrameInv, WaitInv, FailInv, PlainSoFar, AtFrame
  <2>5. ContentInv'
    BY <2>2, <2>3
       DEF FrameInv, ContentInv, PlainSoFar, Reading, AtFrame, InFrame, Plain
  <2>6. ReceivedInv'
    BY <2>2, <2>3 DEF FrameInv, ReceivedInv, PlainUpTo, ContentOf
  <2> QED
    BY <2>1, <2>4, <2>5, <2>6 DEF FrameInv
<1>2. CASE Next
  BY <1>2, PeerInStep, HeaderInStep, ContentInStep, ReturnInStep DEF Next, Reader
<1> QED
  BY <1>1, <1>2

(* The invariant.                                                          *)
LEMMA FrameInvInvariant == Spec => []FrameInv
BY InitFrameInv, NextFrameInv, PTL DEF Spec

(* What the reader has returned are the messages that were sent, in their  *)
(* order and whole, up to the first that is not plain, however the stream  *)
(* was cut: what read_until takes past the header is not lost, and no more *)
(* is taken than belongs to the message (ioHandler.cpp:67-100).            *)
THEOREM StaysInStep == Spec => []FramesInStep
<1>1. FrameInv => FramesInStep
  <2> SUFFICES ASSUME FrameInv
               PROVE  FramesInStep
    OBVIOUS
  <2>1. PlainUpTo(Len(sent)) => pc # "failed" /\ Len(received) <= Len(sent)
    BY NoMoreThanSent
  <2> QED
    BY <2>1 DEF FrameInv, ReceivedInv, FramesInStep
<1> QED
  BY <1>1, FrameInvInvariant, PTL

-----------------------------------------------------------------------------
(* The channel of whole messages.                                          *)

(* The text of the bytes of a message is the message.                      *)
LEMMA TextOfContent ==
  ASSUME TypeInv, NEW m \in 1..Len(sent)
  PROVE  TextOf(ContentOf(m)) = sent[m]
<1> DEFINE n == Len(sent[m])
           w == HeaderWidth(n)
           f == ContentOf(m)
           body == sent[m]
<1>1. /\ body \in Body /\ f \in Seq(Byte) /\ Len(f) = n
      /\ \A i \in 1..n : f[i] = <<m, w + i>>
  BY ContentFacts
<1>2. n \in Nat /\ w \in Nat
  BY <1>1, SizeFacts
<1>3. body = [i \in 1..n |-> body[i]]
  <2>1. body \in Seq({"char", "blank"})
    BY <1>1, FrameAssumption
  <2>2. body \in [1..n -> {"char", "blank"}]
    BY <2>1, LenProperties
  <2> QED
    BY <2>2
<1>4. ASSUME NEW i \in 1..n
      PROVE  (IF Header(f[i]) THEN "header" ELSE CharOf(f[i])) = body[i]
  <2>1. /\ Header(f[i]) <=> w + i <= w
        /\ CharOf(f[i]) = body[(w + i) - w]
    BY <1>1 DEF Header, CharOf
  <2> HIDE DEF w, n
  <2>2. ~(w + i <= w) /\ (w + i) - w = i
    BY <1>2
  <2> QED
    BY <2>1, <2>2
<1>5. TextOf(f) = [i \in 1..n |-> IF Header(f[i]) THEN "header" ELSE CharOf(f[i])]
  BY <1>1 DEF TextOf
<1> HIDE DEF n, w, f, body
<1> QED
  BY <1>3, <1>4, <1>5 DEF f, body

(* The plain messages are the first ones.                                  *)
LEMMA PlainInterval ==
  ASSUME TypeInv
  PROVE  LET p == Cardinality(PlainSent)
         IN p \in Nat /\ p <= Len(sent) /\ PlainSent = 1..p
<1> DEFINE l == Len(sent)
           T == {j \in 1..l : ~Plain(sent[j])}
<1>1. l \in Nat
  BY CountTypes
<1>2. \E p \in Nat : p <= l /\ PlainSent = 1..p
  <2>1. PlainSent = {m \in 1..l : \A j \in 1..m : j \notin T}
    <3>1. \A m \in 1..l : \A j \in 1..m : j \in 1..l
      BY <1>1
    <3> QED
      BY <3>1 DEF PlainSent, PlainUpTo
  <2>2. CASE T = {}
    <3>1. PlainSent = 1..l
      BY <2>1, <2>2
    <3> QED
      BY <1>1, <3>1
  <2>3. CASE T # {}
    <3>1. T \in SUBSET Nat /\ T \in SUBSET (1..l)
      BY <1>1
    <3> HIDE DEF T
    <3>2. PICK x \in T : \A y \in T : x <= y
      BY <2>3, <3>1, LeastNumber
    <3>3. x \in Nat /\ 1 <= x /\ x <= l
      BY <1>1, <3>1
    <3>4. \A m \in 1..l : (\A j \in 1..m : j \notin T) <=> m <= x - 1
      <4> SUFFICES ASSUME NEW m \in 1..l
                   PROVE  (\A j \in 1..m : j \notin T) <=> m <= x - 1
        OBVIOUS
      <4>1. m \in Nat
        BY <1>1
      <4>2. ~(m <= x - 1) => x \in 1..m
        BY <3>3, <4>1
      <4>3. m <= x - 1 => \A j \in 1..m : ~(x <= j)
        BY <3>3, <4>1
      <4> QED
        BY <3>2, <4>2, <4>3
    <3>5. PlainSent = 1..(x - 1)
      <4>1. \A m : m \in 1..l /\ m <= x - 1 <=> m \in 1..(x - 1)
        BY <1>1, <3>3
      <4> QED
        BY <2>1, <3>4, <4>1
    <3>6. x - 1 \in Nat /\ x - 1 <= l
      BY <1>1, <3>3
    <3> QED
      BY <3>5, <3>6
  <2> QED
    BY <2>2, <2>3
<1>3. PICK p \in Nat : p <= l /\ PlainSent = 1..p
  BY <1>2
<1>4. Cardinality(1..p) = p
  <2>1. 1 \in Int /\ p \in Int /\ ~(1 > p) => p - 1 + 1 = p
    OBVIOUS
  <2> QED
    BY FS_Interval
<1> QED
  BY <1>3, <1>4

(* The whole ones are those received as they were sent.                    *)
LEMMA WholeAre ==
  ASSUME FrameInv
  PROVE  \A m : m \in Whole <=>
                  /\ m \in PlainSent /\ m \in 1..Len(received)
                  /\ received[m] = ContentOf(m)
<1>1. /\ TypeInv /\ ReceivedInv /\ received \in Seq(Seq(Byte))
  BY DEF FrameInv, TypeInv, TypeOK
<1>2. DOMAIN received = 1..Len(received)
  BY <1>1, LenProperties
<1> SUFFICES ASSUME NEW m \in PlainSent, m \in 1..Len(received)
             PROVE  ~(EndOfStream /\ Len(received[m]) < Len(sent[m])) <=>
                      received[m] = ContentOf(m)
  BY <1>2 DEF Whole
<1>3. m \in 1..Len(sent) /\ PlainUpTo(m)
  BY DEF PlainSent
<1> DEFINE r == received[m]
           f == ContentOf(m)
           n == Len(sent[m])
<1>4. /\ f \in Seq(Byte) /\ Len(f) = n /\ n \in Nat
  <2>1. f \in Seq(Byte) /\ Len(f) = n
    BY <1>1, <1>3, ContentFacts
  <2> HIDE DEF n
  <2>2. Len(f) \in Nat
    BY <2>1, LenProperties
  <2> QED
    BY <2>1, <2>2
<1>5. r \in Seq(Byte)
  BY <1>1, ElementOfSeq
<1>6. Len(r) \in Nat
  BY <1>5, LenProperties
<1>7. r = f \/ (EndOfStream /\ IsPrefix(r, f))
  <2>1. m <= Len(sent)
    BY <1>1, <1>3, CountTypes
  <2> QED
    BY <1>1, <1>3, <2>1 DEF ReceivedInv
<1> HIDE DEF r, f, n
<1>8. ASSUME IsPrefix(r, f), ~(Len(r) < n)
      PROVE  r = f
  <2>1. Len(r) = n
    BY <1>4, <1>6, <1>8 DEF IsPrefix
  <2>2. SubSeq(r, 1, Len(r)) = SubSeq(f, 1, Len(f))
    BY <1>4, <1>8, <2>1 DEF IsPrefix
  <2>3. SubSeq(r, 1, Len(r)) = r /\ SubSeq(f, 1, Len(f)) = f
    BY <1>4, <1>5, SubSeqFull
  <2> QED
    BY <2>2, <2>3
<1>9. r = f => ~(Len(r) < n)
  BY <1>4
<1> QED
  BY <1>7, <1>8, <1>9 DEF r, f, n

(* They are the first ones, too.                                           *)
LEMMA WholeInterval ==
  ASSUME FrameInv
  PROVE  LET w == Cardinality(Whole)
         IN /\ w \in Nat /\ w <= Len(received) /\ w <= Cardinality(PlainSent)
            /\ Whole = 1..w
<1> DEFINE p == Cardinality(PlainSent)
           c == Len(received)
<1>1. TypeInv /\ ReceivedInv
  BY DEF FrameInv
<1>2. p \in Nat /\ p <= Len(sent) /\ PlainSent = 1..p /\ c \in Nat /\ Len(sent) \in Nat
  BY <1>1, PlainInterval, CountTypes
<1> HIDE DEF p
<1>3. ASSUME NEW m \in 1..p, m < c
      PROVE  received[m] = ContentOf(m)
  <2>1. m \in 1..c /\ m <= Len(sent) /\ m # c
    BY <1>2, <1>3
  <2>2. PlainUpTo(m)
    BY <1>2 DEF PlainSent
  <2> QED
    BY <1>1, <2>1, <2>2 DEF ReceivedInv
<1> HIDE DEF c
<1> DEFINE Same(m) == received[m] = ContentOf(m)
<1>4. \A m : m \in Whole <=> m \in 1..p /\ m \in 1..c /\ Same(m)
  BY <1>2, WholeAre DEF c
<1>5. \A m \in 1..p : m < c => Same(m)
  BY <1>3
<1> HIDE DEF Same
<1>6. \E w \in Nat : w <= c /\ w <= p /\ Whole = 1..w
  <2>1. PICK q \in Nat : q <= p /\ q <= c /\ (q = p \/ q = c)
    <3>1. CASE p <= c
      BY <1>2, <3>1
    <3>2. CASE ~(p <= c)
      BY <1>2, <3>2
    <3> QED
      BY <3>1, <3>2
  <2>2. \A m : m \in 1..p /\ m \in 1..c <=> m \in 1..q
    BY <1>2, <2>1
  <2>3. \A m \in 1..q : m # q => Same(m)
    <3>1. \A m \in 1..q : m # q => m \in 1..p /\ m < c
      BY <1>2, <2>1
    <3> QED
      BY <1>5, <3>1
  <2>4. CASE q = 0 \/ Same(q)
    <3>1. \A m \in 1..q : Same(m)
      <4>1. q = 0 => 1..q = {}
        OBVIOUS
      <4> QED
        BY <2>3, <2>4, <4>1
    <3>2. Whole = 1..q
      BY <1>4, <2>2, <3>1
    <3> QED
      BY <2>1, <3>2
  <2>5. CASE ~(q = 0 \/ Same(q))
    <3>1. q - 1 \in Nat /\ q - 1 <= p /\ q - 1 <= c
      BY <1>2, <2>1, <2>5
    <3>2. \A m : m \in 1..q /\ m # q <=> m \in 1..(q - 1)
      BY <2>1, <2>5
    <3>3. Whole = 1..(q - 1)
      BY <1>4, <2>2, <2>3, <2>5, <3>2
    <3> QED
      BY <3>1, <3>3
  <2> QED
    BY <2>4, <2>5
<1>7. PICK w \in Nat : w <= c /\ w <= p /\ Whole = 1..w
  BY <1>6
<1>8. Cardinality(1..w) = w
  <2>1. 1 \in Int /\ w \in Int /\ ~(1 > w) => w - 1 + 1 = w
    OBVIOUS
  <2> QED
    BY FS_Interval
<1> QED
  BY <1>7, <1>8 DEF p, c

(* The channel's variables.                                                *)
Queue == SubSeq(sent, Cardinality(Whole) + 1, Cardinality(PlainSent))
Delivered == [m \in 1..Cardinality(Whole) |-> TextOf(received[m])]

(* The delivered messages are the first of those sent, the queue has those *)
(* after them.                                                             *)
ChannelState ==
  LET w == Cardinality(Whole)
      p == Cardinality(PlainSent)
  IN /\ w \in Nat /\ p \in Nat /\ Len(sent) \in Nat
     /\ w <= p /\ p <= Len(sent) /\ w <= Len(received)
     /\ Len(received) \in Nat
     /\ Whole = 1..w /\ PlainSent = 1..p
     /\ \A m : m \in Whole <=>
                /\ m \in PlainSent /\ m \in 1..Len(received)
                /\ received[m] = ContentOf(m)
     /\ sent \in Seq(Body)
     /\ Delivered = [m \in 1..w |-> sent[m]]
     /\ Queue \in Seq(Body) /\ Len(Queue) = p - w
     /\ \A i \in 1..(p - w) : Queue[i] = sent[w + i]

(* So it is always.                                                        *)
LEMMA ChannelFacts == FrameInv => ChannelState
<1> SUFFICES ASSUME FrameInv
             PROVE  ChannelState
  OBVIOUS
<1> DEFINE w == Cardinality(Whole)
           p == Cardinality(PlainSent)
<1>1. TypeInv
  BY DEF FrameInv
<1>2. /\ w \in Nat /\ w <= Len(received) /\ w <= p /\ Whole = 1..w
      /\ p \in Nat /\ p <= Len(sent) /\ PlainSent = 1..p
      /\ Len(sent) \in Nat /\ Len(received) \in Nat
  BY <1>1, WholeInterval, PlainInterval, CountTypes
<1>3. Delivered = [m \in 1..w |-> TextOf(received[m])] /\ Queue = SubSeq(sent, w + 1, p)
  BY DEF Delivered, Queue
<1>4. sent \in Seq(Body)
  BY <1>1, StreamTypes
<1> HIDE DEF w, p
<1>5. ASSUME NEW m \in 1..w
      PROVE  TextOf(received[m]) = sent[m]
  <2>1. m \in 1..Len(sent)
    BY <1>2
  <2>2. received[m] = ContentOf(m)
    BY <1>2, WholeAre
  <2> QED
    BY <1>1, <2>1, <2>2, TextOfContent
<1>6. Delivered = [m \in 1..w |-> sent[m]]
  BY <1>3, <1>5
<1>7. \A i \in (w + 1)..p : sent[i] \in Body
  <2>1. \A i \in (w + 1)..p : i \in 1..Len(sent)
    BY <1>2
  <2> QED
    BY <1>4, <2>1, ElementOfSeq
<1>8. /\ Queue \in Seq(Body)
      /\ Len(Queue) = IF w + 1 <= p THEN p - (w + 1) + 1 ELSE 0
      /\ \A i \in 1..(p - (w + 1) + 1) : Queue[i] = sent[(w + 1) + i - 1]
  <2>1. w + 1 \in Int /\ p \in Int
    BY <1>2
  <2> QED
    BY <1>3, <1>7, <2>1, SubSeqProperties
<1>9. Len(Queue) = p - w /\ \A i \in 1..(p - w) : Queue[i] = sent[w + i]
  <2>1. /\ p - (w + 1) + 1 = p - w
        /\ \A i \in 1..(p - w) : (w + 1) + i - 1 = w + i
    BY <1>2
  <2>2. (IF w + 1 <= p THEN p - (w + 1) + 1 ELSE 0) = p - w
    BY <1>2
  <2> QED
    BY <1>8, <2>1, <2>2
<1> QED
  BY <1>2, <1>4, <1>6, <1>8, <1>9, WholeAre DEF ChannelState, w, p

(* After a step as well.                                                   *)
LEMMA ChannelFactsNext == FrameInv' => ChannelState'
BY ChannelFacts, PTL

(* A step that neither writes nor returns a message does not show.         *)
LEMMA QuietOnChannel ==
  ASSUME FrameInv, FrameInv', UNCHANGED <<sent, received>>
  PROVE  UNCHANGED <<Queue, Delivered>>
<1>1. PlainSent' = PlainSent
  BY DEF PlainSent, PlainUpTo, Plain
<1>2. ChannelState /\ ChannelState'
  BY ChannelFacts, ChannelFactsNext
<1>3. \A m : ContentOf(m)' = ContentOf(m)
  BY DEF ContentOf
<1>4. \A m : m \in Whole' <=> m \in Whole
  BY <1>1, <1>2, <1>3 DEF ChannelState
<1>5. Whole' = Whole
  BY <1>4
<1>6. Queue' = Queue
  BY <1>1, <1>5 DEF Queue
<1>7. Delivered' = Delivered
  BY <1>2, <1>5 DEF ChannelState
<1> QED
  BY <1>6, <1>7

(* A plain message written after plain ones is sent on the channel.        *)
LEMMA WriteOnChannel ==
  ASSUME FrameInv, FrameInv', Write
  PROVE  \/ \E body \in Body : Queue' = Append(Queue, body) /\ Delivered' = Delivered
         \/ UNCHANGED <<Queue, Delivered>>
<1> DEFINE w == Cardinality(Whole)
           p == Cardinality(PlainSent)
           l == Len(sent)
           q == Cardinality(PlainSent')
<1>1. /\ w \in Nat /\ p \in Nat /\ l \in Nat
      /\ w <= p /\ p <= l /\ w <= Len(received)
      /\ Len(received) \in Nat
      /\ Whole = 1..w /\ PlainSent = 1..p
      /\ \A m : m \in Whole <=>
                 /\ m \in PlainSent /\ m \in 1..Len(received)
                 /\ received[m] = ContentOf(m)
      /\ sent \in Seq(Body)
      /\ Delivered = [m \in 1..w |-> sent[m]]
      /\ Queue \in Seq(Body) /\ Len(Queue) = p - w
      /\ \A i \in 1..(p - w) : Queue[i] = sent[w + i]
  BY ChannelFacts DEF ChannelState
<1>2. /\ received' = received /\ Len(sent') = l + 1
      /\ \A j \in 1..l : sent'[j] = sent[j]
  BY WriteStep DEF FrameInv, readVars
<1>3. PICK body \in Body : sent' = Append(sent, body)
  BY WriteStep DEF FrameInv
<1>4. sent'[l + 1] = body
  BY <1>1, <1>3, AppendProperties
<1>5. ASSUME NEW m \in 1..l
      PROVE  /\ m \in PlainSent' <=> m \in PlainSent
             /\ ContentOf(m)' = ContentOf(m)
  <2>1. \A j \in 1..m : j \in 1..l
    BY <1>1
  <2>2. PlainUpTo(m)' <=> PlainUpTo(m)
    BY <1>2, <2>1 DEF PlainUpTo, Plain
  <2>3. m \in 1..(l + 1)
    BY <1>1
  <2> QED
    BY <1>2, <2>2, <2>3 DEF PlainSent, ContentOf
<1>6. /\ q \in Nat /\ q <= l + 1
      /\ PlainSent' = 1..q
      /\ \A m : m \in Whole' <=>
                 /\ m \in PlainSent' /\ m \in 1..Len(received)
                 /\ received[m] = ContentOf(m)'
      /\ Delivered' = [m \in 1..Cardinality(Whole') |-> sent'[m]]
      /\ Queue' \in Seq(Body) /\ Len(Queue') = q - Cardinality(Whole')
      /\ \A i \in 1..(q - Cardinality(Whole')) :
           Queue'[i] = sent'[Cardinality(Whole') + i]
  BY <1>2, ChannelFactsNext DEF ChannelState
<1>7. l + 1 \in PlainSent' => Len(received) <= l
  <2> SUFFICES ASSUME l + 1 \in PlainSent'
               PROVE  Len(received) <= l
    OBVIOUS
  <2>1. ASSUME NEW j \in 1..l
        PROVE  Plain(sent[j])
    <3>1. \A i \in 1..(l + 1) : Plain(sent[i])'
      BY DEF PlainSent, PlainUpTo
    <3>2. j \in 1..(l + 1)
      BY <1>1
    <3>3. Plain(sent[j])'
      BY <3>1, <3>2
    <3> QED
      BY <1>2, <3>3 DEF Plain
  <2>2. PlainUpTo(Len(sent))
    BY <2>1 DEF PlainUpTo
  <2> QED
    BY <2>2, NoMoreThanSent
<1>8. Whole' = Whole
  <2>1. \A m \in 1..q : m \in 1..l \/ m = l + 1
    BY <1>1, <1>6
  <2>2. l + 1 \in PlainSent' => l + 1 \notin 1..Len(received)
    BY <1>1, <1>7
  <2>3. \A m \in PlainSent : m \in 1..l
    BY <1>1
  <2>4. ASSUME NEW m
        PROVE  m \in Whole' <=> m \in Whole
    <3>1. CASE m \in 1..l
      BY <1>1, <1>5, <1>6, <3>1
    <3>2. CASE m \notin 1..l
      <4>1. m \notin Whole
        BY <1>1, <2>3, <3>2
      <4>2. m \notin Whole'
        BY <1>6, <2>1, <2>2, <3>2
      <4> QED
        BY <4>1, <4>2
    <3> QED
      BY <3>1, <3>2
  <2> QED
    BY <2>4
<1> HIDE DEF w, p, l, q
<1>9. Cardinality(Whole') = w
  BY <1>8 DEF w
<1>10. Delivered' = Delivered
  <2>1. \A m \in 1..w : m \in 1..l
    BY <1>1
  <2>2. \A m \in 1..w : sent'[m] = sent[m]
    BY <1>2, <2>1
  <2> QED
    BY <1>1, <1>6, <1>9, <2>2
<1>11. /\ Len(Queue') = q - w
       /\ \A i \in 1..(q - w) : Queue'[i] = sent'[w + i]
  BY <1>6, <1>9
<1>12. ASSUME NEW i \in 1..(p - w)
       PROVE  sent'[w + i] = Queue[i]
  <2>1. w + i \in 1..l
    BY <1>1
  <2> QED
    BY <1>1, <1>2, <2>1
<1>13. CASE q <= l
  <2>1. PlainSent' = PlainSent
    <3>1. \A m : (m \in 1..q => m \in 1..l) /\ (m \in 1..p => m \in 1..l)
      BY <1>1, <1>6, <1>13
    <3> QED
      BY <1>1, <1>5, <1>6, <3>1
  <2>2. q = p
    BY <2>1 DEF q, p
  <2>3. Queue' = Queue
    BY <1>1, <1>6, <1>11, <1>12, <2>2, SeqEqual
  <2> QED
    BY <1>10, <2>3
<1>14. CASE ~(q <= l)
  <2>1. q = l + 1
    BY <1>1, <1>6, <1>14
  <2>2. p = l
    <3>1. \A m \in 1..l : m \in 1..q
      BY <1>1, <2>1
    <3>2. \A m \in 1..l : m \in 1..p
      BY <1>1, <1>5, <1>6, <3>1
    <3>3. l = 0 \/ l \in 1..p
      <4>1. l = 0 \/ l \in 1..l
        BY <1>1
      <4> QED
        BY <3>2, <4>1
    <3> QED
      BY <1>1, <3>3
  <2> DEFINE more == Append(Queue, body)
  <2>3. /\ more \in Seq(Body) /\ Len(more) = Len(Queue) + 1
        /\ \A i \in 1..Len(Queue) : more[i] = Queue[i]
        /\ more[Len(Queue) + 1] = body
    <3>1. Queue \in Seq(Body) /\ body \in Body
      BY <1>1
    <3> QED
      BY <3>1, AppendProperties
  <2> HIDE DEF more
  <2>4. q - w = (p - w) + 1 /\ p - w \in Nat /\ w + ((p - w) + 1) = l + 1
    BY <1>1, <2>1, <2>2
  <2>5. ASSUME NEW i \in 1..(q - w)
        PROVE  Queue'[i] = more[i]
    <3>1. CASE i \in 1..(p - w)
      BY <1>1, <1>11, <1>12, <2>3, <3>1
    <3>2. CASE i \notin 1..(p - w)
      <4>1. i = (p - w) + 1
        BY <2>4, <3>2
      <4>2. Queue'[i] = body
        BY <1>4, <1>11, <2>4, <4>1 DEF l
      <4> QED
        BY <1>1, <2>3, <4>1, <4>2
    <3> QED
      BY <3>1, <3>2
  <2>6. Len(Queue') = Len(more)
    BY <1>1, <1>11, <2>3, <2>4
  <2>7. Queue' = more
    BY <1>6, <1>11, <2>3, <2>5, <2>6, SeqEqual
  <2> QED
    BY <1>10, <2>7 DEF more
<1> QED
  BY <1>13, <1>14

(* A whole plain message returned is received from the channel.            *)
LEMMA ReturnOnChannel ==
  ASSUME FrameInv, FrameInv', ReturnMessage
  PROVE  \/ /\ Queue # <<>> /\ Queue' = Tail(Queue)
            /\ Delivered' = Append(Delivered, Head(Queue))
         \/ UNCHANGED <<Queue, Delivered>>
<1> DEFINE w == Cardinality(Whole)
           p == Cardinality(PlainSent)
           c == Len(received)
           v == Cardinality(Whole')
<1>1. /\ w \in Nat /\ p \in Nat /\ Len(sent) \in Nat
      /\ w <= p /\ p <= Len(sent) /\ w <= c
      /\ c \in Nat
      /\ Whole = 1..w /\ PlainSent = 1..p
      /\ \A m : m \in Whole <=>
                 /\ m \in PlainSent /\ m \in 1..c
                 /\ received[m] = ContentOf(m)
      /\ sent \in Seq(Body)
      /\ Delivered = [m \in 1..w |-> sent[m]]
      /\ Queue \in Seq(Body) /\ Len(Queue) = p - w
      /\ \A i \in 1..(p - w) : Queue[i] = sent[w + i]
  BY ChannelFacts DEF ChannelState
<1>2. /\ sent' = sent
      /\ Len(received') = c + 1
      /\ \A m \in 1..c : received'[m] = received[m]
  BY ReturnStep DEF FrameInv
<1>3. PlainSent' = PlainSent
  BY <1>2 DEF PlainSent, PlainUpTo, Plain
<1>4. \A m : ContentOf(m)' = ContentOf(m)
  BY <1>2 DEF ContentOf
<1>5. /\ v \in Nat /\ v <= p /\ v <= c + 1 /\ Whole' = 1..v
      /\ \A m : m \in Whole' <=>
                 /\ m \in PlainSent /\ m \in 1..(c + 1)
                 /\ received'[m] = ContentOf(m)
      /\ Delivered' = [m \in 1..v |-> sent[m]]
      /\ Queue' \in Seq(Body) /\ Len(Queue') = p - v
      /\ \A i \in 1..(p - v) : Queue'[i] = sent[v + i]
  BY <1>2, <1>3, <1>4, ChannelFactsNext DEF ChannelState
<1>6. /\ Queue = SubSeq(sent, w + 1, p) /\ Queue' = SubSeq(sent, v + 1, p)
  BY <1>2, <1>3 DEF Queue
<1> HIDE DEF w, p, c
<1>7. \A m : m \in Whole' <=> m \in Whole \/ (m = c + 1 /\ m \in Whole')
  <2>1. \A m : m \in 1..(c + 1) <=> m \in 1..c \/ m = c + 1
    BY <1>1
  <2> QED
    BY <1>1, <1>2, <1>5, <2>1
<1>8. CASE c + 1 \in Whole'
  <2> HIDE DEF v
  <2>1. v = c + 1
    BY <1>1, <1>5, <1>8
  <2>2. c \in 1..w \/ c = 0
    <3>1. (c \in 1..v /\ c # c + 1) \/ c = 0
      BY <1>1, <2>1
    <3> QED
      BY <1>1, <1>5, <1>7, <3>1
  <2>3. w = c
    BY <1>1, <2>2
  <2>4. w + 1 \in 1..Len(sent) /\ p \in (w + 1)..Len(sent) /\ w + 1 + 1 = v + 1
    BY <1>1, <1>5, <2>1, <2>3
  <2>5. Head(Queue) = sent[w + 1] /\ Tail(Queue) = Queue'
    BY <1>1, <1>6, <2>4, HeadTailOfSubSeq
  <2>6. Queue # <<>>
    <3>1. Len(Queue) # 0
      BY <1>1, <2>4
    <3> QED
      BY <3>1, EmptySeq
  <2>7. Delivered' = Append(Delivered, sent[w + 1])
    <3> DEFINE more == Append(Delivered, sent[w + 1])
    <3>1. \A m \in 1..w : sent[m] \in Body
      <4>1. \A m \in 1..w : m \in 1..Len(sent)
        BY <1>1
      <4> QED
        BY <1>1, <4>1, ElementOfSeq
    <3>2. Delivered \in [1..w -> Body]
      BY <1>1, <3>1
    <3>3. Delivered \in Seq(Body)
      BY <1>1, <3>2, SeqDef
    <3>4. Len(Delivered) = w
      BY <1>1, <3>2, <3>3, LenProperties
    <3>5. sent[w + 1] \in Body
      BY <1>1, <2>4, ElementOfSeq
    <3>6. /\ more \in Seq(Body) /\ Len(more) = w + 1
          /\ \A m \in 1..w : more[m] = Delivered[m]
          /\ more[w + 1] = sent[w + 1]
      BY <3>3, <3>4, <3>5, AppendProperties
    <3> HIDE DEF more
    <3>7. ASSUME NEW m \in 1..v
          PROVE  more[m] = sent[m]
      <4>1. m \in 1..w \/ m = w + 1
        BY <1>1, <2>1, <2>3
      <4> QED
        BY <1>1, <3>6, <4>1
    <3>8. more \in [1..v -> Body]
      BY <2>1, <2>3, <3>6, LenProperties
    <3>9. more = [m \in 1..v |-> sent[m]]
      BY <3>7, <3>8
    <3> QED
      BY <1>5, <3>9 DEF more
  <2> QED
    BY <2>5, <2>6, <2>7
<1>9. CASE c + 1 \notin Whole'
  <2>1. Whole' = Whole
    BY <1>7, <1>9
  <2>2. v = w
    BY <2>1 DEF v, w
  <2> QED
    BY <1>1, <1>5, <1>6, <2>2
<1> QED
  BY <1>8, <1>9

(* The stream is a channel of whole messages: with a header before each,   *)
(* cut anywhere, and taken apart by read_, it carries the plain messages   *)
(* as the server's loop takes for granted (languageService.cpp:41), up to  *)
(* one that is not plain or that the end of the stream has cut.            *)
THEOREM ChannelImplemented == Spec => WholeMessages
<1>1. Init => Channel!Init
  <2> SUFFICES ASSUME Init
               PROVE  Channel!Init
    OBVIOUS
  <2>1. /\ ChannelState /\ Len(sent) = 0
    BY InitFrameInv, ChannelFacts, EmptySeq DEF Init
  <2>2. Cardinality(Whole) = 0 /\ Len(Queue) = 0
    BY <2>1 DEF ChannelState
  <2>3. Queue = <<>>
    BY <2>1, <2>2, EmptySeq DEF ChannelState
  <2>4. Delivered = <<>>
    BY <2>2 DEF Delivered
  <2> QED
    BY <2>3, <2>4 DEF Channel!Init, Queue, Delivered
<1>2. ASSUME FrameInv, FrameInv', [Next]_vars
      PROVE  [Channel!Next]_(Channel!vars)
  <2>1. CASE Write
    BY <1>2, <2>1, WriteOnChannel
       DEF Channel!Next, Channel!Send, Channel!vars, Queue, Delivered
  <2>2. CASE ReturnMessage
    BY <1>2, <2>2, ReturnOnChannel
       DEF Channel!Next, Channel!Receive, Channel!vars, Queue, Delivered
  <2>3. CASE UNCHANGED <<sent, received>>
    BY <1>2, <2>3, QuietOnChannel DEF Channel!vars, Queue, Delivered
  <2>4. CASE Vanish
    <3>1. UNCHANGED <<sent, received>>
      BY <2>4 DEF Vanish, readVars
    <3> QED
      BY <2>3, <3>1
  <2>5. CASE Arrive
    <3>1. UNCHANGED <<sent, received>>
      BY <2>5 DEF Arrive, readVars
    <3> QED
      BY <2>3, <3>1
  <2>6. CASE ReadHeader \/ ReadContent
    <3>1. UNCHANGED <<sent, received>>
      BY <2>6 DEF ReadHeader, ReadContent, peerVars
    <3> QED
      BY <2>3, <3>1
  <2>7. CASE UNCHANGED vars
    <3>1. UNCHANGED <<sent, received>>
      BY <2>7 DEF vars, peerVars, readVars
    <3> QED
      BY <2>3, <3>1
  <2> QED
    BY <1>2, <2>1, <2>2, <2>4, <2>5, <2>6, <2>7 DEF Next, Reader
<1>3. FrameInv /\ FrameInv' /\ [Next]_vars => [Channel!Next]_(Channel!vars)
  BY <1>2
<1> QED
  BY <1>1, <1>3, FrameInvInvariant, PTL DEF Spec, WholeMessages, Channel!Spec
=============================================================================
