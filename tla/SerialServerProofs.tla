------------------------- MODULE SerialServerProofs -------------------------
(***************************************************************************)
(* Proof that LanguageService implements SerialServer: every request is    *)
(* answered once, in the order in which they were asked.                   *)
(***************************************************************************)
EXTENDS LanguageServiceProofs

-----------------------------------------------------------------------------
(* The messages of a type.                                                 *)

(* Induction over the naturals, on a set.                                  *)
LEMMA NumberInduction ==
  ASSUME NEW T \in SUBSET Nat, 0 \in T, \A n \in T : n + 1 \in T
  PROVE  \A n \in Nat : n \in T
<1> DEFINE Rest == Nat \ T
<1>1. ASSUME Rest # {}
      PROVE  FALSE
  <2>1. PICK m \in Rest : \A j \in Rest : m <= j
    <3>1. Rest \in SUBSET Nat
      OBVIOUS
    <3> HIDE DEF Rest
    <3> QED
      BY <1>1, <3>1, LeastNumber
  <2>2. m \in Nat /\ m # 0 /\ m \notin T
    OBVIOUS
  <2>3. m - 1 \in Nat /\ ~(m <= m - 1) /\ (m - 1) + 1 = m
    BY <2>2
  <2>4. m - 1 \in T
    BY <2>1, <2>3
  <2> QED
    BY <2>2, <2>3, <2>4
<1> QED
  BY <1>1

(* The equation that defines the messages of a type in the beginnings of a *)
(* list, of up to n messages, and its solution.                            *)
Sift(s, type, n, upTo) ==
  [k \in 0..n |->
     IF k = 0 THEN <<>>
     ELSE IF s[k].type = type THEN Append(upTo[k - 1], s[k])
     ELSE upTo[k - 1]]

Sifted(s, type) == CHOOSE upTo : upTo = Sift(s, type, Len(s), upTo)

(* There is a solution.                                                    *)
LEMMA SiftExists ==
  ASSUME NEW s, NEW type
  PROVE  \A n \in Nat : \E upTo : upTo = Sift(s, type, n, upTo)
<1> DEFINE T == {n \in Nat : \E upTo : upTo = Sift(s, type, n, upTo)}
           value(h, k) == IF k = 0 THEN <<>>
                          ELSE IF s[k].type = type THEN Append(h[k - 1], s[k])
                          ELSE h[k - 1]
<1>1. 0 \in T
  <2> DEFINE f == [k \in 0..0 |-> <<>>]
  <2>1. f = Sift(s, type, 0, f)
    BY DEF Sift
  <2> QED
    BY <2>1
<1>2. ASSUME NEW n \in T
      PROVE  n + 1 \in T
  <2>1. PICK f : f = Sift(s, type, n, f)
    OBVIOUS
  <2> DEFINE last == value(f, n + 1)
             g == [k \in 0..(n + 1) |-> IF k = n + 1 THEN last ELSE f[k]]
  <2>2. n \in Nat
    OBVIOUS
  <2> HIDE DEF last
  <2>3. \A k \in 0..n : g[k] = f[k]
    BY <2>2
  <2>4. \A k \in 0..n : f[k] = value(f, k)
    BY <2>1 DEF Sift
  <2>5. g[n + 1] = last
    BY <2>2
  <2>6. g = [k \in 0..(n + 1) |-> g[k]]
    OBVIOUS
  <2> HIDE DEF g
  <2>7. ASSUME NEW k \in 0..(n + 1)
        PROVE  g[k] = value(g, k)
    <3>1. CASE k = n + 1
      <4>1. k # 0 /\ k - 1 = n /\ n \in 0..n
        BY <2>2, <3>1
      <4>2. g[k - 1] = f[k - 1]
        BY <2>3, <4>1
      <4>3. value(g, k) = value(f, k)
        BY <4>2
      <4> HIDE DEF value
      <4> QED
        BY <2>5, <3>1, <4>3 DEF last
    <3>2. CASE k # n + 1
      <4>1. k \in 0..n /\ (k # 0 => k - 1 \in 0..n)
        BY <2>2, <3>2
      <4>2. k # 0 => g[k - 1] = f[k - 1]
        BY <2>3, <4>1
      <4>3. value(g, k) = value(f, k)
        BY <4>2
      <4> HIDE DEF value
      <4> QED
        BY <2>3, <2>4, <4>1, <4>3
    <3> QED
      BY <3>1, <3>2
  <2>8. g = [k \in 0..(n + 1) |-> value(g, k)]
    <3> HIDE DEF value
    <3> QED
      BY <2>6, <2>7
  <2>9. g = Sift(s, type, n + 1, g)
    BY <2>8 DEF Sift
  <2> HIDE DEF value
  <2> QED
    BY <2>2, <2>9
<1> HIDE DEF T
<1>3. \A n \in Nat : n \in T
  <2>1. T \in SUBSET Nat
    BY DEF T
  <2> QED
    BY <1>1, <1>2, <2>1, NumberInduction
<1> QED
  BY <1>3 DEF T

(* It has these values.                                                    *)
LEMMA SiftedValues ==
  ASSUME NEW S, NEW s \in Seq(S), NEW type
  PROVE  /\ OfType(s, type) = Sifted(s, type)[Len(s)]
         /\ Sifted(s, type)[0] = <<>>
         /\ \A k \in 1..Len(s) :
              Sifted(s, type)[k] =
                IF s[k].type = type THEN Append(Sifted(s, type)[k - 1], s[k])
                                    ELSE Sifted(s, type)[k - 1]
<1> DEFINE f == Sifted(s, type)
           n == Len(s)
<1>1. n \in Nat
  BY LenProperties
<1>2. f = Sift(s, type, n, f)
  BY <1>1, SiftExists DEF Sifted
<1>3. OfType(s, type) = f[n]
  BY DEF OfType, Sifted, Sift
<1> HIDE DEF f, n
<1>4. f[0] = <<>>
  BY <1>1, <1>2 DEF Sift
<1>5. ASSUME NEW k \in 1..n
      PROVE  f[k] = IF s[k].type = type THEN Append(f[k - 1], s[k]) ELSE f[k - 1]
  <2>1. k \in 0..n /\ k # 0
    BY <1>1
  <2> QED
    BY <1>2, <2>1 DEF Sift
<1> QED
  BY <1>3, <1>4, <1>5 DEF f, n

(* These are lists of messages of the type.                                *)
LEMMA SiftedType ==
  ASSUME NEW S, NEW s \in Seq(S), NEW type,
         NEW M, \A m \in S : m.type = type => m \in M
  PROVE  /\ OfType(s, type) \in Seq(M)
         /\ \A k \in 0..Len(s) : Sifted(s, type)[k] \in Seq(M)
<1> DEFINE f == Sifted(s, type)
           n == Len(s)
           T == {k \in Nat : k <= n => f[k] \in Seq(M)}
<1>1. n \in Nat /\ \A k \in 1..n : s[k] \in S
  BY LenProperties, ElementOfSeq
<1>2. /\ OfType(s, type) = f[n]
      /\ f[0] = <<>>
      /\ \A k \in 1..n : f[k] = IF s[k].type = type THEN Append(f[k - 1], s[k])
                                                    ELSE f[k - 1]
  BY SiftedValues
<1> HIDE DEF f, n
<1>3. 0 \in T
  BY <1>2, EmptySeq
<1>4. ASSUME NEW k \in T
      PROVE  k + 1 \in T
  <2> SUFFICES ASSUME k + 1 <= n
               PROVE  f[k + 1] \in Seq(M)
    OBVIOUS
  <2>1. k + 1 \in 1..n /\ (k + 1) - 1 = k /\ f[k] \in Seq(M)
    BY <1>1
  <2>2. CASE s[k + 1].type = type
    <3>1. s[k + 1] \in M
      BY <1>1, <2>1, <2>2
    <3>2. f[k + 1] = Append(f[k], s[k + 1])
      BY <1>2, <2>1, <2>2
    <3> QED
      BY <2>1, <3>1, <3>2, AppendProperties
  <2>3. CASE s[k + 1].type # type
    <3>1. f[k + 1] = f[k]
      BY <1>2, <2>1, <2>3
    <3> QED
      BY <2>1, <3>1
  <2> QED
    BY <2>2, <2>3
<1> HIDE DEF T
<1>5. \A k \in Nat : k \in T
  <2>1. T \in SUBSET Nat
    BY DEF T
  <2> QED
    BY <1>3, <1>4, <2>1, NumberInduction
<1>6. \A k \in 0..n : f[k] \in Seq(M)
  BY <1>1, <1>5 DEF T
<1>7. f[n] \in Seq(M)
  BY <1>1, <1>6
<1> QED
  BY <1>2, <1>6, <1>7 DEF f, n

(* None of no messages.                                                    *)
LEMMA OfTypeEmpty ==
  ASSUME NEW type
  PROVE  OfType(<<>>, type) = <<>>
<1> DEFINE none == <<>>
<1>1. none \in Seq(Nat) /\ Len(none) = 0
  BY EmptySeq
<1> HIDE DEF none
<1>2. OfType(none, type) = Sifted(none, type)[Len(none)]
  BY <1>1, SiftedValues
<1>3. \A s \in Seq(Nat) : Sifted(s, type)[0] = <<>>
  BY SiftedValues
<1> QED
  BY <1>1, <1>2, <1>3 DEF none

(* A message is added at the end.                                          *)
LEMMA OfTypeAppend ==
  ASSUME NEW S, NEW s \in Seq(S), NEW m \in S, NEW type
  PROVE  OfType(Append(s, m), type) =
           IF m.type = type THEN Append(OfType(s, type), m) ELSE OfType(s, type)
<1> DEFINE t == Append(s, m)
           n == Len(s)
           f == Sifted(s, type)
           g == Sifted(t, type)
           T == {k \in Nat : k <= n => g[k] = f[k]}
<1>1. /\ t \in Seq(S) /\ n \in Nat /\ Len(t) = n + 1
      /\ \A k \in 1..n : t[k] = s[k]
      /\ t[n + 1] = m
  BY AppendProperties, LenProperties
<1> HIDE DEF t, n
<1>2. /\ OfType(s, type) = f[n]
      /\ f[0] = <<>>
      /\ \A k \in 1..n : f[k] = IF s[k].type = type THEN Append(f[k - 1], s[k])
                                                    ELSE f[k - 1]
  BY SiftedValues DEF n
<1>3. /\ OfType(t, type) = g[n + 1]
      /\ g[0] = <<>>
      /\ \A k \in 1..(n + 1) : g[k] = IF t[k].type = type THEN Append(g[k - 1], t[k])
                                                          ELSE g[k - 1]
  <2>1. /\ OfType(t, type) = g[Len(t)]
        /\ g[0] = <<>>
        /\ \A k \in 1..Len(t) : g[k] = IF t[k].type = type THEN Append(g[k - 1], t[k])
                                                           ELSE g[k - 1]
    BY <1>1, SiftedValues
  <2> QED
    BY <1>1, <2>1
<1> HIDE DEF f, g
<1>4. 0 \in T
  BY <1>2, <1>3
<1>5. ASSUME NEW k \in T
      PROVE  k + 1 \in T
  <2> SUFFICES ASSUME k + 1 <= n
               PROVE  g[k + 1] = f[k + 1]
    OBVIOUS
  <2>1. /\ k + 1 \in 1..n /\ k + 1 \in 1..(n + 1) /\ (k + 1) - 1 = k
        /\ g[k] = f[k]
    BY <1>1
  <2>2. t[k + 1] = s[k + 1]
    BY <1>1, <2>1
  <2> QED
    BY <1>2, <1>3, <2>1, <2>2
<1> HIDE DEF T
<1>6. n \in T
  <2>1. T \in SUBSET Nat
    BY DEF T
  <2> QED
    BY <1>1, <1>4, <1>5, <2>1, NumberInduction
<1>7. g[n] = f[n]
  BY <1>1, <1>6 DEF T
<1>8. n + 1 \in 1..(n + 1) /\ (n + 1) - 1 = n
  BY <1>1
<1>9. g[n + 1] = IF m.type = type THEN Append(g[n], m) ELSE g[n]
  BY <1>1, <1>3, <1>8
<1> QED
  BY <1>2, <1>3, <1>7, <1>9 DEF t

(* The first message is taken off.                                         *)
LEMMA OfTypeTail ==
  ASSUME NEW S, NEW s \in Seq(S), s # <<>>, NEW type
  PROVE  OfType(s, type) = IF Head(s).type = type
                             THEN <<Head(s)>> \o OfType(Tail(s), type)
                             ELSE OfType(Tail(s), type)
<1> DEFINE t == Tail(s)
           n == Len(s) - 1
           f == Sifted(s, type)
           g == Sifted(t, type)
           M == {m \in S : m.type = type}
           first == IF Head(s).type = type THEN <<Head(s)>> ELSE <<>>
           T == {k \in Nat : k <= n => f[k + 1] = first \o g[k]}
<1>1. /\ n \in Nat /\ Len(s) = n + 1
      /\ t \in Seq(S) /\ Len(t) = n
      /\ \A k \in 1..n : t[k] = s[k + 1]
      /\ Head(s) = s[1] /\ Head(s) \in S
  BY EmptySeq, HeadTailProperties
<1> HIDE DEF t, n
<1>2. /\ OfType(s, type) = f[n + 1]
      /\ f[0] = <<>>
      /\ \A k \in 1..(n + 1) : f[k] = IF s[k].type = type THEN Append(f[k - 1], s[k])
                                                          ELSE f[k - 1]
  <2>1. /\ OfType(s, type) = f[Len(s)]
        /\ f[0] = <<>>
        /\ \A k \in 1..Len(s) : f[k] = IF s[k].type = type THEN Append(f[k - 1], s[k])
                                                           ELSE f[k - 1]
    BY SiftedValues
  <2> QED
    BY <1>1, <2>1
<1>3. /\ OfType(t, type) = g[n]
      /\ g[0] = <<>>
      /\ \A k \in 1..n : g[k] = IF t[k].type = type THEN Append(g[k - 1], t[k])
                                                    ELSE g[k - 1]
      /\ \A k \in 0..n : g[k] \in Seq(M)
  <2>1. /\ OfType(t, type) = g[Len(t)]
        /\ g[0] = <<>>
        /\ \A k \in 1..Len(t) : g[k] = IF t[k].type = type THEN Append(g[k - 1], t[k])
                                                           ELSE g[k - 1]
    BY <1>1, SiftedValues
  <2>2. \A k \in 0..Len(t) : g[k] \in Seq(M)
    BY <1>1, SiftedType
  <2> QED
    BY <1>1, <2>1, <2>2
<1> HIDE DEF f, g
<1>4. first \in Seq(M)
  <2>1. CASE Head(s).type = type
    <3>1. Head(s) \in M
      BY <1>1, <2>1
    <3> HIDE DEF M
    <3> QED
      BY <2>1, <3>1
  <2>2. CASE Head(s).type # type
    BY <2>2, EmptySeq
  <2> QED
    BY <2>1, <2>2
<1>5. \A x \in Seq(M) : x \o <<>> = x /\ <<>> \o x = x
  BY ConcatEmptySeq
<1>6. 0 \in T
  <2>1. 1 \in 1..(n + 1) /\ 1 - 1 = 0
    BY <1>1
  <2>2. f[1] = IF Head(s).type = type THEN Append(<<>>, Head(s)) ELSE <<>>
    BY <1>1, <1>2, <2>1
  <2>3. Append(<<>>, Head(s)) = <<Head(s)>>
    <3>1. <<>> \in Seq(S) /\ <<Head(s)>> \in Seq(S)
      BY <1>1
    <3>2. Append(<<>>, Head(s)) = <<>> \o <<Head(s)>>
      BY <1>1, <3>1, AppendIsConcat
    <3> QED
      BY <3>1, <3>2, ConcatEmptySeq
  <2>4. f[0 + 1] = first \o g[0]
    BY <1>3, <1>4, <1>5, <2>2, <2>3
  <2> QED
    BY <2>4
<1> HIDE DEF M, first
<1>7. ASSUME NEW k \in T
      PROVE  k + 1 \in T
  <2> SUFFICES ASSUME k + 1 <= n
               PROVE  f[(k + 1) + 1] = first \o g[k + 1]
    OBVIOUS
  <2>1. /\ k + 1 \in 1..n /\ (k + 1) + 1 \in 1..(n + 1)
        /\ (k + 1) - 1 = k /\ ((k + 1) + 1) - 1 = k + 1
        /\ k \in 0..n
        /\ f[k + 1] = first \o g[k]
    BY <1>1
  <2> DEFINE m == s[(k + 1) + 1]
  <2>2. /\ f[(k + 1) + 1] = IF m.type = type THEN Append(first \o g[k], m)
                                             ELSE first \o g[k]
        /\ g[k + 1] = IF m.type = type THEN Append(g[k], m) ELSE g[k]
    BY <1>1, <1>2, <1>3, <2>1
  <2>3. CASE m.type = type
    <3>1. m \in M
      BY <1>1, <2>1, <2>3, ElementOfSeq DEF M
    <3> HIDE DEF m
    <3>2. g[k] \in Seq(M) /\ first \o g[k] \in Seq(M) /\ <<m>> \in Seq(M)
      BY <1>3, <1>4, <2>1, <3>1, ConcatProperties
    <3>3. Append(first \o g[k], m) = (first \o g[k]) \o <<m>>
      BY <3>1, <3>2, AppendIsConcat
    <3>4. Append(g[k], m) = g[k] \o <<m>>
      BY <3>1, <3>2, AppendIsConcat
    <3>5. (first \o g[k]) \o <<m>> = first \o (g[k] \o <<m>>)
      <4> DEFINE middle == g[k]
                 last == <<m>>
      <4>1. middle \in Seq(M) /\ last \in Seq(M)
        BY <3>2
      <4> HIDE DEF middle, last
      <4>2. (first \o middle) \o last = first \o (middle \o last)
        BY <1>4, <4>1, ConcatAssociative
      <4> QED
        BY <4>2 DEF middle, last
    <3> QED
      BY <2>2, <2>3, <3>3, <3>4, <3>5
  <2>4. CASE m.type # type
    BY <2>2, <2>4
  <2> QED
    BY <2>3, <2>4
<1> HIDE DEF T
<1>8. n \in T
  <2>1. T \in SUBSET Nat
    BY DEF T
  <2> QED
    BY <1>1, <1>6, <1>7, <2>1, NumberInduction
<1>9. f[n + 1] = first \o g[n] /\ g[n] \in Seq(M)
  BY <1>1, <1>3, <1>8 DEF T
<1>10. CASE Head(s).type = type
  BY <1>2, <1>3, <1>9, <1>10 DEF first, t
<1>11. CASE Head(s).type # type
  BY <1>2, <1>3, <1>5, <1>9, <1>11 DEF first, t
<1> QED
  BY <1>10, <1>11

(* A list with each element replaced by what f gives for it.               *)
Mapped(f, s) == [i \in 1..Len(s) |-> f[s[i]]]

(* Its length and its values.                                              *)
LEMMA MappedValues ==
  ASSUME NEW S, NEW f, NEW s \in Seq(S)
  PROVE  /\ Len(Mapped(f, s)) = Len(s)
         /\ \A i \in 1..Len(s) : Mapped(f, s)[i] = f[s[i]]
<1> DEFINE n == Len(s)
           r == Mapped(f, s)
           T == {f[y] : y \in S}
<1>1. n \in Nat /\ (\A i \in 1..n : f[s[i]] \in T)
  BY LenProperties, ElementOfSeq
<1>2. r = [i \in 1..n |-> f[s[i]]]
  BY DEF Mapped
<1> HIDE DEF r, n, T
<1>3. r \in [1..n -> T]
  BY <1>1, <1>2
<1>4. r \in Seq(T)
  BY <1>1, <1>3, SeqDef
<1>5. Len(r) = n
  BY <1>1, <1>3, <1>4, LenProperties
<1> QED
  BY <1>2, <1>5 DEF r, n

(* Its type.                                                               *)
LEMMA MappedType ==
  ASSUME NEW S, NEW T, NEW f, NEW s \in Seq(S), \A x \in S : f[x] \in T
  PROVE  Mapped(f, s) \in Seq(T)
<1> DEFINE n == Len(s)
           r == Mapped(f, s)
<1>1. n \in Nat /\ (\A i \in 1..n : f[s[i]] \in T)
  BY LenProperties, ElementOfSeq
<1>2. r = [i \in 1..n |-> f[s[i]]]
  BY DEF Mapped
<1> HIDE DEF r, n
<1>3. r \in [1..n -> T]
  BY <1>1, <1>2
<1> QED
  BY <1>1, <1>3, SeqDef DEF r

(* The list with one more element, at its end.                             *)
LEMMA MappedAppend ==
  ASSUME NEW S, NEW f, NEW s \in Seq(S), NEW m \in S
  PROVE  Mapped(f, Append(s, m)) = Append(Mapped(f, s), f[m])
<1> DEFINE n == Len(s)
           x == f[m]
           r == Mapped(f, s)
           T == {f[y] : y \in S}
<1>0. \A y \in S : f[y] \in T
  OBVIOUS
<1>1. n \in Nat /\ (\A i \in 1..n : s[i] \in S) /\ x \in T
  BY <1>0, LenProperties, ElementOfSeq
<1>2. r \in Seq(T) /\ Len(r) = n /\ \A i \in 1..n : r[i] = f[s[i]]
  <2> HIDE DEF n, x, r, T
  <2>1. Mapped(f, s) \in Seq(T)
    BY <1>0, MappedType
  <2>2. /\ Len(Mapped(f, s)) = Len(s)
        /\ \A i \in 1..Len(s) : Mapped(f, s)[i] = f[s[i]]
    BY MappedValues
  <2> QED
    BY <2>1, <2>2 DEF n, r
<1>3. Mapped(f, Append(s, m)) = Append(r, x)
  <2> DEFINE t == Append(s, m)
             u == Append(r, x)
             v == Mapped(f, t)
  <2>1. /\ Len(t) = n + 1 /\ t[n + 1] = m
        /\ \A i \in 1..n : t[i] = s[i]
    BY AppendProperties
  <2>2. v = [i \in 1..(n + 1) |-> f[t[i]]]
    BY <2>1 DEF Mapped
  <2>3. /\ u \in Seq(T) /\ Len(u) = n + 1 /\ u[n + 1] = x
        /\ \A i \in 1..n : u[i] = r[i]
    BY <1>1, <1>2, AppendProperties
  <2>4. u = [i \in 1..(n + 1) |-> u[i]]
    <3> HIDE DEF u
    <3> QED
      BY <2>3, LenProperties
  <2> HIDE DEF t, u, v, n, r
  <2>5. \A i \in 1..(n + 1) : f[t[i]] = u[i]
    <3>1. ASSUME NEW i \in 1..(n + 1)
          PROVE  f[t[i]] = u[i]
      <4>1. CASE i = n + 1
        BY <2>1, <2>3, <4>1
      <4>2. CASE i # n + 1
        <5>1. i \in 1..n
          BY <1>1, <4>2
        <5> QED
          BY <1>2, <2>1, <2>3, <5>1
      <4> QED
        BY <4>1, <4>2
    <3> QED
      BY <3>1
  <2>6. v = u
    BY <2>2, <2>4, <2>5
  <2> QED
    BY <2>6 DEF t, u, v
<1> QED
  BY <1>3 DEF r, x

(* The list with one more element ahead of it.                             *)
LEMMA MappedAhead ==
  ASSUME NEW S, NEW f, NEW s \in Seq(S), NEW m \in S
  PROVE  Mapped(f, <<m>> \o s) = <<f[m]>> \o Mapped(f, s)
<1> DEFINE n == Len(s)
           x == f[m]
           r == Mapped(f, s)
           T == {f[y] : y \in S}
<1>0. \A y \in S : f[y] \in T
  OBVIOUS
<1>1. n \in Nat /\ (\A i \in 1..n : s[i] \in S) /\ x \in T
  BY <1>0, LenProperties, ElementOfSeq
<1>2. r \in Seq(T) /\ Len(r) = n /\ \A i \in 1..n : r[i] = f[s[i]]
  <2> HIDE DEF n, x, r, T
  <2>1. Mapped(f, s) \in Seq(T)
    BY <1>0, MappedType
  <2>2. /\ Len(Mapped(f, s)) = Len(s)
        /\ \A i \in 1..Len(s) : Mapped(f, s)[i] = f[s[i]]
    BY MappedValues
  <2> QED
    BY <2>1, <2>2 DEF n, r
<1>4. Mapped(f, <<m>> \o s) = <<x>> \o r
  <2> DEFINE first == <<m>>
             given == <<x>>
  <2>1. first \in Seq(S) /\ Len(first) = 1 /\ first[1] = m
    OBVIOUS
  <2>2. given \in Seq(T) /\ Len(given) = 1 /\ given[1] = x
    BY <1>1
  <2> HIDE DEF first, given
  <2> DEFINE t == first \o s
             u == given \o r
             v == Mapped(f, t)
  <2>3. /\ Len(t) = n + 1
        /\ \A i \in 1..(n + 1) : t[i] = IF i <= 1 THEN first[i] ELSE s[i - 1]
    <3>1. /\ Len(t) = Len(first) + n
          /\ \A i \in 1..(Len(first) + n) :
               t[i] = IF i <= Len(first) THEN first[i] ELSE s[i - Len(first)]
      BY <2>1, ConcatProperties
    <3>2. Len(first) + n = n + 1
      BY <1>1, <2>1
    <3> HIDE DEF t
    <3> QED
      BY <2>1, <3>1, <3>2
  <2>4. v = [i \in 1..(n + 1) |-> f[t[i]]]
    BY <2>3 DEF Mapped
  <2>5. /\ u \in Seq(T) /\ Len(u) = n + 1
        /\ \A i \in 1..(n + 1) : u[i] = IF i <= 1 THEN given[i] ELSE r[i - 1]
    <3>1. /\ u \in Seq(T) /\ Len(u) = Len(given) + Len(r)
          /\ \A i \in 1..(Len(given) + Len(r)) :
               u[i] = IF i <= Len(given) THEN given[i] ELSE r[i - Len(given)]
      <4>1. given \in Seq(T) /\ r \in Seq(T)
        BY <1>2, <2>2
      <4> HIDE DEF r
      <4> QED
        BY <4>1, ConcatProperties
    <3>2. Len(given) + Len(r) = n + 1
      BY <1>1, <1>2, <2>2
    <3> HIDE DEF u
    <3> QED
      BY <2>2, <3>1, <3>2
  <2>6. u = [i \in 1..(n + 1) |-> u[i]]
    <3> HIDE DEF u
    <3> QED
      BY <2>5, LenProperties
  <2> HIDE DEF t, u, v, n, r
  <2>7. \A i \in 1..(n + 1) : f[t[i]] = u[i]
    <3>1. ASSUME NEW i \in 1..(n + 1)
          PROVE  f[t[i]] = u[i]
      <4>1. CASE i = 1
        BY <2>1, <2>2, <2>3, <2>5, <4>1
      <4>2. CASE i # 1
        <5>1. ~(i <= 1) /\ i - 1 \in 1..n
          BY <1>1, <4>2
        <5> QED
          BY <1>2, <2>3, <2>5, <5>1
      <4> QED
        BY <4>1, <4>2
    <3> QED
      BY <3>1
  <2>8. v = u
    BY <2>4, <2>6, <2>7
  <2> QED
    BY <2>8 DEF t, u, v, first, given
<1> QED
  BY <1>4 DEF r, x

-----------------------------------------------------------------------------
(* The refinement mapping.                                                 *)

ResponseToClient == {m \in ServerMessage : m.type = "response"}
RequestToServer == {m \in ClientMessage : m.type = "request"}
Ticket == [id : Nat, method : Method]
TicketOf(m) == [id |-> m.id, method |-> m.method]

IdFunction == [m \in ResponseToClient |-> m.id]
TicketFunction == [m \in RequestToServer |-> TicketOf(m)]

(* Asked, of any list.                                                     *)
AskedIn(messages) ==
  LET requests == OfType(messages, "request")
  IN [i \in 1..Len(requests) |->
        [id |-> requests[i].id, method |-> requests[i].method]]

(* Their values.                                                           *)
LEMMA PartFunctions ==
  /\ IdFunction \in [ResponseToClient -> Nat]
  /\ TicketFunction \in [RequestToServer -> Ticket]
<1>1. ASSUME NEW m \in ResponseToClient
      PROVE  m.id \in Nat
  BY DEF ResponseToClient, ServerMessage, treeViewReady, telemetryError, Notification
<1>2. ASSUME NEW m \in RequestToServer
      PROVE  TicketOf(m) \in Ticket
  <2>1. \A method \in DocumentMethod : method \in Method
    BY DEF Method, Registered
  <2>2. m.id \in Nat /\ m.method \in Method
    <3>1. CASE m \in [type : {"request"}, id : Nat, method : DocumentMethod,
                      uri : ClientUri]
      BY <2>1, <3>1
    <3>2. CASE m \in [type : {"request"}, id : Nat, method : Method \ DocumentMethod]
      BY <3>2
    <3> QED
      BY <3>1, <3>2 DEF RequestToServer, ClientMessage
  <2> QED
    BY <2>2 DEF TicketOf, Ticket
<1> QED
  BY <1>1, <1>2 DEF IdFunction, TicketFunction

(* The ids of the responses in a list.                                     *)
LEMMA IdsMapped ==
  ASSUME NEW s \in Seq(ServerMessage)
  PROVE  /\ OfType(s, "response") \in Seq(ResponseToClient)
         /\ IdsOf(s) = Mapped(IdFunction, OfType(s, "response"))
<1> DEFINE r == OfType(s, "response")
<1>1. r \in Seq(ResponseToClient)
  <2>1. \A m \in ServerMessage : m.type = "response" => m \in ResponseToClient
    BY DEF ResponseToClient
  <2> QED
    BY <2>1, SiftedType
<1>2. IdsOf(s) = [i \in 1..Len(r) |-> r[i].id]
  BY DEF IdsOf
<1> HIDE DEF r
<1>3. \A i \in 1..Len(r) : IdFunction[r[i]] = r[i].id
  BY <1>1, ElementOfSeq DEF IdFunction
<1>4. IdsOf(s) = Mapped(IdFunction, r)
  BY <1>2, <1>3 DEF Mapped
<1> QED
  BY <1>1, <1>4 DEF r

(* The same for the requests.                                              *)
LEMMA AskedMapped ==
  ASSUME NEW s \in Seq(ClientMessage)
  PROVE  /\ OfType(s, "request") \in Seq(RequestToServer)
         /\ AskedIn(s) = Mapped(TicketFunction, OfType(s, "request"))
<1> DEFINE r == OfType(s, "request")
<1>1. r \in Seq(RequestToServer)
  <2>1. \A m \in ClientMessage : m.type = "request" => m \in RequestToServer
    BY DEF RequestToServer
  <2> QED
    BY <2>1, SiftedType
<1>2. AskedIn(s) = [i \in 1..Len(r) |-> TicketOf(r[i])]
  BY DEF AskedIn, TicketOf
<1> HIDE DEF r
<1>3. \A i \in 1..Len(r) : TicketFunction[r[i]] = TicketOf(r[i])
  BY <1>1, ElementOfSeq DEF TicketFunction
<1>4. AskedIn(s) = Mapped(TicketFunction, r)
  BY <1>2, <1>3 DEF Mapped
<1> QED
  BY <1>1, <1>4 DEF r

(* A message is added to the server's, or the first is taken.              *)
LEMMA IdsLists ==
  ASSUME NEW s \in Seq(ServerMessage), NEW m \in ServerMessage
  PROVE  /\ IdsOf(s) \in Seq(Nat)
         /\ IdsOf(Append(s, m)) =
              IF m.type = "response" THEN Append(IdsOf(s), m.id) ELSE IdsOf(s)
         /\ s # <<>> =>
              IdsOf(s) = IF Head(s).type = "response"
                           THEN <<Head(s).id>> \o IdsOf(Tail(s))
                           ELSE IdsOf(Tail(s))
<1> DEFINE of(list) == OfType(list, "response")
<1>1. /\ \A x \in ResponseToClient : IdFunction[x] \in Nat
      /\ \A x \in ServerMessage : x.type = "response" =>
           x \in ResponseToClient /\ IdFunction[x] = x.id
  BY PartFunctions DEF ResponseToClient, IdFunction
<1>2. of(s) \in Seq(ResponseToClient) /\ IdsOf(s) = Mapped(IdFunction, of(s))
  BY IdsMapped
<1>3. IdsOf(s) \in Seq(Nat)
  BY <1>1, <1>2, MappedType
<1>4. IdsOf(Append(s, m)) =
        IF m.type = "response" THEN Append(IdsOf(s), m.id) ELSE IdsOf(s)
  <2>1. Append(s, m) \in Seq(ServerMessage)
    BY AppendProperties
  <2>2. IdsOf(Append(s, m)) = Mapped(IdFunction, of(Append(s, m)))
    BY <2>1, IdsMapped
  <2>3. of(Append(s, m)) = IF m.type = "response" THEN Append(of(s), m) ELSE of(s)
    BY OfTypeAppend
  <2> DEFINE now == of(s)
  <2>4. CASE m.type = "response"
    <3>1. m \in ResponseToClient /\ IdFunction[m] = m.id
      BY <1>1, <2>4
    <3>2. now \in Seq(ResponseToClient)
      BY <1>2
    <3> HIDE DEF now
    <3>3. Mapped(IdFunction, Append(now, m)) =
            Append(Mapped(IdFunction, now), IdFunction[m])
      BY <1>1, <3>1, <3>2, MappedAppend
    <3> QED
      BY <1>2, <2>2, <2>3, <2>4, <3>1, <3>3 DEF now
  <2>5. CASE m.type # "response"
    BY <1>2, <2>2, <2>3, <2>5
  <2> QED
    BY <2>4, <2>5
<1>5. ASSUME s # <<>>
      PROVE  IdsOf(s) = IF Head(s).type = "response"
                           THEN <<Head(s).id>> \o IdsOf(Tail(s))
                           ELSE IdsOf(Tail(s))
  <2>1. Tail(s) \in Seq(ServerMessage) /\ Head(s) \in ServerMessage
    BY <1>5, HeadTailProperties
  <2>2. of(Tail(s)) \in Seq(ResponseToClient)
        /\ IdsOf(Tail(s)) = Mapped(IdFunction, of(Tail(s)))
    BY <2>1, IdsMapped
  <2>3. of(s) = IF Head(s).type = "response" THEN <<Head(s)>> \o of(Tail(s))
                                             ELSE of(Tail(s))
    BY <1>5, OfTypeTail
  <2> DEFINE rest == of(Tail(s))
             head == Head(s)
  <2>4. CASE head.type = "response"
    <3>1. head \in ResponseToClient /\ IdFunction[head] = head.id
      BY <1>1, <2>1, <2>4
    <3>2. rest \in Seq(ResponseToClient)
      BY <2>2
    <3> HIDE DEF rest, head
    <3>3. Mapped(IdFunction, <<head>> \o rest) =
            <<IdFunction[head]>> \o Mapped(IdFunction, rest)
      BY <1>1, <3>1, <3>2, MappedAhead
    <3> QED
      BY <1>2, <2>2, <2>3, <2>4, <3>1, <3>3 DEF rest, head
  <2>5. CASE head.type # "response"
    BY <1>2, <2>2, <2>3, <2>5
  <2> QED
    BY <2>4, <2>5
<1> QED
  BY <1>3, <1>4, <1>5

(* The same for the requests to the server.                                *)
LEMMA AskedLists ==
  ASSUME NEW s \in Seq(ClientMessage), NEW m \in ClientMessage
  PROVE  /\ AskedIn(s) \in Seq(Ticket)
         /\ AskedIn(Append(s, m)) =
              IF m.type = "request" THEN Append(AskedIn(s), TicketOf(m))
                                    ELSE AskedIn(s)
         /\ s # <<>> =>
              AskedIn(s) = IF Head(s).type = "request"
                             THEN <<TicketOf(Head(s))>> \o AskedIn(Tail(s))
                             ELSE AskedIn(Tail(s))
<1> DEFINE of(list) == OfType(list, "request")
<1>1. /\ \A x \in RequestToServer : TicketFunction[x] \in Ticket
      /\ \A x \in ClientMessage : x.type = "request" =>
           x \in RequestToServer /\ TicketFunction[x] = TicketOf(x)
  BY PartFunctions DEF RequestToServer, TicketFunction
<1>2. of(s) \in Seq(RequestToServer) /\ AskedIn(s) = Mapped(TicketFunction, of(s))
  BY AskedMapped
<1>3. AskedIn(s) \in Seq(Ticket)
  BY <1>1, <1>2, MappedType
<1>4. AskedIn(Append(s, m)) =
        IF m.type = "request" THEN Append(AskedIn(s), TicketOf(m)) ELSE AskedIn(s)
  <2>1. Append(s, m) \in Seq(ClientMessage)
    BY AppendProperties
  <2>2. AskedIn(Append(s, m)) = Mapped(TicketFunction, of(Append(s, m)))
    BY <2>1, AskedMapped
  <2>3. of(Append(s, m)) = IF m.type = "request" THEN Append(of(s), m) ELSE of(s)
    BY OfTypeAppend
  <2> DEFINE now == of(s)
  <2>4. CASE m.type = "request"
    <3>1. m \in RequestToServer /\ TicketFunction[m] = TicketOf(m)
      BY <1>1, <2>4
    <3>2. now \in Seq(RequestToServer)
      BY <1>2
    <3> HIDE DEF now
    <3>3. Mapped(TicketFunction, Append(now, m)) =
            Append(Mapped(TicketFunction, now), TicketFunction[m])
      BY <1>1, <3>1, <3>2, MappedAppend
    <3> QED
      BY <1>2, <2>2, <2>3, <2>4, <3>1, <3>3 DEF now
  <2>5. CASE m.type # "request"
    BY <1>2, <2>2, <2>3, <2>5
  <2> QED
    BY <2>4, <2>5
<1>5. ASSUME s # <<>>
      PROVE  AskedIn(s) = IF Head(s).type = "request"
                             THEN <<TicketOf(Head(s))>> \o AskedIn(Tail(s))
                             ELSE AskedIn(Tail(s))
  <2>1. Tail(s) \in Seq(ClientMessage) /\ Head(s) \in ClientMessage
    BY <1>5, HeadTailProperties
  <2>2. of(Tail(s)) \in Seq(RequestToServer)
        /\ AskedIn(Tail(s)) = Mapped(TicketFunction, of(Tail(s)))
    BY <2>1, AskedMapped
  <2>3. of(s) = IF Head(s).type = "request" THEN <<Head(s)>> \o of(Tail(s))
                                            ELSE of(Tail(s))
    BY <1>5, OfTypeTail
  <2> DEFINE rest == of(Tail(s))
             head == Head(s)
  <2>4. CASE head.type = "request"
    <3>1. head \in RequestToServer /\ TicketFunction[head] = TicketOf(head)
      BY <1>1, <2>1, <2>4
    <3>2. rest \in Seq(RequestToServer)
      BY <2>2
    <3> HIDE DEF rest, head
    <3>3. Mapped(TicketFunction, <<head>> \o rest) =
            <<TicketFunction[head]>> \o Mapped(TicketFunction, rest)
      BY <1>1, <3>1, <3>2, MappedAhead
    <3> QED
      BY <1>2, <2>2, <2>3, <2>4, <3>1, <3>3 DEF rest, head
  <2>5. CASE head.type # "request"
    BY <1>2, <2>2, <2>3, <2>5
  <2> QED
    BY <2>4, <2>5
<1> QED
  BY <1>3, <1>4, <1>5

-----------------------------------------------------------------------------
(* The messages between the server and the client: those in the channel,   *)
(* then those on the stack, from its top.                                  *)

(* A list that is turned round.                                            *)
LEMMA ReverseValues ==
  ASSUME NEW S, NEW s \in Seq(S)
  PROVE  /\ Reverse(s) \in Seq(S)
         /\ Len(Reverse(s)) = Len(s)
         /\ \A i \in 1..Len(s) : Reverse(s)[i] = s[(Len(s) - i) + 1]
<1> DEFINE n == Len(s)
           r == Reverse(s)
<1>1. n \in Nat /\ \A i \in 1..n : s[i] \in S
  BY LenProperties, ElementOfSeq
<1>2. r = [i \in 1..n |-> s[(n - i) + 1]]
  BY DEF Reverse
<1> HIDE DEF n, r
<1>3. \A i \in 1..n : (n - i) + 1 \in 1..n
  BY <1>1
<1>4. r \in [1..n -> S]
  BY <1>1, <1>2, <1>3
<1>5. r \in Seq(S)
  BY <1>1, <1>4, SeqDef
<1>6. Len(r) = n
  BY <1>1, <1>4, <1>5, LenProperties
<1> QED
  BY <1>2, <1>5, <1>6 DEF n, r

(* The stack without its top, and the top ahead of it.                     *)
LEMMA ReverseFront ==
  ASSUME NEW S, NEW s \in Seq(S), s # <<>>
  PROVE  /\ Front(s) \in Seq(S) /\ Last(s) \in S
         /\ Reverse(s) = <<Last(s)>> \o Reverse(Front(s))
<1> DEFINE n == Len(s)
           f == Front(s)
           top == <<Last(s)>>
           r == Reverse(f)
           both == top \o r
<1>1. n \in Nat /\ n # 0
  BY EmptySeq
<1>2. Last(s) = s[n] /\ s[n] \in S
  BY <1>1, ElementOfSeq DEF Last
<1>3. f \in Seq(S) /\ Len(f) = n - 1 /\ \A i \in 1..(n - 1) : f[i] = s[i]
  <2>1. \A i \in 1..(n - 1) : s[i] \in S
    BY <1>1, ElementOfSeq
  <2>2. f = SubSeq(s, 1, n - 1)
    BY DEF Front
  <2> HIDE DEF f, n
  <2>3. 1 \in Int /\ n - 1 \in Int
    BY <1>1
  <2>4. /\ f \in Seq(S)
        /\ Len(f) = IF 1 <= n - 1 THEN (n - 1) - 1 + 1 ELSE 0
        /\ \A i \in 1..((n - 1) - 1 + 1) : f[i] = s[1 + i - 1]
    BY <2>1, <2>2, <2>3, SubSeqProperties
  <2> QED
    BY <1>1, <2>4
<1>4. top \in Seq(S) /\ Len(top) = 1 /\ top[1] = s[n]
  <2> HIDE DEF n
  <2> QED
    BY <1>2
<1> HIDE DEF n, f, top
<1>5. /\ r \in Seq(S) /\ Len(r) = n - 1
      /\ \A i \in 1..(n - 1) : r[i] = f[((n - 1) - i) + 1]
  BY <1>3, ReverseValues
<1> HIDE DEF r
<1>6. /\ both \in Seq(S) /\ Len(both) = n
      /\ \A i \in 1..n : both[i] = IF i <= 1 THEN top[i] ELSE r[i - 1]
  <2>1. /\ both \in Seq(S) /\ Len(both) = Len(top) + Len(r)
        /\ \A i \in 1..(Len(top) + Len(r)) :
             both[i] = IF i <= Len(top) THEN top[i] ELSE r[i - Len(top)]
    BY <1>4, <1>5, ConcatProperties
  <2>2. Len(top) + Len(r) = n
    BY <1>1, <1>4, <1>5
  <2> HIDE DEF both
  <2> QED
    BY <1>4, <2>1, <2>2
<1> HIDE DEF both
<1>7. ASSUME NEW i \in 1..n
      PROVE  both[i] = s[(n - i) + 1]
  <2>1. CASE i = 1
    <3>1. (n - i) + 1 = n
      BY <1>1, <2>1
    <3> QED
      BY <1>4, <1>6, <2>1, <3>1
  <2>2. CASE i # 1
    <3> DEFINE j == ((n - 1) - (i - 1)) + 1
    <3>1. ~(i <= 1) /\ i - 1 \in 1..(n - 1) /\ j \in 1..(n - 1) /\ j = (n - i) + 1
      BY <1>1, <2>2
    <3> QED
      BY <1>3, <1>5, <1>6, <3>1
  <2> QED
    BY <2>1, <2>2
<1>8. /\ Reverse(s) \in Seq(S) /\ Len(Reverse(s)) = n
      /\ \A i \in 1..n : Reverse(s)[i] = s[(n - i) + 1]
  BY ReverseValues DEF n
<1>9. Reverse(s) = both
  BY <1>6, <1>7, <1>8, SeqEqual
<1> QED
  BY <1>2, <1>3, <1>9 DEF both, top, r, f

(* Messages pushed on an empty stack.                                      *)
LEMMA DownPushed ==
  ASSUME NEW S, NEW c \in Seq(S), NEW x \in S, NEW y \in S
  PROVE  /\ c \o Reverse(<<>>) = c
         /\ c \o Reverse(<<x>>) = Append(c, x)
         /\ c \o Reverse(<<y, x>>) = Append(Append(c, x), y)
<1>1. /\ <<x>> \in Seq(S) /\ Len(<<x>>) = 1 /\ <<x>>[1] = x
      /\ <<y>> \in Seq(S) /\ Len(<<y>>) = 1 /\ <<y>>[1] = y
      /\ <<y, x>> \in Seq(S) /\ Len(<<y, x>>) = 2
      /\ <<y, x>>[1] = y /\ <<y, x>>[2] = x
  OBVIOUS
<1>2. Reverse(<<>>) = <<>>
  <2>1. <<>> \in Seq(S) /\ Len(<<>>) = 0
    BY EmptySeq
  <2>2. Reverse(<<>>) \in Seq(S) /\ Len(Reverse(<<>>)) = 0
    BY <2>1, ReverseValues
  <2> QED
    BY <2>2, EmptySeq
<1>3. Reverse(<<x>>) = <<x>>
  <2> DEFINE one == <<x>>
  <2> HIDE DEF one
  <2>1. /\ Reverse(one) \in Seq(S) /\ Len(Reverse(one)) = 1
        /\ \A i \in 1..1 : Reverse(one)[i] = one[(1 - i) + 1]
    BY <1>1, ReverseValues DEF one
  <2>2. \A i \in 1..1 : Reverse(one)[i] = one[i]
    BY <2>1
  <2>3. one \in Seq(S) /\ Len(one) = 1
    BY <1>1 DEF one
  <2>4. Reverse(one) = one
    BY <2>1, <2>2, <2>3, SeqEqual
  <2> QED
    BY <2>4 DEF one
<1>4. Reverse(<<y, x>>) = <<x>> \o <<y>>
  <2> DEFINE two == <<y, x>>
             turned == <<x>> \o <<y>>
  <2>1. /\ turned \in Seq(S) /\ Len(turned) = 2
        /\ \A i \in 1..2 : turned[i] = IF i <= 1 THEN <<x>>[i] ELSE <<y>>[i - 1]
    BY <1>1, ConcatProperties
  <2> HIDE DEF two, turned
  <2>2. /\ Reverse(two) \in Seq(S) /\ Len(Reverse(two)) = 2
        /\ \A i \in 1..2 : Reverse(two)[i] = two[(2 - i) + 1]
    BY <1>1, ReverseValues DEF two
  <2>3. turned[1] = x /\ turned[2] = y
    BY <1>1, <2>1
  <2>4. Reverse(two)[1] = two[2] /\ Reverse(two)[2] = two[1]
    BY <2>2
  <2>5. two[1] = y /\ two[2] = x
    BY <1>1 DEF two
  <2>6. \A i \in 1..2 : Reverse(two)[i] = turned[i]
    BY <2>3, <2>4, <2>5
  <2>7. Reverse(two) = turned
    BY <2>1, <2>2, <2>6, SeqEqual
  <2> QED
    BY <2>7 DEF two, turned
<1>5. c \o <<>> = c
  BY ConcatEmptySeq
<1>6. c \o <<x>> = Append(c, x)
  BY AppendIsConcat
<1>7. c \o (<<x>> \o <<y>>) = Append(Append(c, x), y)
  <2>1. (c \o <<x>>) \o <<y>> = c \o (<<x>> \o <<y>>)
    BY <1>1, ConcatAssociative
  <2>2. Append(c, x) \in Seq(S)
    BY AppendProperties
  <2>3. Append(c, x) \o <<y>> = Append(Append(c, x), y)
    BY <2>2, AppendIsConcat
  <2> QED
    BY <1>6, <2>1, <2>3
<1> QED
  BY <1>2, <1>3, <1>4, <1>5, <1>6, <1>7

(* Writing a message leaves them as they are.                              *)
LEMMA DownWritten ==
  ASSUME NEW S, NEW c \in Seq(S), NEW s \in Seq(S), s # <<>>
  PROVE  Append(c, Last(s)) \o Reverse(Front(s)) = c \o Reverse(s)
<1> DEFINE top == <<Last(s)>>
           rest == Reverse(Front(s))
<1>1. /\ Front(s) \in Seq(S) /\ Last(s) \in S
      /\ Reverse(s) = top \o rest
  BY ReverseFront
<1>2. top \in Seq(S)
  BY <1>1
<1>3. rest \in Seq(S)
  BY <1>1, ReverseValues
<1>4. Append(c, Last(s)) = c \o top
  BY <1>1, AppendIsConcat
<1> HIDE DEF top, rest
<1>5. (c \o top) \o rest = c \o (top \o rest)
  BY <1>2, <1>3, ConcatAssociative
<1> QED
  BY <1>1, <1>4, <1>5 DEF rest

(* The client takes the first.                                             *)
LEMMA DownReceived ==
  ASSUME NEW S, NEW c \in Seq(S), NEW r \in Seq(S), c # <<>>
  PROVE  /\ c \o r \in Seq(S) /\ c \o r # <<>>
         /\ Head(c \o r) = Head(c)
         /\ Tail(c \o r) = Tail(c) \o r
<1> DEFINE n == Len(c)
           k == Len(r)
           all == c \o r
           rest == Tail(c) \o r
<1>1. n \in Nat /\ n # 0 /\ k \in Nat
  BY EmptySeq
<1>2. /\ all \in Seq(S) /\ Len(all) = n + k
      /\ \A i \in 1..(n + k) : all[i] = IF i <= n THEN c[i] ELSE r[i - n]
  BY ConcatProperties
<1>3. all # <<>>
  <2> HIDE DEF n, k, all
  <2>1. Len(all) # 0
    BY <1>1, <1>2
  <2> QED
    BY <2>1, EmptySeq
<1>4. Head(c) = c[1] /\ Head(all) = all[1]
  BY <1>2, <1>3
<1>5. /\ Tail(c) \in Seq(S) /\ Len(Tail(c)) = n - 1
      /\ \A i \in 1..(n - 1) : Tail(c)[i] = c[i + 1]
  BY HeadTailProperties
<1>6. /\ rest \in Seq(S) /\ Len(rest) = (n - 1) + k
      /\ \A i \in 1..((n - 1) + k) :
           rest[i] = IF i <= n - 1 THEN Tail(c)[i] ELSE r[i - (n - 1)]
  BY <1>5, ConcatProperties
<1> HIDE DEF all, rest
<1>7. /\ Tail(all) \in Seq(S) /\ Len(Tail(all)) = (n + k) - 1
      /\ \A i \in 1..((n + k) - 1) : Tail(all)[i] = all[i + 1]
  BY <1>2, <1>3, HeadTailProperties
<1> HIDE DEF n, k
<1>8. ASSUME NEW i \in 1..((n + k) - 1)
      PROVE  Tail(all)[i] = rest[i]
  <2>1. /\ i \in 1..((n - 1) + k) /\ i + 1 \in 1..(n + k)
        /\ i + 1 <= n <=> i <= n - 1
        /\ (i + 1) - n = i - (n - 1)
    BY <1>1
  <2>2. i <= n - 1 => i \in 1..(n - 1)
    BY <1>1
  <2>3. CASE i <= n - 1
    BY <1>2, <1>5, <1>6, <1>7, <2>1, <2>2, <2>3
  <2>4. CASE ~(i <= n - 1)
    BY <1>2, <1>6, <1>7, <2>1, <2>4
  <2> QED
    BY <2>3, <2>4
<1>9. Tail(all) = rest
  <2>1. (n - 1) + k = (n + k) - 1
    BY <1>1
  <2> QED
    BY <1>6, <1>7, <1>8, <2>1, SeqEqual
<1>10. Head(all) = Head(c)
  BY <1>1, <1>2, <1>4
<1> QED
  BY <1>2, <1>3, <1>9, <1>10 DEF all, rest

-----------------------------------------------------------------------------
(* The refinement mapping, and how the steps change it.                    *)

Waiting == AskedIn(toServer)
Given == answered \o IdsOf(toClient \o Reverse(sendStack))

(* The mapping is that of LanguageService.                                 *)
LEMMA Mapping == Asked = Waiting
BY DEF Asked, Waiting, AskedIn

(* An element ahead of a list is its head.                                 *)
LEMMA HeadAhead ==
  ASSUME NEW S, NEW s \in Seq(S), NEW x \in S
  PROVE  /\ <<x>> \o s # <<>>
         /\ Head(<<x>> \o s) = x
         /\ Tail(<<x>> \o s) = s
<1> DEFINE one == <<x>>
<1>1. one \in Seq(S) /\ one # <<>> /\ Head(one) = x /\ Tail(one) = <<>>
  OBVIOUS
<1> HIDE DEF one
<1>2. /\ one \o s # <<>> /\ Head(one \o s) = Head(one)
      /\ Tail(one \o s) = Tail(one) \o s
  BY <1>1, DownReceived
<1>3. <<>> \o s = s
  BY ConcatEmptySeq
<1> QED
  BY <1>1, <1>2, <1>3 DEF one

(* What TypeInv says of the lists.                                         *)
LEMMA ListTypes ==
  ASSUME TypeInv
  PROVE  /\ toServer \in Seq(ClientMessage)
         /\ toClient \in Seq(ServerMessage)
         /\ sendStack \in Seq(ServerMessage)
         /\ answered \in Seq(Nat)
         /\ toClient \o Reverse(sendStack) \in Seq(ServerMessage)
         /\ IdsOf(toClient \o Reverse(sendStack)) \in Seq(Nat)
         /\ Waiting \in Seq(Ticket)
         /\ Given \in Seq(Nat)
<1>1. /\ toServer \in Seq(ClientMessage) /\ toClient \in Seq(ServerMessage)
      /\ sendStack \in Seq(ServerMessage) /\ answered \in Seq(Nat)
  BY DEF TypeInv, ClientTypeOK, ExchangeNow, Exchange
<1> DEFINE down == toClient \o Reverse(sendStack)
<1>2. down \in Seq(ServerMessage)
  BY <1>1, ReverseValues, ConcatProperties
<1> HIDE DEF down
<1>3. IdsOf(down) \in Seq(Nat)
  BY <1>2, ServerMessages, IdsLists
<1>4. Given \in Seq(Nat)
  BY <1>1, <1>3, ConcatProperties DEF Given, down
<1>5. Waiting \in Seq(Ticket)
  <2>1. Notification("exit") \in ClientMessage
    BY ClientMessages
  <2> QED
    BY <1>1, <2>1, AskedLists DEF Waiting
<1> QED
  BY <1>1, <1>2, <1>3, <1>4, <1>5 DEF down

(* Reading a request takes it off the waiting ones.                        *)
LEMMA ReadWaiting ==
  ASSUME TypeInv, NEW m, Read(m)
  PROVE  IF m.type = "request"
           THEN /\ Waiting # <<>>
                /\ Head(Waiting) = TicketOf(m)
                /\ Waiting' = Tail(Waiting)
           ELSE Waiting' = Waiting
<1>1. /\ toServer # <<>> /\ m = Head(toServer) /\ toServer' = Tail(toServer)
      /\ m \in ClientMessage
  BY ReadType
<1>2. toServer \in Seq(ClientMessage)
  BY ListTypes
<1>3. Waiting = IF m.type = "request" THEN <<TicketOf(m)>> \o Waiting'
                                      ELSE Waiting'
  BY <1>1, <1>2, AskedLists DEF Waiting
<1>4. CASE m.type = "request"
  <2>1. Tail(toServer) \in Seq(ClientMessage)
    BY <1>1, <1>2, HeadTailProperties
  <2>2. Waiting' \in Seq(Ticket)
    BY <1>1, <2>1, AskedLists DEF Waiting
  <2>3. TicketOf(m) \in Ticket
    <3>1. m \in RequestToServer
      BY <1>1, <1>4 DEF RequestToServer
    <3> QED
      BY <3>1, PartFunctions DEF TicketFunction
  <2> DEFINE rest == Waiting'
  <2> HIDE DEF rest
  <2>4. LET all == <<TicketOf(m)>> \o rest
        IN all # <<>> /\ Head(all) = TicketOf(m) /\ Tail(all) = rest
    BY <2>2, <2>3, HeadAhead DEF rest
  <2>5. Waiting = <<TicketOf(m)>> \o rest
    BY <1>3, <1>4 DEF rest
  <2> QED
    BY <1>4, <2>4, <2>5 DEF rest
<1>5. CASE m.type # "request"
  BY <1>3, <1>5
<1> QED
  BY <1>4, <1>5

(* A request that is sent is the last one waiting; nothing else that is    *)
(* sent waits.                                                             *)
LEMMA SentWaiting ==
  ASSUME TypeInv, NEW m \in ClientMessage, Send(m)
  PROVE  Waiting' = IF m.type = "request" THEN Append(Waiting, TicketOf(m))
                                          ELSE Waiting
<1>1. toServer \in Seq(ClientMessage) /\ toServer' = Append(toServer, m)
  BY ListTypes DEF Send
<1> QED
  BY <1>1, AskedLists DEF Waiting

(* Pushing on the empty stack gives the answer that is pushed.             *)
LEMMA PushGiven ==
  ASSUME TypeInv, sendStack = <<>>,
         UNCHANGED <<toClient, answered>>,
         NEW x \in ServerMessage,
         NEW y \in ServerMessage, y.type # "response"
  PROVE  /\ sendStack' = sendStack \o <<>> => Given' = Given
         /\ sendStack' = sendStack \o <<x>> \/ sendStack' = sendStack \o <<y, x>> =>
              Given' = IF x.type = "response" THEN Append(Given, x.id) ELSE Given
<1>1. toClient \in Seq(ServerMessage) /\ answered \in Seq(Nat)
  BY ListTypes
<1> DEFINE c == toClient
           ids == IdsOf(c)
<1>2. /\ c \o Reverse(<<>>) = c
      /\ c \o Reverse(<<x>>) = Append(c, x)
      /\ c \o Reverse(<<y, x>>) = Append(Append(c, x), y)
  BY <1>1, DownPushed
<1>3. /\ <<>> \o <<>> = <<>>
      /\ <<>> \o <<x>> = <<x>>
      /\ <<>> \o <<y, x>> = <<y, x>>
  <2>1. /\ <<>> \in Seq(ServerMessage) /\ <<x>> \in Seq(ServerMessage)
        /\ <<y, x>> \in Seq(ServerMessage)
    OBVIOUS
  <2> QED
    BY <2>1, ConcatEmptySeq
<1>4. /\ ids \in Seq(Nat)
      /\ IdsOf(Append(c, x)) = IF x.type = "response" THEN Append(ids, x.id) ELSE ids
  BY <1>1, IdsLists
<1>5. IdsOf(Append(Append(c, x), y)) = IdsOf(Append(c, x))
  <2>1. Append(c, x) \in Seq(ServerMessage)
    BY <1>1, AppendProperties
  <2> QED
    BY <2>1, IdsLists
<1>6. Given = answered \o ids
  BY <1>2 DEF Given
<1>7. x.type = "response" =>
        answered \o Append(ids, x.id) = Append(answered \o ids, x.id)
  <2> SUFFICES ASSUME x.type = "response"
               PROVE  answered \o Append(ids, x.id) = Append(answered \o ids, x.id)
    OBVIOUS
  <2> HIDE DEF ids
  <2>1. x.id \in Nat
    BY DEF ServerMessage, treeViewReady, telemetryError, Notification
  <2>2. <<x.id>> \in Seq(Nat)
    BY <2>1
  <2>3. (answered \o ids) \o <<x.id>> = answered \o (ids \o <<x.id>>)
    BY <1>1, <1>4, <2>2, ConcatAssociative
  <2>4. answered \o ids \in Seq(Nat)
    BY <1>1, <1>4, ConcatProperties
  <2> QED
    BY <1>4, <2>1, <2>3, <2>4, AppendIsConcat
<1> DEFINE next == answered \o IdsOf(c \o Reverse(sendStack'))
<1>8. Given' = next
  BY DEF Given
<1> HIDE DEF next
<1>9. sendStack' = sendStack \o <<>> => next = Given
  BY <1>2, <1>3, <1>6 DEF next
<1>10. ASSUME sendStack' = sendStack \o <<x>> \/ sendStack' = sendStack \o <<y, x>>
       PROVE  next = IF x.type = "response" THEN Append(Given, x.id) ELSE Given
  <2>1. IdsOf(c \o Reverse(sendStack')) = IdsOf(Append(c, x))
    BY <1>2, <1>3, <1>5, <1>10
  <2>2. next = answered \o IdsOf(Append(c, x))
    BY <2>1 DEF next
  <2> HIDE DEF ids
  <2> QED
    BY <1>4, <1>6, <1>7, <2>2
<1> QED
  BY <1>8, <1>9, <1>10

-----------------------------------------------------------------------------
(* What a step does to the requests and their answers.                     *)

ReadsWithEmptyStack == pc = "read" => sendStack = <<>>

Quiet ==
  /\ UNCHANGED <<Waiting, Given, asked>>
  /\ pc' = "crashed" <=> pc = "crashed"

Asks(method) ==
  /\ Waiting' = Append(Waiting, [id |-> asked, method |-> method])
  /\ asked' = asked + 1
  /\ UNCHANGED Given
  /\ pc' = "crashed" <=> pc = "crashed"

Takes ==
  /\ pc # "crashed"
  /\ Waiting # <<>>
  /\ Waiting' = Tail(Waiting)
  /\ UNCHANGED asked

Answers ==
  /\ Takes
  /\ Head(Waiting).method \in Registered
  /\ Given' = Append(Given, Head(Waiting).id)
  /\ pc' # "crashed"

Ignores ==
  /\ Takes
  /\ Head(Waiting).method \notin Registered
  /\ UNCHANGED Given
  /\ pc' # "crashed"

Crashes ==
  /\ pc # "crashed"
  /\ pc' = "crashed"
  /\ UNCHANGED <<Given, asked>>
  /\ Waiting' = Waiting \/ Takes

(* What holds of every message that is read.                               *)
LEMMA ReadKeeps ==
  ASSUME TypeInv, ReadsWithEmptyStack, NEW m, Read(m)
  PROVE  /\ pc = "read" /\ sendStack = <<>>
         /\ UNCHANGED <<toClient, answered, asked>>
         /\ m.type = "request" =>
              Takes /\ Head(Waiting).id = m.id /\ Head(Waiting).method = m.method
         /\ m.type # "request" => Waiting' = Waiting
         /\ sendStack' = sendStack => Given' = Given
<1>1. pc = "read" /\ sendStack = <<>> /\ UNCHANGED <<toClient, answered, asked>>
  BY DEF ReadsWithEmptyStack, Read, clientVars
<1>2. m.type = "request" =>
        Takes /\ Head(Waiting).id = m.id /\ Head(Waiting).method = m.method
  BY <1>1, ReadWaiting DEF Takes, TicketOf
<1>3. m.type # "request" => Waiting' = Waiting
  BY ReadWaiting
<1>4. sendStack' = sendStack => Given' = Given
  BY <1>1 DEF Given
<1> QED
  BY <1>1, <1>2, <1>3, <1>4

(* Requests of the server are pushed, or nothing is.                       *)
LEMMA PushQuiet ==
  ASSUME TypeInv, ReadsWithEmptyStack, NEW m, Read(m), m.type # "request",
         \/ Push(<<>>)
         \/ \E x \in ServerMessage : x.type # "response" /\ Push(<<x>>)
         \/ \E x, y \in ServerMessage :
              x.type # "response" /\ y.type # "response" /\ Push(<<y, x>>)
  PROVE  Quiet
<1>1. /\ pc = "read" /\ sendStack = <<>>
      /\ UNCHANGED <<toClient, answered, asked, Waiting>>
  BY ReadKeeps
<1>2. treeViewReady \in ServerMessage /\ treeViewReady.type # "response"
  BY ServerMessages
<1>3. CASE Push(<<>>)
  <2>1. Given' = Given
    BY <1>1, <1>2, <1>3, PushGiven DEF Push
  <2> QED
    BY <1>1, <1>3, <2>1 DEF Quiet, Push
<1>4. ASSUME NEW x \in ServerMessage, x.type # "response", Push(<<x>>)
      PROVE  Quiet
  <2>1. Given' = Given
    BY <1>1, <1>2, <1>4, PushGiven DEF Push
  <2> QED
    BY <1>1, <1>4, <2>1 DEF Quiet, Push
<1>5. ASSUME NEW x \in ServerMessage, NEW y \in ServerMessage,
             x.type # "response", y.type # "response", Push(<<y, x>>)
      PROVE  Quiet
  <2>1. Given' = Given
    BY <1>1, <1>5, PushGiven DEF Push
  <2> QED
    BY <1>1, <1>5, <2>1 DEF Quiet, Push
<1> QED
  BY <1>3, <1>4, <1>5

(* The exception that ends the process.                                    *)
LEMMA CrashCrashes ==
  ASSUME TypeInv, ReadsWithEmptyStack, NEW m, Read(m), Crash
  PROVE  Crashes
<1>1. /\ pc = "read" /\ UNCHANGED asked
      /\ sendStack' = sendStack => Given' = Given
      /\ Waiting' = Waiting \/ Takes
  BY ReadKeeps
<1> QED
  BY <1>1 DEF Crash, Crashes

(* A request with a callback.                                              *)
LEMMA RequestKind ==
  ASSUME TypeInv, ReadsWithEmptyStack, NEW m, Read(m),
         request_initialize_shutdown(m) \/ request_document(m)
  PROVE  Answers \/ Crashes
<1>1. m.type = "request" /\ m.method \in Registered
  BY DEF request_initialize_shutdown, request_document, Registered
<1>2. /\ pc = "read" /\ sendStack = <<>>
      /\ UNCHANGED <<toClient, answered>>
      /\ Takes /\ Head(Waiting).id = m.id /\ Head(Waiting).method = m.method
  BY <1>1, ReadKeeps
<1> DEFINE response == VoidResponse(m.id)
<1>3. /\ response \in ServerMessage /\ response.type = "response"
      /\ response.id = m.id
      /\ telemetryError \in ServerMessage /\ telemetryError.type # "response"
  <2>1. m.id \in Nat
    BY <1>1, ReadType, ClientMessageParts
  <2> QED
    BY <2>1, ServerMessages DEF VoidResponse
<1>4. \/ Push(<<response>>)
      \/ Push(<<telemetryError, response>>)
      \/ Crash
  BY DEF request_initialize_shutdown, request_document
<1> HIDE DEF response
<1>5. CASE Push(<<response>>) \/ Push(<<telemetryError, response>>)
  <2>1. Given' = Append(Given, response.id)
    BY <1>2, <1>3, <1>5, PushGiven DEF Push
  <2>2. pc' # "crashed"
    BY <1>5 DEF Push
  <2> QED
    BY <1>1, <1>2, <1>3, <2>1, <2>2 DEF Answers
<1>6. CASE Crash
  BY <1>6, CrashCrashes
<1> QED
  BY <1>4, <1>5, <1>6

(* The server's requests, and the responses to them.                       *)
LEMMA ServerRequestKind ==
  ASSUME TypeInv, ReadsWithEmptyStack, NEW m, Read(m),
         \/ notification_initialized(m)
         \/ notification_workspace_didChangeConfiguration(m)
         \/ response_workspace_configuration(m)
         \/ response_workspace_workspaceFolders(m)
         \/ response_void(m)
  PROVE  Quiet \/ Crashes
<1>1. m.type # "request"
  BY DEF notification_initialized, notification_workspace_didChangeConfiguration,
         response_workspace_configuration, response_workspace_workspaceFolders,
         response_void, Awaited
<1>2. \A id \in Nat, method \in ServerMethod :
        /\ Request(id, method) \in ServerMessage
        /\ Request(id, method).type # "response"
  BY ServerMessages DEF Request
<1>3. nextId \in Nat /\ nextId + 1 \in Nat
  BY ReadType
<1>4. treeViewReady \in ServerMessage /\ treeViewReady.type # "response"
  BY ServerMessages
<1> DEFINE folders == Request(nextId, "workspace/workspaceFolders")
           first == Request(nextId, "workspace/configuration")
           second == Request(nextId + 1, "workspace/configuration")
           capability == Request(nextId, "client/registerCapability")
<1>5. /\ folders \in ServerMessage /\ folders.type # "response"
      /\ first \in ServerMessage /\ first.type # "response"
      /\ second \in ServerMessage /\ second.type # "response"
      /\ capability \in ServerMessage /\ capability.type # "response"
  BY <1>2, <1>3 DEF ServerMethod
<1>6. \/ Push(<<>>) \/ Crash
      \/ Push(<<folders, second>>)
      \/ Push(<<first>>)
      \/ Push(<<treeViewReady, capability>>)
  BY DEF notification_initialized, notification_workspace_didChangeConfiguration,
         response_workspace_configuration, response_workspace_workspaceFolders,
         response_void
<1> HIDE DEF folders, first, second, capability
<1>7. Crash \/ \/ Push(<<>>)
               \/ \E x \in ServerMessage : x.type # "response" /\ Push(<<x>>)
               \/ \E x, y \in ServerMessage :
                    x.type # "response" /\ y.type # "response" /\ Push(<<y, x>>)
  BY <1>4, <1>5, <1>6
<1> QED
  BY <1>1, <1>7, PushQuiet, CrashCrashes

(* exit, and what no callback is found for.                                *)
LEMMA NothingPushedKind ==
  ASSUME TypeInv, ReadsWithEmptyStack, NEW m, Read(m),
         notification_exit(m) \/ badEntity(m)
  PROVE  Quiet \/ Ignores
<1>1. /\ pc = "read" /\ UNCHANGED asked
      /\ m.type = "request" => Takes /\ Head(Waiting).method = m.method
      /\ m.type # "request" => Waiting' = Waiting
      /\ sendStack' = sendStack => Given' = Given
  BY ReadKeeps
<1>2. pc' \in {"read", "stopped"} /\ sendStack' = sendStack
  BY <1>1 DEF notification_exit, badEntity, serverVars
<1>3. m.type = "request" => m.method \notin Registered
  BY DEF notification_exit, badEntity
<1> QED
  BY <1>1, <1>2, <1>3 DEF Quiet, Ignores

(* writeAllMessages.                                                       *)
LEMMA WriteKind ==
  ASSUME TypeInv, WriteMessage \/ WriteDone
  PROVE  Quiet
<1>1. /\ pc # "crashed" /\ pc' # "crashed"
      /\ UNCHANGED <<toServer, asked, answered>>
  BY DEF WriteMessage, WriteDone, clientVars
<1>2. toClient' \o Reverse(sendStack') = toClient \o Reverse(sendStack)
  <2>1. toClient \in Seq(ServerMessage) /\ sendStack \in Seq(ServerMessage)
    BY ListTypes
  <2>2. CASE WriteMessage
    BY <2>1, <2>2, DownWritten DEF WriteMessage
  <2>3. CASE WriteDone
    BY <2>3 DEF WriteDone
  <2> QED
    BY <2>2, <2>3
<1> QED
  BY <1>1, <1>2 DEF Quiet, Waiting, Given

(* The ids are below the number of requests asked, so that the next id is  *)
(* fresh, and that number is bounded.                                      *)
PhaseInv ==
  /\ phase = "start" => asked = 0
  /\ phase \in {"initializing", "running"} => asked <= MaxRequests + 1

IdsBelow ==
  /\ \A i \in 1..Len(Waiting) : Waiting[i].id < asked
  /\ \A i \in 1..Len(Given) : Given[i] < asked

SerialInv == ReadsWithEmptyStack /\ PhaseInv /\ IdsBelow

(* The client asks.                                                        *)
LEMMA AskKind ==
  ASSUME TypeInv, PhaseInv, ClientInitialize \/ ClientRequest \/ ClientShutdown
  PROVE  /\ asked \in 0..(MaxRequests + 1)
         /\ \E method \in Method : Asks(method)
<1>1. asked \in Nat /\ MaxRequests \in Nat
  BY ServiceAssumption DEF TypeInv, ClientTypeOK
<1>2. asked \in 0..(MaxRequests + 1)
  <2>1. asked <= MaxRequests + 1
    <3>1. CASE ClientInitialize
      BY <1>1, <3>1 DEF ClientInitialize, PhaseInv
    <3>2. CASE ClientRequest
      BY <1>1, <3>2 DEF ClientRequest
    <3>3. CASE ClientShutdown
      BY <3>3 DEF ClientShutdown, PhaseInv
    <3> QED
      BY <3>1, <3>2, <3>3
  <2> QED
    BY <1>1, <2>1
<1>3. PICK m \in ClientMessage : /\ m.type = "request" /\ m.id = asked
                                 /\ m.method \in Method /\ Ask(m)
  <2>1. CASE ClientInitialize
    BY <1>1, <2>1, ClientMessages
       DEF ClientInitialize, Request, Method, Registered
  <2>2. CASE ClientRequest
    BY <1>1, <2>2, ClientMessages
       DEF ClientRequest, Request, DocumentRequest, Method, Registered
  <2>3. CASE ClientShutdown
    BY <1>1, <2>3, ClientMessages
       DEF ClientShutdown, Request, Method, Registered
  <2> QED
    BY <2>1, <2>2, <2>3
<1>4. UNCHANGED <<pc, sendStack, toClient, answered>>
  BY DEF ClientInitialize, ClientRequest, ClientShutdown, serverVars
<1>5. Waiting' = Append(Waiting, TicketOf(m)) /\ asked' = asked + 1
  BY <1>3, SentWaiting DEF Ask
<1>6. Given' = Given
  BY <1>4 DEF Given
<1>7. Asks(m.method)
  BY <1>3, <1>4, <1>5, <1>6 DEF Asks, TicketOf
<1> QED
  BY <1>2, <1>3, <1>7

(* The client sends something else.                                        *)
LEMMA SentKind ==
  ASSUME TypeInv, ClientAnswer \/ ClientChange \/ ClientOther
  PROVE  Quiet
<1>1. /\ UNCHANGED <<pc, sendStack, toClient, answered, asked>>
  BY DEF ClientAnswer, ClientChange, ClientOther, serverVars, clientVars
<1>2. \/ toServer' = toServer
      \/ \E m \in ClientMessage : m.type # "request" /\ Send(m)
  <2>1. CASE ClientAnswer
    <3>1. \A id \in Nat, value \in Setting \cup {"unusable"} :
            /\ SettingResponse(id, value) \in ClientMessage
            /\ SettingResponse(id, value).type # "request"
      BY ClientMessages DEF SettingResponse
    <3>2. \A id \in Nat, folders \in FolderLists :
            /\ FoldersResponse(id, folders) \in ClientMessage
            /\ FoldersResponse(id, folders).type # "request"
      BY ClientMessages DEF FoldersResponse
    <3>3. \A id \in Nat : VoidResponse(id) \in ClientMessage
                          /\ VoidResponse(id).type # "request"
      BY ClientMessages DEF VoidResponse
    <3>4. \A n \in toAnswer : n.id \in Nat
      BY ServerRequests DEF TypeInv, ExchangeNow, Exchange
    <3>5. clientSetting \in Setting
      BY DEF TypeInv, ClientTypeOK
    <3>6. PICK n \in toAnswer :
            \/ \E value \in {clientSetting, "unusable"} :
                 Send(SettingResponse(n.id, value))
            \/ \E folders \in FolderLists : Send(FoldersResponse(n.id, folders))
            \/ Send(VoidResponse(n.id))
      BY <2>1 DEF ClientAnswer
    <3> QED
      BY <3>1, <3>2, <3>3, <3>4, <3>5, <3>6
  <2>2. CASE ClientChange
    BY <2>2, ClientMessages DEF ClientChange, Notification
  <2>3. CASE ClientOther
    BY <2>3, ClientMessages DEF ClientOther, Notification
  <2> QED
    BY <2>1, <2>2, <2>3
<1>3. Waiting' = Waiting
  BY <1>2, SentWaiting DEF Waiting
<1>4. Given' = Given
  BY <1>1 DEF Given
<1> QED
  BY <1>1, <1>3, <1>4 DEF Quiet

(* The client receives: a response goes from the channel to those it got.  *)
LEMMA ReceiveKind ==
  ASSUME TypeInv, ClientReceive
  PROVE  Quiet
<1> DEFINE m == Head(toClient)
           rev == Reverse(sendStack)
           down == toClient \o rev
<1>1. /\ toClient # <<>> /\ toClient' = Tail(toClient)
      /\ UNCHANGED <<pc, sendStack, asked>>
  BY DEF ClientReceive, serverVars
<1>2. /\ toClient \in Seq(ServerMessage) /\ answered \in Seq(Nat)
      /\ rev \in Seq(ServerMessage)
  BY ListTypes, ReverseValues
<1>3. m \in ServerMessage
  BY <1>1, <1>2, HeadTailProperties
<1>4. \/ ClientResponse(m)
      \/ m.type # "response" /\ UNCHANGED <<answered, toServer>>
  BY DEF ClientReceive
<1>5. Waiting' = Waiting
  <2>1. \/ toServer' = toServer
        \/ \E method \in {"initialized", "exit"} : Send(Notification(method))
    BY <1>4 DEF ClientResponse
  <2>2. ASSUME NEW method \in {"initialized", "exit"}, Send(Notification(method))
        PROVE  Waiting' = Waiting
    <3>1. Notification(method) \in ClientMessage
          /\ Notification(method).type # "request"
      BY ClientMessages DEF Notification
    <3> QED
      BY <2>2, <3>1, SentWaiting
  <2> QED
    BY <2>1, <2>2 DEF Waiting
<1>6. Given' = Given
  <2> HIDE DEF rev
  <2>1. /\ down \in Seq(ServerMessage) /\ down # <<>>
        /\ Head(down) = m /\ Tail(down) = Tail(toClient) \o rev
    BY <1>1, <1>2, DownReceived
  <2>2. Tail(down) \in Seq(ServerMessage)
    BY <2>1, HeadTailProperties
  <2> DEFINE ids == IdsOf(Tail(down))
  <2>3. /\ ids \in Seq(Nat)
        /\ IdsOf(down) = IF m.type = "response" THEN <<m.id>> \o ids ELSE ids
    <3> HIDE DEF down, m
    <3> QED
      BY <1>3, <2>1, <2>2, IdsLists
  <2>4. Given = answered \o IdsOf(down)
    BY DEF Given, rev
  <2>5. Given' = answered' \o ids
    <3>1. Given' = answered' \o IdsOf(toClient' \o Reverse(sendStack'))
      BY DEF Given
    <3> QED
      BY <1>1, <2>1, <3>1 DEF rev
  <2> HIDE DEF ids, down, m
  <2>6. CASE ClientResponse(m)
    <3>1. m.type = "response" /\ answered' = Append(answered, m.id)
      BY <2>6 DEF ClientResponse
    <3>2. m.id \in Nat
      BY <1>3, <3>1 DEF ServerMessage, treeViewReady, telemetryError, Notification
    <3> DEFINE one == <<m.id>>
    <3>3. one \in Seq(Nat)
      BY <3>2
    <3>4. Append(answered, m.id) = answered \o one
      BY <1>2, <3>2, AppendIsConcat
    <3> HIDE DEF one
    <3>5. (answered \o one) \o ids = answered \o (one \o ids)
      <4>1. answered \in Seq(Nat) /\ ids \in Seq(Nat)
        BY <1>2, <2>3
      <4> QED
        BY <3>3, <4>1, ConcatAssociative
    <3> QED
      BY <2>3, <2>4, <2>5, <3>1, <3>4, <3>5 DEF one
  <2>7. CASE m.type # "response" /\ UNCHANGED <<answered, toServer>>
    BY <2>3, <2>4, <2>5, <2>7
  <2> QED
    BY <1>4, <2>6, <2>7 DEF m
<1> QED
  BY <1>1, <1>5, <1>6 DEF Quiet

(* Every step is of one of these kinds.                                    *)
LEMMA NextKind ==
  ASSUME TypeInv, ReadsWithEmptyStack, PhaseInv, [Next]_vars
  PROVE  \/ Quiet \/ Answers \/ Ignores \/ Crashes
         \/ /\ asked \in 0..(MaxRequests + 1)
            /\ \E method \in Method : Asks(method)
<1>1. ASSUME NEW m, Read(m), \/ notification_initialized(m)
                             \/ notification_workspace_didChangeConfiguration(m)
                             \/ notification_exit(m)
                             \/ request_initialize_shutdown(m)
                             \/ request_document(m)
                             \/ response_workspace_configuration(m)
                             \/ response_workspace_workspaceFolders(m)
                             \/ response_void(m)
                             \/ badEntity(m)
      PROVE  Quiet \/ Answers \/ Ignores \/ Crashes
  BY <1>1, RequestKind, ServerRequestKind, NothingPushedKind
<1>2. CASE Server
  BY <1>1, <1>2, WriteKind DEF Server
<1>3. CASE Client
  BY <1>3, AskKind, SentKind, ReceiveKind DEF Client
<1>4. CASE UNCHANGED vars
  BY <1>4 DEF vars, serverVars, clientVars, Quiet, Waiting, Given
<1> QED
  BY <1>2, <1>3, <1>4 DEF Next

-----------------------------------------------------------------------------
(* The inductive invariant.                                                *)

(* At first nothing is asked.                                              *)
LEMMA InitSerialInv ==
  ASSUME Init
  PROVE  /\ SerialInv
         /\ Waiting = <<>> /\ Given = <<>>
<1> DEFINE none == <<>>
<1>1. /\ none \in Seq(ServerMessage) /\ none \in Seq(ClientMessage)
      /\ none \in Seq(Nat) /\ Len(none) = 0
  BY EmptySeq
<1>2. treeViewReady \in ServerMessage
  BY ServerMessages
<1>3. /\ toServer = none /\ toClient = none /\ sendStack = none
      /\ answered = none /\ asked = 0 /\ phase = "start"
  BY DEF Init
<1>4. none \o Reverse(none) = none
  BY <1>1, <1>2, DownPushed
<1>5. OfType(none, "response") = none /\ OfType(none, "request") = none
  BY OfTypeEmpty
<1>6. Waiting = none
  <2>1. Waiting = Mapped(TicketFunction, none)
    BY <1>1, <1>3, <1>5, AskedMapped DEF Waiting
  <2>2. /\ none \in Seq(RequestToServer)
        /\ \A x \in RequestToServer : TicketFunction[x] \in Ticket
    BY EmptySeq, PartFunctions
  <2>3. Len(Mapped(TicketFunction, none)) = Len(none)
    BY <2>2, MappedValues
  <2>4. Mapped(TicketFunction, none) \in Seq(Ticket)
    BY <2>2, MappedType
  <2> HIDE DEF none
  <2> QED
    BY <1>1, <2>1, <2>3, <2>4, EmptySeq DEF none
<1>7. IdsOf(none) = none
  <2>1. IdsOf(none) = Mapped(IdFunction, none)
    BY <1>1, <1>5, IdsMapped
  <2>2. /\ none \in Seq(ResponseToClient)
        /\ \A x \in ResponseToClient : IdFunction[x] \in Nat
    BY EmptySeq, PartFunctions
  <2>3. Len(Mapped(IdFunction, none)) = Len(none)
    BY <2>2, MappedValues
  <2>4. Mapped(IdFunction, none) \in Seq(Nat)
    BY <2>2, MappedType
  <2> HIDE DEF none
  <2> QED
    BY <1>1, <2>1, <2>3, <2>4, EmptySeq DEF none
<1>8. Given = none
  <2>1. none \o none = none
    BY <1>1, ConcatEmptySeq
  <2> HIDE DEF none
  <2> QED
    BY <1>3, <1>4, <1>7, <2>1 DEF Given
<1>9. IdsBelow
  <2>1. Len(Waiting) = 0 /\ Len(Given) = 0
    BY <1>1, <1>6, <1>8
  <2> QED
    BY <2>1 DEF IdsBelow
<1>10. PhaseInv /\ ReadsWithEmptyStack
  <2>1. MaxRequests \in Nat
    BY ServiceAssumption
  <2> QED
    BY <1>3, <2>1 DEF PhaseInv, ReadsWithEmptyStack
<1> QED
  BY <1>6, <1>8, <1>9, <1>10 DEF SerialInv

(* It reads only when the stack is written.                                *)
LEMMA NextReadsWithEmptyStack ==
  ASSUME ReadsWithEmptyStack, [Next]_vars
  PROVE  ReadsWithEmptyStack'
<1>1. ASSUME NEW m, Read(m), \/ notification_initialized(m)
                             \/ notification_workspace_didChangeConfiguration(m)
                             \/ notification_exit(m)
                             \/ request_initialize_shutdown(m)
                             \/ request_document(m)
                             \/ response_workspace_configuration(m)
                             \/ response_workspace_workspaceFolders(m)
                             \/ response_void(m)
      PROVE  pc' # "read"
  BY <1>1 DEF notification_initialized,
     notification_workspace_didChangeConfiguration, notification_exit,
     request_initialize_shutdown, request_document,
     response_workspace_configuration, response_workspace_workspaceFolders,
     response_void, Push, Crash
<1>2. ASSUME NEW m, badEntity(m)
      PROVE  UNCHANGED <<pc, sendStack>>
  BY <1>2 DEF badEntity, serverVars
<1>3. CASE Server
  <2>1. CASE WriteMessage
    BY <2>1 DEF WriteMessage, ReadsWithEmptyStack
  <2>2. CASE WriteDone
    BY <2>2 DEF WriteDone, ReadsWithEmptyStack
  <2> QED
    BY <1>1, <1>2, <1>3, <2>1, <2>2 DEF Server, ReadsWithEmptyStack
<1>4. CASE Client \/ UNCHANGED vars
  <2>1. UNCHANGED serverVars
    BY <1>4 DEF Client, ClientInitialize, ClientRequest, ClientShutdown,
       ClientReceive, ClientAnswer, ClientChange, ClientOther, vars
  <2> QED
    BY <2>1 DEF serverVars, ReadsWithEmptyStack
<1> QED
  BY <1>3, <1>4 DEF Next

(* The client asks in its phases.                                          *)
LEMMA NextPhaseInv ==
  ASSUME TypeInv, PhaseInv, [Next]_vars
  PROVE  PhaseInv'
<1>1. asked \in Nat /\ MaxRequests \in Nat
  BY ServiceAssumption DEF TypeInv, ClientTypeOK
<1>2. CASE ClientInitialize
  BY <1>1, <1>2 DEF ClientInitialize, Ask, PhaseInv
<1>3. CASE ClientRequest
  <2>1. phase = "running" /\ phase' = phase /\ asked <= MaxRequests
        /\ asked' = asked + 1
    BY <1>3 DEF ClientRequest, Ask
  <2> QED
    BY <1>1, <2>1 DEF PhaseInv
<1>4. CASE ClientShutdown
  BY <1>4 DEF ClientShutdown, PhaseInv
<1>5. CASE ClientReceive
  <2>1. asked' = asked
    BY <1>5 DEF ClientReceive
  <2>2. \/ phase' = phase
        \/ phase = "initializing" /\ phase' = "running"
        \/ phase' = "exited"
    BY <1>5 DEF ClientReceive, ClientResponse
  <2> QED
    BY <2>1, <2>2 DEF PhaseInv
<1>6. CASE Server \/ ClientAnswer \/ ClientChange \/ ClientOther \/ UNCHANGED vars
  <2>1. UNCHANGED <<phase, asked>>
    BY <1>6 DEF Server, Read, WriteMessage, WriteDone, clientVars, ClientAnswer,
       ClientChange, ClientOther, vars
  <2> QED
    BY <2>1 DEF PhaseInv
<1> QED
  BY <1>2, <1>3, <1>4, <1>5, <1>6 DEF Next, Client

(* The ids stay below.                                                     *)
LEMMA NextIdsBelow ==
  ASSUME TypeInv, SerialInv, [Next]_vars
  PROVE  IdsBelow'
<1>1. asked \in Nat /\ Waiting \in Seq(Ticket) /\ Given \in Seq(Nat)
  BY ListTypes DEF TypeInv, ClientTypeOK
<1> DEFINE Below(list, n) == \A i \in 1..Len(list) : list[i].id < n
           Numbers(list, n) == \A i \in 1..Len(list) : list[i] < n
<1>3. Below(Waiting, asked) /\ Numbers(Given, asked)
  BY DEF SerialInv, IdsBelow
<1>4. ASSUME Takes
      PROVE  /\ Below(Waiting', asked')
             /\ Head(Waiting).id \in Nat /\ Head(Waiting).id < asked
  <2>1. Waiting # <<>> /\ Waiting' = Tail(Waiting) /\ asked' = asked
    BY <1>4 DEF Takes
  <2>2. /\ Len(Waiting') = Len(Waiting) - 1
        /\ \A i \in 1..Len(Waiting') : Waiting'[i] = Waiting[i + 1]
    BY <1>1, <2>1, HeadTailProperties
  <2>3. Len(Waiting) \in Nat \ {0}
    BY <1>1, <2>1, EmptySeq
  <2>4. Head(Waiting) = Waiting[1] /\ Head(Waiting) \in Ticket
    BY <1>1, <2>1, HeadTailProperties
  <2>5. \A i \in 1..(Len(Waiting) - 1) : i + 1 \in 1..Len(Waiting)
    BY <2>3
  <2>6. 1 \in 1..Len(Waiting)
    BY <2>3
  <2> QED
    BY <1>3, <2>1, <2>2, <2>4, <2>5, <2>6 DEF Ticket
<1>5. CASE Quiet
  BY <1>3, <1>5 DEF Quiet, IdsBelow
<1>6. ASSUME NEW method \in Method, Asks(method)
      PROVE  IdsBelow'
  <2> DEFINE t == [id |-> asked, method |-> method]
  <2>1. t \in Ticket /\ t.id = asked
    BY <1>1 DEF Ticket
  <2> HIDE DEF t
  <2>2. Waiting' = Append(Waiting, t) /\ asked' = asked + 1 /\ Given' = Given
    BY <1>6 DEF Asks, t
  <2>3. /\ Len(Waiting') = Len(Waiting) + 1 /\ Len(Waiting) \in Nat
        /\ \A i \in 1..Len(Waiting) : Waiting'[i] = Waiting[i]
        /\ Waiting'[Len(Waiting) + 1] = t
    BY <1>1, <2>1, <2>2, AppendProperties, LenProperties
  <2>4. ASSUME NEW i \in 1..Len(Waiting')
        PROVE  Waiting'[i].id < asked'
    <3>1. CASE i = Len(Waiting) + 1
      BY <1>1, <2>1, <2>2, <2>3, <3>1
    <3>2. CASE i # Len(Waiting) + 1
      <4>1. i \in 1..Len(Waiting)
        BY <2>3, <3>2
      <4>2. Waiting[i] \in Ticket
        BY <1>1, <4>1, ElementOfSeq
      <4>3. Waiting[i].id < asked /\ Waiting[i].id \in Nat
        BY <1>3, <4>1, <4>2 DEF Ticket
      <4> QED
        BY <1>1, <2>2, <2>3, <4>1, <4>3
    <3> QED
      BY <3>1, <3>2
  <2>5. ASSUME NEW i \in 1..Len(Given')
        PROVE  Given'[i] < asked'
    <3>1. Given[i] < asked /\ Given[i] \in Nat
      BY <1>1, <1>3, <2>2, ElementOfSeq
    <3> QED
      BY <1>1, <2>2, <3>1
  <2> QED
    BY <2>4, <2>5 DEF IdsBelow
<1>7. CASE Answers
  <2>1. /\ Takes /\ Given' = Append(Given, Head(Waiting).id) /\ asked' = asked
    BY <1>7 DEF Answers, Takes
  <2>2. Head(Waiting).id \in Nat /\ Head(Waiting).id < asked
    BY <1>4, <2>1
  <2>3. /\ Len(Given') = Len(Given) + 1 /\ Len(Given) \in Nat
        /\ \A i \in 1..Len(Given) : Given'[i] = Given[i]
        /\ Given'[Len(Given) + 1] = Head(Waiting).id
    BY <1>1, <2>1, <2>2, AppendProperties, LenProperties
  <2>4. \A i \in 1..Len(Given') : i \in 1..Len(Given) \/ i = Len(Given) + 1
    BY <2>3
  <2>5. Numbers(Given', asked')
    BY <1>3, <2>1, <2>2, <2>3, <2>4
  <2> QED
    BY <1>4, <2>1, <2>5 DEF IdsBelow
<1>8. CASE Ignores
  BY <1>3, <1>4, <1>8 DEF Ignores, Takes, IdsBelow
<1>9. CASE Crashes
  BY <1>3, <1>4, <1>9 DEF Crashes, IdsBelow
<1> QED
  BY <1>5, <1>6, <1>7, <1>8, <1>9, NextKind DEF SerialInv

(* Together.                                                               *)
LEMMA SerialInvInvariant == Spec => [](TypeInv /\ SerialInv)
<1>1. Init => TypeInv /\ SerialInv
  BY InitTypeInv, InitSerialInv
<1>2. TypeInv /\ SerialInv /\ [Next]_vars => (TypeInv /\ SerialInv)'
  BY NextTypeInv, NextReadsWithEmptyStack, NextPhaseInv, NextIdsBelow
     DEF SerialInv
<1> QED
  BY <1>1, <1>2, PTL DEF Spec

-----------------------------------------------------------------------------
(* The refinement.                                                         *)

(* Every step is one of the abstract specification's, or is none to it.    *)
LEMMA NextSerial ==
  ASSUME TypeInv, SerialInv, [Next]_vars
  PROVE  [Serial!Next]_(Serial!vars)
<1>1. Asked = Waiting /\ Asked' = Waiting'
  BY DEF Asked, Waiting, AskedIn
<1>2. CASE Quiet
  BY <1>1, <1>2 DEF Quiet, Serial!vars, Given
<1>3. ASSUME asked \in 0..(MaxRequests + 1), NEW method \in Method, Asks(method)
      PROVE  Serial!Next
  <2>1. asked \in Nat /\ Waiting \in Seq(Ticket) /\ Given \in Seq(Nat)
    BY ListTypes DEF TypeInv, ClientTypeOK
  <2>2. ASSUME NEW i \in 1..Len(Waiting)
        PROVE  Waiting[i].id # asked
    <3>1. Waiting[i] \in Ticket
      BY <2>1, ElementOfSeq
    <3>2. Waiting[i].id < asked /\ Waiting[i].id \in Nat
      BY <3>1 DEF SerialInv, IdsBelow, Ticket
    <3> QED
      BY <2>1, <3>2
  <2>3. ASSUME NEW i \in 1..Len(Given)
        PROVE  Given[i] # asked
    <3>1. Given[i] < asked /\ Given[i] \in Nat
      BY <2>1, ElementOfSeq DEF SerialInv, IdsBelow
    <3> QED
      BY <2>1, <3>1
  <2>4. Serial!Fresh(asked)
    BY <1>1, <2>2, <2>3 DEF Serial!Fresh, Given
  <2>5. Serial!Ask(asked, method)
    BY <1>1, <1>3, <2>4 DEF Serial!Ask, Asks, Given
  <2> QED
    BY <1>3, <2>5 DEF Serial!Next
<1>4. CASE Answers
  BY <1>1, <1>4 DEF Answers, Takes, Given, Serial!Next, Serial!Answer, Serial!Take
<1>5. CASE Ignores
  BY <1>1, <1>5 DEF Ignores, Takes, Given, Serial!Next, Serial!Ignore, Serial!Take
<1>6. CASE Crashes
  BY <1>1, <1>6 DEF Crashes, Takes, Given, Serial!Next, Serial!Crash
<1> QED
  BY <1>2, <1>3, <1>4, <1>5, <1>6, NextKind DEF SerialInv

(* Requests are answered once each and in the order in which they were     *)
(* asked, though the messages to send are kept on a stack and written last *)
(* first, the client asks several requests ahead, and the server sends     *)
(* requests of its own meanwhile (run, ioHandler.cpp: writeAllMessages).   *)
THEOREM SerialImplemented == Spec => SerialAnswers
<1>1. Init => Serial!Init
  <2> SUFFICES ASSUME Init
               PROVE  Serial!Init
    OBVIOUS
  <2>1. Waiting = <<>> /\ Given = <<>> /\ pc # "crashed"
    BY InitSerialInv DEF Init
  <2> QED
    BY <2>1, Mapping DEF Serial!Init, Given
<1>2. TypeInv /\ SerialInv /\ [Next]_vars => [Serial!Next]_(Serial!vars)
  BY NextSerial
<1> QED
  BY <1>1, <1>2, SerialInvInvariant, PTL DEF Spec, SerialAnswers, Serial!Spec
=============================================================================
