----------------------- MODULE LanguageServiceProofs -----------------------
(***************************************************************************)
(* Proofs about LanguageService, for any files, folders, methods and       *)
(* bounds.                                                                 *)
(***************************************************************************)
EXTENDS LanguageService, SequenceTheorems, FiniteSetTheorems,
        WellFoundedInduction, TLAPS

-----------------------------------------------------------------------------
(* Lists of messages.                                                      *)

(* Where messages of a set M are in a list, and how many there are; and    *)
(* are all of them in a set P?                                             *)
Places(s, M) == {i \in 1..Len(s) : s[i] \in M}
Count(s, M) == Cardinality(Places(s, M))
All(s, M, P) == \A i \in Places(s, M) : s[i] \in P

(* A count is a number, and 0 when there are none.                         *)
LEMMA CountType ==
  ASSUME NEW S, NEW s \in Seq(S), NEW M
  PROVE  /\ IsFiniteSet(Places(s, M))
         /\ Count(s, M) \in Nat
         /\ Count(s, M) = 0 <=> Places(s, M) = {}
<1>1. Len(s) \in Nat
  BY LenProperties
<1>2. IsFiniteSet(1..Len(s))
  BY <1>1, FS_Interval
<1>3. IsFiniteSet(Places(s, M))
  BY <1>2, FS_Subset DEF Places
<1> QED
  BY <1>3, FS_CardinalityType, FS_EmptySet DEF Count

(* The counts of an empty list.                                            *)
LEMMA CountEmpty ==
  ASSUME NEW M
  PROVE  Count(<<>>, M) = 0
<1>1. Places(<<>>, M) = {}
  BY EmptySeq DEF Places
<1> QED
  BY <1>1, FS_EmptySet DEF Count

(* A message is added.                                                     *)
LEMMA AppendToList ==
  ASSUME NEW S, NEW s \in Seq(S), NEW m \in S, NEW M, NEW P
  PROVE  /\ Append(s, m) \in Seq(S)
         /\ Count(Append(s, m), M) = Count(s, M) + (IF m \in M THEN 1 ELSE 0)
         /\ All(Append(s, m), M, P) <=> All(s, M, P) /\ (m \in M => m \in P)
<1> DEFINE n == Len(s)
           t == Append(s, m)
<1>1. /\ t \in Seq(S) /\ n \in Nat /\ Len(t) = n + 1
      /\ \A i \in 1..n : t[i] = s[i]
      /\ t[n + 1] = m
  BY AppendProperties, LenProperties
<1> HIDE DEF n, t
<1>2. /\ Places(s, M) = {i \in 1..n : s[i] \in M}
      /\ Places(t, M) = {i \in 1..(n + 1) : t[i] \in M}
  BY <1>1 DEF Places, n
<1>3. \A i : i \in 1..(n + 1) <=> i \in 1..n \/ i = n + 1
  BY <1>1
<1>4. n + 1 \notin 1..n
  BY <1>1
<1>5. CASE m \in M
  <2>1. Places(t, M) = Places(s, M) \cup {n + 1} /\ n + 1 \notin Places(s, M)
    BY <1>1, <1>2, <1>3, <1>4, <1>5
  <2>2. Count(t, M) = Count(s, M) + 1
    BY <2>1, CountType, FS_AddElement DEF Count
  <2>3. All(t, M, P) <=> All(s, M, P) /\ m \in P
    BY <1>1, <1>2, <2>1 DEF All
  <2> QED
    BY <1>1, <1>5, <2>2, <2>3 DEF t
<1>6. CASE m \notin M
  <2>1. Places(t, M) = Places(s, M)
    BY <1>1, <1>2, <1>3, <1>6
  <2>2. Count(t, M) = Count(s, M) /\ Count(s, M) \in Nat
    BY <2>1, CountType DEF Count
  <2>3. All(t, M, P) <=> All(s, M, P)
    BY <1>1, <1>2, <2>1 DEF All
  <2> QED
    BY <1>1, <1>6, <2>2, <2>3 DEF t
<1> QED
  BY <1>5, <1>6

(* The last message is taken off.                                          *)
LEMMA FrontOfList ==
  ASSUME NEW S, NEW s \in Seq(S), s # <<>>, NEW M, NEW P
  PROVE  /\ Front(s) \in Seq(S)
         /\ Last(s) \in S
         /\ Count(s, M) = Count(Front(s), M) + (IF Last(s) \in M THEN 1 ELSE 0)
         /\ All(s, M, P) <=> All(Front(s), M, P) /\ (Last(s) \in M => Last(s) \in P)
<1> DEFINE n == Len(s) - 1
<1>1. n \in Nat /\ Len(s) = n + 1
  BY EmptySeq
<1>2. \A i \in 1..(n + 1) : s[i] \in S
  BY <1>1, ElementOfSeq
<1>3. Front(s) = SubSeq(s, 1, n) /\ Last(s) = s[n + 1]
  BY <1>1 DEF Front, Last
<1> HIDE DEF n
<1>4. /\ SubSeq(s, 1, n) \in Seq(S)
      /\ Len(SubSeq(s, 1, n)) = IF 1 <= n THEN n - 1 + 1 ELSE 0
      /\ \A i \in 1..(n - 1 + 1) : SubSeq(s, 1, n)[i] = s[1 + i - 1]
  <2>1. \A i \in 1..n : s[i] \in S
    BY <1>1, <1>2
  <2> QED
    BY <1>1, <2>1, SubSeqProperties
<1>5. /\ Front(s) \in Seq(S) /\ Last(s) \in S
      /\ Len(Front(s)) = n
      /\ \A i \in 1..n : Front(s)[i] = s[i]
  BY <1>1, <1>2, <1>3, <1>4
<1>6. Append(Front(s), Last(s)) = s
  <2> DEFINE t == Append(Front(s), Last(s))
  <2>1. /\ t \in Seq(S) /\ Len(t) = n + 1
        /\ \A i \in 1..n : t[i] = s[i]
        /\ t[n + 1] = s[n + 1]
    BY <1>3, <1>5, AppendProperties
  <2>2. \A i \in 1..(n + 1) : i \in 1..n \/ i = n + 1
    BY <1>1
  <2> HIDE DEF t
  <2>3. t = s
    BY <1>1, <2>1, <2>2, SeqEqual
  <2> QED
    BY <2>3 DEF t
<1> DEFINE front == Front(s)
           last == Last(s)
<1>7. front \in Seq(S) /\ last \in S /\ Append(front, last) = s
  BY <1>5, <1>6
<1> HIDE DEF front, last
<1>8. /\ Count(Append(front, last), M) = Count(front, M) + (IF last \in M THEN 1 ELSE 0)
      /\ All(Append(front, last), M, P) <=> All(front, M, P) /\ (last \in M => last \in P)
  BY <1>7, AppendToList
<1> QED
  BY <1>7, <1>8 DEF front, last

(* The first message is taken off.                                         *)
LEMMA TailOfList ==
  ASSUME NEW S, NEW s \in Seq(S), s # <<>>, NEW M, NEW P
  PROVE  /\ Tail(s) \in Seq(S)
         /\ Head(s) \in S
         /\ Count(s, M) = Count(Tail(s), M) + (IF Head(s) \in M THEN 1 ELSE 0)
         /\ All(s, M, P) <=> All(Tail(s), M, P) /\ (Head(s) \in M => Head(s) \in P)
<1> DEFINE n == Len(s) - 1
           t == Tail(s)
<1>1. /\ n \in Nat /\ Len(s) = n + 1
      /\ t \in Seq(S) /\ Len(t) = n
      /\ Head(s) \in S
      /\ \A i \in 1..n : t[i] = s[i + 1]
      /\ Head(s) = s[1]
  BY EmptySeq, HeadTailProperties
<1> HIDE DEF n, t
<1>2. /\ Places(s, M) = {i \in 1..(n + 1) : s[i] \in M}
      /\ Places(t, M) = {i \in 1..n : t[i] \in M}
  BY <1>1 DEF Places
<1> DEFINE rest == Places(s, M) \ {1}
           f == [i \in Places(t, M) |-> i + 1]
<1>3. \A i \in 1..n : i + 1 \in 2..(n + 1)
  BY <1>1
<1>4. \A j \in 2..(n + 1) : j - 1 \in 1..n /\ (j - 1) + 1 = j
  BY <1>1
<1>5. \A j : j \in rest <=> j \in 2..(n + 1) /\ s[j] \in M
  BY <1>1, <1>2
<1>6. f \in Bijection(Places(t, M), rest)
  <2>1. \A i \in Places(t, M) : i + 1 \in rest
    BY <1>1, <1>2, <1>3, <1>5
  <2>2. \A i, j \in Places(t, M) : i + 1 = j + 1 => i = j
    BY <1>2
  <2>3. \A j \in rest : \E i \in Places(t, M) : i + 1 = j
    <3>1. ASSUME NEW j \in rest
          PROVE  \E i \in Places(t, M) : i + 1 = j
      <4>1. j - 1 \in 1..n /\ (j - 1) + 1 = j /\ s[j] \in M
        BY <1>4, <1>5
      <4>2. t[j - 1] = s[j]
        BY <1>1, <4>1
      <4> QED
        BY <1>2, <4>1, <4>2
    <3> QED
      BY <3>1
  <2> HIDE DEF rest
  <2> QED
    BY <2>1, <2>2, <2>3 DEF Bijection, Injection, Surjection, IsInjective
<1> HIDE DEF f
<1>7. Cardinality(rest) = Count(t, M) /\ IsFiniteSet(rest)
  <2>1. ExistsBijection(Places(t, M), rest)
    BY <1>6 DEF ExistsBijection
  <2>2. IsFiniteSet(Places(t, M))
    BY <1>1, CountType
  <2> HIDE DEF rest
  <2> QED
    BY <2>1, <2>2, FS_Bijection DEF Count
<1>8. 1 \in Places(s, M) <=> Head(s) \in M
  BY <1>1, <1>2
<1>9. Count(s, M) = Count(t, M) + (IF Head(s) \in M THEN 1 ELSE 0)
  <2>1. IsFiniteSet(Places(s, M)) /\ Count(s, M) \in Nat /\ Count(t, M) \in Nat
    BY <1>1, CountType
  <2>2. Cardinality(rest) = IF 1 \in Places(s, M) THEN Count(s, M) - 1 ELSE Count(s, M)
    BY <2>1, FS_RemoveElement DEF Count
  <2> HIDE DEF rest
  <2> QED
    BY <1>7, <1>8, <2>1, <2>2
<1>10. All(s, M, P) <=> All(t, M, P) /\ (Head(s) \in M => Head(s) \in P)
  <2>1. All(t, M, P) <=> \A j \in rest : s[j] \in P
    <3>1. All(t, M, P) <=> \A i \in Places(t, M) : s[i + 1] \in P
      BY <1>1, <1>2 DEF All
    <3>2. \A i \in Places(t, M) : i + 1 \in rest
      BY <1>1, <1>2, <1>3, <1>5
    <3>3. \A j \in rest : j - 1 \in Places(t, M) /\ (j - 1) + 1 = j
      BY <1>1, <1>2, <1>4, <1>5
    <3> HIDE DEF rest
    <3> QED
      BY <3>1, <3>2, <3>3
  <2>2. \A i : i \in Places(s, M) <=> i \in rest \/ (i = 1 /\ Head(s) \in M)
    BY <1>8
  <2> HIDE DEF rest
  <2> QED
    BY <1>1, <2>1, <2>2 DEF All
<1> QED
  BY <1>1, <1>9, <1>10 DEF t

(* The same for the counts alone, and for what all messages are.           *)
LEMMA CountAppend ==
  ASSUME NEW S, NEW s \in Seq(S), NEW m \in S, NEW M
  PROVE  Count(Append(s, m), M) = Count(s, M) + (IF m \in M THEN 1 ELSE 0)
<1>1. \A P : Count(Append(s, m), M) = Count(s, M) + (IF m \in M THEN 1 ELSE 0)
  BY AppendToList
<1> QED
  BY <1>1

(* The messages of a list with one more at its end.                        *)
LEMMA AllAppend ==
  ASSUME NEW S, NEW s \in Seq(S), NEW m \in S, NEW M, NEW P
  PROVE  All(Append(s, m), M, P) <=> All(s, M, P) /\ (m \in M => m \in P)
BY AppendToList

(* The messages of a list without its last.                                *)
LEMMA CountFront ==
  ASSUME NEW S, NEW s \in Seq(S), s # <<>>, NEW M
  PROVE  Count(s, M) = Count(Front(s), M) + (IF Last(s) \in M THEN 1 ELSE 0)
<1>1. \A P : Count(s, M) = Count(Front(s), M) + (IF Last(s) \in M THEN 1 ELSE 0)
  BY FrontOfList
<1> QED
  BY <1>1

(* The messages of a list without its last.                                *)
LEMMA AllFront ==
  ASSUME NEW S, NEW s \in Seq(S), s # <<>>, NEW M, NEW P
  PROVE  All(s, M, P) <=> All(Front(s), M, P) /\ (Last(s) \in M => Last(s) \in P)
BY FrontOfList

(* The messages of a list without its first.                               *)
LEMMA CountTail ==
  ASSUME NEW S, NEW s \in Seq(S), s # <<>>, NEW M
  PROVE  Count(s, M) = Count(Tail(s), M) + (IF Head(s) \in M THEN 1 ELSE 0)
<1>1. \A P : Count(s, M) = Count(Tail(s), M) + (IF Head(s) \in M THEN 1 ELSE 0)
  BY TailOfList
<1> QED
  BY <1>1

(* The messages of a list without its first.                               *)
LEMMA AllTail ==
  ASSUME NEW S, NEW s \in Seq(S), s # <<>>, NEW M, NEW P
  PROVE  All(s, M, P) <=> All(Tail(s), M, P) /\ (Head(s) \in M => Head(s) \in P)
BY TailOfList

-----------------------------------------------------------------------------
(* The exchange of the server's requests and the client's responses.       *)

RequestsOf(id) == {m \in ServerMessage : m.type = "request" /\ m.id = id}
ResponsesOf(id) == {m \in ClientMessage : m.type = "response" /\ m.id = id}
Asking(method) == {m \in ServerMessage : m.method = method}
Fitting(method) == {m \in ClientMessage : Fits(m, method)}
Held(held, id) == {m \in held : m.id = id}
ServerRequest == [type : {"request"}, id : Nat, method : ServerMethod]

(* What CallbackPerRequest says of one id, used by the server or not, in   *)
(* any part of a step: of the messages to send, those to the client, those *)
(* it has to answer, those to the server and the callbacks.                *)
OnePerCallback(stack, down, held, up, callbacks, id) ==
  /\ Count(stack, RequestsOf(id)) + Count(down, RequestsOf(id))
       + Cardinality(Held(held, id)) + Count(up, ResponsesOf(id))
       = IF id \in DOMAIN callbacks THEN 1 ELSE 0
  /\ id \in DOMAIN callbacks =>
       /\ All(stack, RequestsOf(id), Asking(callbacks[id]))
       /\ All(down, RequestsOf(id), Asking(callbacks[id]))
       /\ Held(held, id) \subseteq Asking(callbacks[id])
       /\ All(up, ResponsesOf(id), Fitting(callbacks[id]))

(* And of all of them; no message has an id that is still to be used.      *)
Exchange(stack, down, held, up, callbacks, next) ==
  /\ stack \in Seq(ServerMessage)
  /\ down \in Seq(ServerMessage)
  /\ held \subseteq ServerRequest
  /\ IsFiniteSet(held)
  /\ up \in Seq(ClientMessage)
  /\ next \in Nat
  /\ DOMAIN callbacks \subseteq 0..(next - 1)
  /\ \A id \in DOMAIN callbacks : callbacks[id] \in ServerMethod
  /\ \A id \in Nat : OnePerCallback(stack, down, held, up, callbacks, id)

(* The server's requests are messages of its own.                          *)
LEMMA ServerRequests ==
  ASSUME NEW m \in ServerRequest
  PROVE  /\ m \in ServerMessage
         /\ m.type = "request"
         /\ m.id \in Nat
         /\ m.method \in ServerMethod
BY DEF ServerRequest, ServerMessage

(* And all its requests are these.                                         *)
LEMMA RequestsAreServerRequests ==
  ASSUME NEW m \in ServerMessage, m.type = "request"
  PROVE  m \in ServerRequest
BY DEF ServerRequest, ServerMessage, treeViewReady, telemetryError, Notification

(* The parts of the sum are numbers.                                       *)
LEMMA CountsType ==
  ASSUME NEW stack, NEW down, NEW held, NEW up, NEW callbacks, NEW next,
         Exchange(stack, down, held, up, callbacks, next), NEW id
  PROVE  /\ Count(stack, RequestsOf(id)) \in Nat
         /\ Count(down, RequestsOf(id)) \in Nat
         /\ Cardinality(Held(held, id)) \in Nat
         /\ IsFiniteSet(Held(held, id))
         /\ Count(up, ResponsesOf(id)) \in Nat
<1>1. /\ stack \in Seq(ServerMessage)
      /\ down \in Seq(ServerMessage)
      /\ up \in Seq(ClientMessage)
      /\ IsFiniteSet(held)
  BY DEF Exchange
<1>2. IsFiniteSet(Held(held, id))
  BY <1>1, FS_Subset DEF Held
<1> QED
  BY <1>1, <1>2, CountType, FS_CardinalityType

(* The server pushes a message that is not a request.                      *)
LEMMA PushOther ==
  ASSUME NEW stack, NEW down, NEW held, NEW up, NEW callbacks, NEW next,
         Exchange(stack, down, held, up, callbacks, next),
         NEW m \in ServerMessage, m.type # "request"
  PROVE  Exchange(Append(stack, m), down, held, up, callbacks, next)
<1>1. stack \in Seq(ServerMessage)
  BY DEF Exchange
<1>2. Append(stack, m) \in Seq(ServerMessage)
  BY <1>1, AppendProperties
<1>3. ASSUME NEW id \in Nat
      PROVE  OnePerCallback(Append(stack, m), down, held, up, callbacks, id)
  <2>1. m \notin RequestsOf(id)
    BY DEF RequestsOf
  <2>2. OnePerCallback(stack, down, held, up, callbacks, id)
    BY DEF Exchange
  <2>3. Count(Append(stack, m), RequestsOf(id)) = Count(stack, RequestsOf(id))
    BY <1>1, <2>1, CountAppend, CountsType
  <2>4. All(stack, RequestsOf(id), Asking(callbacks[id]))
          => All(Append(stack, m), RequestsOf(id), Asking(callbacks[id]))
    BY <1>1, <2>1, AllAppend
  <2> QED
    BY <2>2, <2>3, <2>4 DEF OnePerCallback
<1> QED
  BY <1>2, <1>3 DEF Exchange

Extended(callbacks, id, method) ==
  [i \in DOMAIN callbacks \cup {id} |-> IF i = id THEN method ELSE callbacks[i]]

(* The server pushes a request with the next id, and a callback for it.    *)
LEMMA PushRequest ==
  ASSUME NEW stack, NEW down, NEW held, NEW up, NEW callbacks, NEW next,
         Exchange(stack, down, held, up, callbacks, next),
         NEW method \in ServerMethod
  PROVE  Exchange(Append(stack, Request(next, method)), down, held, up,
                  Extended(callbacks, next, method), next + 1)
<1> DEFINE m == Request(next, method)
           after == Extended(callbacks, next, method)
<1>1. /\ stack \in Seq(ServerMessage) /\ next \in Nat
      /\ down \in Seq(ServerMessage) /\ up \in Seq(ClientMessage)
      /\ DOMAIN callbacks \subseteq 0..(next - 1)
      /\ \A id \in DOMAIN callbacks : callbacks[id] \in ServerMethod
  BY DEF Exchange
<1>2. m \in ServerMessage /\ m.type = "request" /\ m.id = next /\ m.method = method
  BY <1>1 DEF Request, ServerMessage
<1>3. /\ DOMAIN after = DOMAIN callbacks \cup {next}
      /\ after[next] = method
      /\ \A id \in DOMAIN callbacks : id # next /\ after[id] = callbacks[id]
  BY <1>1 DEF Extended
<1> HIDE DEF m, after
<1>4. Append(stack, m) \in Seq(ServerMessage)
  BY <1>1, <1>2, AppendProperties
<1>5. ASSUME NEW id \in Nat
      PROVE  OnePerCallback(Append(stack, m), down, held, up, after, id)
  <2>1. OnePerCallback(stack, down, held, up, callbacks, id)
    BY DEF Exchange
  <2>2. /\ Count(Append(stack, m), RequestsOf(id)) =
             Count(stack, RequestsOf(id)) + (IF m \in RequestsOf(id) THEN 1 ELSE 0)
        /\ All(Append(stack, m), RequestsOf(id), Asking(after[id]))
             <=> /\ All(stack, RequestsOf(id), Asking(after[id]))
                 /\ m \in RequestsOf(id) => m \in Asking(after[id])
    BY <1>1, <1>2, CountAppend, AllAppend
  <2>3. /\ Count(stack, RequestsOf(id)) \in Nat
        /\ Count(down, RequestsOf(id)) \in Nat
        /\ Cardinality(Held(held, id)) \in Nat
        /\ IsFiniteSet(Held(held, id))
        /\ Count(up, ResponsesOf(id)) \in Nat
    BY CountsType
  <2>4. CASE id # next
    <3>1. m \notin RequestsOf(id)
      BY <1>2, <2>4 DEF RequestsOf
    <3>2. id \in DOMAIN after <=> id \in DOMAIN callbacks
      BY <1>3, <2>4
    <3> QED
      BY <1>3, <2>1, <2>2, <2>3, <3>1, <3>2 DEF OnePerCallback
  <2>5. CASE id = next
    <3>1. m \in RequestsOf(id) /\ m \in Asking(after[id])
      BY <1>2, <1>3, <2>5 DEF RequestsOf, Asking
    <3>2. id \notin DOMAIN callbacks /\ id \in DOMAIN after
      BY <1>1, <1>3, <2>5
    <3>3. /\ Count(stack, RequestsOf(id)) = 0
          /\ Count(down, RequestsOf(id)) = 0
          /\ Cardinality(Held(held, id)) = 0
          /\ Count(up, ResponsesOf(id)) = 0
      BY <2>1, <2>3, <3>2 DEF OnePerCallback
    <3>4. /\ All(stack, RequestsOf(id), Asking(after[id]))
          /\ All(down, RequestsOf(id), Asking(after[id]))
          /\ All(up, ResponsesOf(id), Fitting(after[id]))
      BY <1>1, <3>3, CountType DEF All
    <3>5. Held(held, id) = {}
      BY <2>3, <3>3, FS_EmptySet
    <3> QED
      BY <2>2, <2>3, <3>1, <3>2, <3>3, <3>4, <3>5 DEF OnePerCallback
  <2> QED
    BY <2>4, <2>5
<1>6. DOMAIN after \subseteq 0..next /\ \A id \in DOMAIN after : after[id] \in ServerMethod
  BY <1>1, <1>3
<1>7. next + 1 \in Nat /\ (next + 1) - 1 = next
  BY <1>1
<1>8. Exchange(Append(stack, m), down, held, up, after, next + 1)
  <2>1. /\ down \in Seq(ServerMessage)
        /\ held \subseteq ServerRequest
        /\ IsFiniteSet(held)
        /\ up \in Seq(ClientMessage)
    BY DEF Exchange
  <2> QED
    BY <1>4, <1>5, <1>6, <1>7, <2>1 DEF Exchange
<1> QED
  BY <1>8 DEF m, after

(* The server reads a message that is not a response.                      *)
LEMMA TakeOther ==
  ASSUME NEW stack, NEW down, NEW held, NEW up, NEW callbacks, NEW next,
         Exchange(stack, down, held, up, callbacks, next),
         up # <<>>, Head(up).type # "response"
  PROVE  Exchange(stack, down, held, Tail(up), callbacks, next)
<1>1. up \in Seq(ClientMessage)
  BY DEF Exchange
<1>2. Tail(up) \in Seq(ClientMessage)
  BY <1>1, HeadTailProperties
<1>3. ASSUME NEW id \in Nat
      PROVE  OnePerCallback(stack, down, held, Tail(up), callbacks, id)
  <2>1. Head(up) \notin ResponsesOf(id)
    BY DEF ResponsesOf
  <2>2. OnePerCallback(stack, down, held, up, callbacks, id)
    BY DEF Exchange
  <2>3. Count(up, ResponsesOf(id)) = Count(Tail(up), ResponsesOf(id))
    <3>1. Count(Tail(up), ResponsesOf(id)) \in Nat
      BY <1>2, CountType
    <3> QED
      BY <1>1, <2>1, <3>1, CountTail
  <2>4. All(up, ResponsesOf(id), Fitting(callbacks[id]))
          => All(Tail(up), ResponsesOf(id), Fitting(callbacks[id]))
    BY <1>1, AllTail
  <2> QED
    BY <2>2, <2>3, <2>4 DEF OnePerCallback
<1> QED
  BY <1>2, <1>3 DEF Exchange

(* The server reads a response: its callback waits and is erased.          *)
LEMMA TakeResponse ==
  ASSUME NEW stack, NEW down, NEW held, NEW up, NEW callbacks, NEW next,
         Exchange(stack, down, held, up, callbacks, next),
         up # <<>>, Head(up).type = "response"
  PROVE  LET id == Head(up).id
         IN /\ id \in DOMAIN callbacks
            /\ Fits(Head(up), callbacks[id])
            /\ Exchange(stack, down, held, Tail(up),
                        Restrict(callbacks, DOMAIN callbacks \ {id}), next)
<1> DEFINE m == Head(up)
           after == Restrict(callbacks, DOMAIN callbacks \ {m.id})
<1>1. /\ up \in Seq(ClientMessage) /\ next \in Nat
      /\ stack \in Seq(ServerMessage) /\ down \in Seq(ServerMessage)
      /\ DOMAIN callbacks \subseteq 0..(next - 1)
      /\ \A i \in DOMAIN callbacks : callbacks[i] \in ServerMethod
  BY DEF Exchange
<1>2. Tail(up) \in Seq(ClientMessage) /\ m \in ClientMessage
  BY <1>1, HeadTailProperties
<1>3. m.id \in Nat
  BY <1>2 DEF ClientMessage
<1>4. m \in ResponsesOf(m.id) /\ \A i : i # m.id => m \notin ResponsesOf(i)
  BY <1>2 DEF ResponsesOf
<1>5. \A i \in Nat :
        /\ Count(up, ResponsesOf(i)) =
             Count(Tail(up), ResponsesOf(i)) + (IF m \in ResponsesOf(i) THEN 1 ELSE 0)
        /\ All(up, ResponsesOf(i), Fitting(callbacks[i]))
             <=> /\ All(Tail(up), ResponsesOf(i), Fitting(callbacks[i]))
                 /\ m \in ResponsesOf(i) => m \in Fitting(callbacks[i])
        /\ Count(Tail(up), ResponsesOf(i)) \in Nat
  <2>1. ASSUME NEW i \in Nat
        PROVE  /\ Count(up, ResponsesOf(i)) =
                    Count(Tail(up), ResponsesOf(i)) + (IF m \in ResponsesOf(i) THEN 1 ELSE 0)
               /\ All(up, ResponsesOf(i), Fitting(callbacks[i]))
                    <=> /\ All(Tail(up), ResponsesOf(i), Fitting(callbacks[i]))
                        /\ m \in ResponsesOf(i) => m \in Fitting(callbacks[i])
               /\ Count(Tail(up), ResponsesOf(i)) \in Nat
    BY <1>1, <1>2, CountTail, AllTail, CountType
  <2> QED
    BY <2>1
<1>6. /\ DOMAIN after = DOMAIN callbacks \ {m.id}
      /\ \A i \in DOMAIN after : after[i] = callbacks[i]
  BY DEF Restrict
<1> HIDE DEF m, after
<1>7. \A i \in Nat : OnePerCallback(stack, down, held, up, callbacks, i)
  BY DEF Exchange
<1>8. \A i \in Nat : /\ Count(stack, RequestsOf(i)) \in Nat
                     /\ Count(down, RequestsOf(i)) \in Nat
                     /\ Cardinality(Held(held, i)) \in Nat
  BY CountsType
<1>9. /\ m.id \in DOMAIN callbacks
      /\ Count(stack, RequestsOf(m.id)) + Count(down, RequestsOf(m.id))
           + Cardinality(Held(held, m.id)) + Count(Tail(up), ResponsesOf(m.id)) = 0
  <2>1. /\ Count(up, ResponsesOf(m.id)) = Count(Tail(up), ResponsesOf(m.id)) + 1
        /\ Count(Tail(up), ResponsesOf(m.id)) \in Nat
    BY <1>3, <1>4, <1>5
  <2>2. Count(stack, RequestsOf(m.id)) + Count(down, RequestsOf(m.id))
          + Cardinality(Held(held, m.id)) + Count(up, ResponsesOf(m.id))
          = IF m.id \in DOMAIN callbacks THEN 1 ELSE 0
    BY <1>3, <1>7 DEF OnePerCallback
  <2>3. /\ Count(stack, RequestsOf(m.id)) \in Nat
        /\ Count(down, RequestsOf(m.id)) \in Nat
        /\ Cardinality(Held(held, m.id)) \in Nat
    BY <1>3, <1>8
  <2> QED
    BY <2>1, <2>2, <2>3
<1>10. Fits(m, callbacks[m.id])
  <2>1. m \in Fitting(callbacks[m.id])
    BY <1>3, <1>4, <1>5, <1>7, <1>9 DEF OnePerCallback
  <2> QED
    BY <2>1 DEF Fitting
<1>11. ASSUME NEW i \in Nat
       PROVE  OnePerCallback(stack, down, held, Tail(up), after, i)
  <2>1. CASE i = m.id
    BY <1>6, <1>9, <2>1 DEF OnePerCallback
  <2>2. CASE i # m.id
    <3>1. i \in DOMAIN after <=> i \in DOMAIN callbacks
      BY <1>6, <2>2
    <3>2. Count(up, ResponsesOf(i)) = Count(Tail(up), ResponsesOf(i))
      BY <1>4, <1>5, <2>2
    <3>3. OnePerCallback(stack, down, held, up, callbacks, i)
      BY <1>7
    <3>4. All(up, ResponsesOf(i), Fitting(callbacks[i]))
            => All(Tail(up), ResponsesOf(i), Fitting(callbacks[i]))
      BY <1>5
    <3>5. i \in DOMAIN callbacks => after[i] = callbacks[i]
      BY <1>6, <3>1
    <3> QED
      BY <3>1, <3>2, <3>3, <3>4, <3>5 DEF OnePerCallback
  <2> QED
    BY <2>1, <2>2
<1>12. Exchange(stack, down, held, Tail(up), after, next)
  <2>1. /\ held \subseteq ServerRequest
        /\ IsFiniteSet(held)
    BY DEF Exchange
  <2> QED
    BY <1>1, <1>2, <1>6, <1>11, <2>1 DEF Exchange
<1> QED
  BY <1>9, <1>10, <1>12 DEF m, after

(* A message is written: from the stack's top to the client.               *)
LEMMA WriteLast ==
  ASSUME NEW stack, NEW down, NEW held, NEW up, NEW callbacks, NEW next,
         Exchange(stack, down, held, up, callbacks, next), stack # <<>>
  PROVE  Exchange(Front(stack), Append(down, Last(stack)), held, up, callbacks, next)
<1> DEFINE m == Last(stack)
           front == Front(stack)
<1>1. stack \in Seq(ServerMessage) /\ down \in Seq(ServerMessage)
  BY DEF Exchange
<1>2. front \in Seq(ServerMessage) /\ m \in ServerMessage
  <2>1. \A M, P : Front(stack) \in Seq(ServerMessage) /\ Last(stack) \in ServerMessage
    BY <1>1, FrontOfList
  <2> QED
    BY <2>1
<1>3. Append(down, m) \in Seq(ServerMessage)
  BY <1>1, <1>2, AppendProperties
<1>4. ASSUME NEW id \in Nat
      PROVE  OnePerCallback(front, Append(down, m), held, up, callbacks, id)
  <2>1. OnePerCallback(stack, down, held, up, callbacks, id)
    BY DEF Exchange
  <2>2. /\ Count(stack, RequestsOf(id)) =
             Count(front, RequestsOf(id)) + (IF m \in RequestsOf(id) THEN 1 ELSE 0)
        /\ Count(front, RequestsOf(id)) \in Nat
    BY <1>1, <1>2, CountFront, CountType
  <2>3. /\ Count(Append(down, m), RequestsOf(id)) =
             Count(down, RequestsOf(id)) + (IF m \in RequestsOf(id) THEN 1 ELSE 0)
        /\ Count(down, RequestsOf(id)) \in Nat
    BY <1>1, <1>2, CountAppend, CountType
  <2>4. All(stack, RequestsOf(id), Asking(callbacks[id]))
          <=> /\ All(front, RequestsOf(id), Asking(callbacks[id]))
              /\ m \in RequestsOf(id) => m \in Asking(callbacks[id])
    BY <1>1, AllFront
  <2>5. All(Append(down, m), RequestsOf(id), Asking(callbacks[id]))
          <=> /\ All(down, RequestsOf(id), Asking(callbacks[id]))
              /\ m \in RequestsOf(id) => m \in Asking(callbacks[id])
    BY <1>1, <1>2, AllAppend
  <2>6. /\ Cardinality(Held(held, id)) \in Nat
        /\ Count(up, ResponsesOf(id)) \in Nat
    BY CountsType
  <2> HIDE DEF m, front
  <2>7. Count(front, RequestsOf(id)) + Count(Append(down, m), RequestsOf(id))
          = Count(stack, RequestsOf(id)) + Count(down, RequestsOf(id))
    BY <2>2, <2>3
  <2> QED
    BY <2>1, <2>4, <2>5, <2>7 DEF OnePerCallback
<1> HIDE DEF m, front
<1>5. Exchange(front, Append(down, m), held, up, callbacks, next)
  BY <1>2, <1>3, <1>4 DEF Exchange
<1> QED
  BY <1>5 DEF m, front

(* The client receives a message that is not a request.                    *)
LEMMA ReceiveOther ==
  ASSUME NEW stack, NEW down, NEW held, NEW up, NEW callbacks, NEW next,
         Exchange(stack, down, held, up, callbacks, next),
         down # <<>>, Head(down).type # "request"
  PROVE  Exchange(stack, Tail(down), held, up, callbacks, next)
<1>1. down \in Seq(ServerMessage)
  BY DEF Exchange
<1>2. Tail(down) \in Seq(ServerMessage)
  BY <1>1, HeadTailProperties
<1>3. ASSUME NEW id \in Nat
      PROVE  OnePerCallback(stack, Tail(down), held, up, callbacks, id)
  <2>1. Head(down) \notin RequestsOf(id)
    BY DEF RequestsOf
  <2>2. OnePerCallback(stack, down, held, up, callbacks, id)
    BY DEF Exchange
  <2>3. Count(down, RequestsOf(id)) = Count(Tail(down), RequestsOf(id))
    <3>1. Count(Tail(down), RequestsOf(id)) \in Nat
      BY <1>2, CountType
    <3> QED
      BY <1>1, <2>1, <3>1, CountTail
  <2>4. All(down, RequestsOf(id), Asking(callbacks[id]))
          => All(Tail(down), RequestsOf(id), Asking(callbacks[id]))
    BY <1>1, AllTail
  <2> QED
    BY <2>2, <2>3, <2>4 DEF OnePerCallback
<1> QED
  BY <1>2, <1>3 DEF Exchange

(* The client receives a request: it is not one that it holds already.     *)
LEMMA ReceiveRequest ==
  ASSUME NEW stack, NEW down, NEW held, NEW up, NEW callbacks, NEW next,
         Exchange(stack, down, held, up, callbacks, next),
         down # <<>>, Head(down).type = "request"
  PROVE  Exchange(stack, Tail(down), held \cup {Head(down)}, up, callbacks, next)
<1> DEFINE m == Head(down)
           after == held \cup {m}
<1>1. /\ down \in Seq(ServerMessage)
      /\ held \subseteq ServerRequest
      /\ IsFiniteSet(held)
  BY DEF Exchange
<1>2. Tail(down) \in Seq(ServerMessage) /\ m \in ServerMessage
  BY <1>1, HeadTailProperties
<1>3. m \in ServerRequest
  BY <1>2, RequestsAreServerRequests
<1>4. m.id \in Nat /\ m.type = "request"
  BY <1>3, ServerRequests
<1>5. after \subseteq ServerRequest /\ IsFiniteSet(after)
  BY <1>1, <1>3, FS_AddElement
<1> HIDE DEF m
<1>6. ASSUME NEW id \in Nat
      PROVE  OnePerCallback(stack, Tail(down), after, up, callbacks, id)
  <2>1. OnePerCallback(stack, down, held, up, callbacks, id)
    BY DEF Exchange
  <2>2. /\ Count(down, RequestsOf(id)) =
             Count(Tail(down), RequestsOf(id)) + (IF m \in RequestsOf(id) THEN 1 ELSE 0)
        /\ Count(Tail(down), RequestsOf(id)) \in Nat
    BY <1>1, <1>2, CountTail, CountType DEF m
  <2>3. All(down, RequestsOf(id), Asking(callbacks[id]))
          <=> /\ All(Tail(down), RequestsOf(id), Asking(callbacks[id]))
              /\ m \in RequestsOf(id) => m \in Asking(callbacks[id])
    BY <1>1, AllTail DEF m
  <2>4. /\ Count(stack, RequestsOf(id)) \in Nat
        /\ Count(up, ResponsesOf(id)) \in Nat
        /\ Cardinality(Held(held, id)) \in Nat
        /\ IsFiniteSet(Held(held, id))
    BY CountsType
  <2>5. CASE m.id = id
    <3>1. m \in RequestsOf(id)
      BY <1>2, <1>4, <2>5 DEF RequestsOf
    <3>2. id \in DOMAIN callbacks /\ Cardinality(Held(held, id)) = 0
      BY <2>1, <2>2, <2>4, <3>1 DEF OnePerCallback
    <3>3. Held(held, id) = {}
      BY <2>4, <3>2, FS_EmptySet
    <3>4. Held(after, id) = {m}
      BY <2>5, <3>3 DEF Held
    <3>5. Cardinality(Held(after, id)) = 1
      BY <3>4, FS_Singleton
    <3>6. Count(down, RequestsOf(id)) + Cardinality(Held(held, id))
            = Count(Tail(down), RequestsOf(id)) + Cardinality(Held(after, id))
      BY <2>2, <3>1, <3>2, <3>5
    <3>7. m \in Asking(callbacks[id])
      BY <2>1, <2>3, <3>1, <3>2 DEF OnePerCallback
    <3> HIDE DEF after
    <3>8. Count(stack, RequestsOf(id)) + Count(Tail(down), RequestsOf(id))
            + Cardinality(Held(after, id)) + Count(up, ResponsesOf(id))
            = IF id \in DOMAIN callbacks THEN 1 ELSE 0
      BY <2>1, <2>2, <2>4, <3>2, <3>5, <3>6 DEF OnePerCallback
    <3> QED
      BY <2>1, <2>3, <3>4, <3>7, <3>8 DEF OnePerCallback
  <2>6. CASE m.id # id
    <3>1. m \notin RequestsOf(id)
      BY <2>6 DEF RequestsOf
    <3>2. Held(after, id) = Held(held, id)
      BY <2>6 DEF Held
    <3>3. Count(down, RequestsOf(id)) = Count(Tail(down), RequestsOf(id))
      BY <2>2, <3>1
    <3> QED
      BY <2>1, <2>3, <3>2, <3>3 DEF OnePerCallback
  <2> QED
    BY <2>5, <2>6
<1>7. Exchange(stack, Tail(down), after, up, callbacks, next)
  <2> HIDE DEF after
  <2> QED
    BY <1>2, <1>5, <1>6 DEF Exchange
<1> QED
  BY <1>7 DEF m

(* The client sends a message that is not a response.                      *)
LEMMA SendOther ==
  ASSUME NEW stack, NEW down, NEW held, NEW up, NEW callbacks, NEW next,
         Exchange(stack, down, held, up, callbacks, next),
         NEW m \in ClientMessage, m.type # "response"
  PROVE  Exchange(stack, down, held, Append(up, m), callbacks, next)
<1>1. up \in Seq(ClientMessage)
  BY DEF Exchange
<1>2. Append(up, m) \in Seq(ClientMessage)
  BY <1>1, AppendProperties
<1>3. ASSUME NEW id \in Nat
      PROVE  OnePerCallback(stack, down, held, Append(up, m), callbacks, id)
  <2>1. m \notin ResponsesOf(id)
    BY DEF ResponsesOf
  <2>2. OnePerCallback(stack, down, held, up, callbacks, id)
    BY DEF Exchange
  <2>3. Count(Append(up, m), ResponsesOf(id)) = Count(up, ResponsesOf(id))
    BY <1>1, <2>1, CountAppend, CountsType
  <2>4. All(up, ResponsesOf(id), Fitting(callbacks[id]))
          => All(Append(up, m), ResponsesOf(id), Fitting(callbacks[id]))
    BY <1>1, <2>1, AllAppend
  <2> QED
    BY <2>2, <2>3, <2>4 DEF OnePerCallback
<1> QED
  BY <1>2, <1>3 DEF Exchange

(* The client answers a request that it holds.                             *)
LEMMA SendResponse ==
  ASSUME NEW stack, NEW down, NEW held, NEW up, NEW callbacks, NEW next,
         Exchange(stack, down, held, up, callbacks, next),
         NEW m \in held, NEW response \in ClientMessage,
         response.type = "response", response.id = m.id,
         Fits(response, m.method)
  PROVE  Exchange(stack, down, held \ {m}, Append(up, response), callbacks, next)
<1> DEFINE after == held \ {m}
<1>1. /\ up \in Seq(ClientMessage)
      /\ held \subseteq ServerRequest
      /\ IsFiniteSet(held)
  BY DEF Exchange
<1>2. Append(up, response) \in Seq(ClientMessage)
  BY <1>1, AppendProperties
<1>3. after \subseteq ServerRequest /\ IsFiniteSet(after)
  BY <1>1, FS_RemoveElement
<1>4. ASSUME NEW id \in Nat
      PROVE  OnePerCallback(stack, down, after, Append(up, response), callbacks, id)
  <2>1. OnePerCallback(stack, down, held, up, callbacks, id)
    BY DEF Exchange
  <2>2. Count(Append(up, response), ResponsesOf(id)) =
          Count(up, ResponsesOf(id)) + (IF response \in ResponsesOf(id) THEN 1 ELSE 0)
    BY <1>1, CountAppend
  <2>3. All(Append(up, response), ResponsesOf(id), Fitting(callbacks[id]))
          <=> /\ All(up, ResponsesOf(id), Fitting(callbacks[id]))
              /\ response \in ResponsesOf(id) => response \in Fitting(callbacks[id])
    BY <1>1, AllAppend
  <2>4. /\ Count(stack, RequestsOf(id)) \in Nat
        /\ Count(down, RequestsOf(id)) \in Nat
        /\ Count(up, ResponsesOf(id)) \in Nat
        /\ Cardinality(Held(held, id)) \in Nat
        /\ IsFiniteSet(Held(held, id))
    BY CountsType
  <2>5. CASE m.id = id
    <3>1. response \in ResponsesOf(id)
      BY <2>5 DEF ResponsesOf
    <3>2. m \in Held(held, id) /\ Held(after, id) = Held(held, id) \ {m}
      BY <2>5 DEF Held
    <3>3. Cardinality(Held(after, id)) = Cardinality(Held(held, id)) - 1
      BY <2>4, <3>2, FS_RemoveElement
    <3>4. Cardinality(Held(held, id)) # 0
      BY <2>4, <3>2, FS_EmptySet
    <3> HIDE DEF after
    <3>5. /\ Cardinality(Held(after, id)) + Count(Append(up, response), ResponsesOf(id))
               = Cardinality(Held(held, id)) + Count(up, ResponsesOf(id))
          /\ id \in DOMAIN callbacks
      BY <2>1, <2>2, <2>4, <3>1, <3>3, <3>4 DEF OnePerCallback
    <3>6. Count(stack, RequestsOf(id)) + Count(down, RequestsOf(id))
            + Cardinality(Held(after, id)) + Count(Append(up, response), ResponsesOf(id))
            = IF id \in DOMAIN callbacks THEN 1 ELSE 0
      <4>1. Cardinality(Held(after, id)) \in Int
        BY <2>4, <3>3
      <4>2. Count(Append(up, response), ResponsesOf(id)) \in Nat
        BY <2>2, <2>4
      <4> QED
        BY <2>1, <2>4, <3>5, <4>1, <4>2 DEF OnePerCallback
    <3>7. m.method = callbacks[id]
      BY <2>1, <3>2, <3>5 DEF OnePerCallback, Asking
    <3>8. response \in Fitting(callbacks[id])
      BY <3>7 DEF Fitting
    <3> QED
      BY <2>1, <2>3, <3>2, <3>6, <3>8 DEF OnePerCallback
  <2>6. CASE m.id # id
    <3>1. response \notin ResponsesOf(id)
      BY <2>6 DEF ResponsesOf
    <3>2. Held(after, id) = Held(held, id)
      BY <2>6 DEF Held
    <3>3. Count(Append(up, response), ResponsesOf(id)) = Count(up, ResponsesOf(id))
      BY <2>2, <2>4, <3>1
    <3> QED
      BY <2>1, <2>3, <3>1, <3>2, <3>3 DEF OnePerCallback
  <2> QED
    BY <2>5, <2>6
<1>5. Exchange(stack, down, after, Append(up, response), callbacks, next)
  <2> HIDE DEF after
  <2> QED
    BY <1>2, <1>3, <1>4 DEF Exchange
<1> QED
  BY <1>5

-----------------------------------------------------------------------------
(* Types, and the exchange in every state.  The two need each other: what  *)
(* the server reads from a response has its type because the response fits *)
(* the callback that it is given to.                                       *)

ServerTypeOK ==
  /\ StoragesTypeOK
  /\ pc \in {"read", "write", "stopped", "crashed"}
  /\ setting \in Setting

ClientTypeOK ==
  /\ phase \in {"start", "initializing", "running", "shutdown", "exited"}
  /\ asked \in Nat
  /\ answered \in Seq(Nat)
  /\ clientSetting \in Setting
  /\ unannounced \in BOOLEAN
  /\ registered \in BOOLEAN
  /\ changes \in Nat

ExchangeNow ==
  Exchange(sendStack, toClient, toAnswer, toServer, responseCallbacks, nextId)

TypeInv == ServerTypeOK /\ ClientTypeOK /\ ExchangeNow

(* TypeInv is TypeOK and more.                                             *)
LEMMA TypeInvMeansTypeOK == TypeInv => TypeOK
<1> SUFFICES ASSUME TypeInv
             PROVE  TypeOK
  OBVIOUS
<1>1. nextId \in Nat /\ DOMAIN responseCallbacks \subseteq 0..(nextId - 1)
  BY DEF TypeInv, ExchangeNow, Exchange
<1>2. DOMAIN responseCallbacks \subseteq Nat
  BY <1>1
<1> QED
  BY <1>1, <1>2
     DEF TypeInv, ExchangeNow, Exchange, ServerTypeOK, ClientTypeOK, TypeOK,
         ServerRequest

(* It is CallbackPerRequest, too.                                          *)
LEMMA ExchangeMeansCallbacks == TypeInv => CallbackPerRequest
<1> SUFFICES ASSUME TypeInv
             PROVE  CallbackPerRequest
  OBVIOUS
<1>1. /\ sendStack \in Seq(ServerMessage)
      /\ toClient \in Seq(ServerMessage)
      /\ toServer \in Seq(ClientMessage)
      /\ nextId \in Nat
      /\ DOMAIN responseCallbacks \subseteq 0..(nextId - 1)
      /\ \A id \in Nat : OnePerCallback(sendStack, toClient, toAnswer, toServer,
                                        responseCallbacks, id)
  BY DEF TypeInv, ExchangeNow, Exchange
<1>2. ASSUME NEW id \in 0..(nextId - 1)
      PROVE  /\ RequestsFor(sendStack, id) = Places(sendStack, RequestsOf(id))
             /\ RequestsFor(toClient, id) = Places(toClient, RequestsOf(id))
             /\ ResponsesFor(toServer, id) = Places(toServer, ResponsesOf(id))
             /\ {m \in toAnswer : m.id = id} = Held(toAnswer, id)
  <2>1. /\ \A i \in 1..Len(sendStack) : sendStack[i] \in ServerMessage
        /\ \A i \in 1..Len(toClient) : toClient[i] \in ServerMessage
        /\ \A i \in 1..Len(toServer) : toServer[i] \in ClientMessage
    BY <1>1, ElementOfSeq
  <2>2. RequestsFor(sendStack, id) = Places(sendStack, RequestsOf(id))
    BY <2>1 DEF RequestsFor, Places, RequestsOf
  <2>3. RequestsFor(toClient, id) = Places(toClient, RequestsOf(id))
    BY <2>1 DEF RequestsFor, Places, RequestsOf
  <2>4. ResponsesFor(toServer, id) = Places(toServer, ResponsesOf(id))
    BY <2>1 DEF ResponsesFor, Places, ResponsesOf
  <2> QED
    BY <2>2, <2>3, <2>4 DEF Held
<1>3. ASSUME NEW id \in 0..(nextId - 1)
      PROVE  LET held == {m \in toAnswer : m.id = id}
                 back == ResponsesFor(toServer, id)
             IN /\ Cardinality(RequestsFor(sendStack, id))
                     + Cardinality(RequestsFor(toClient, id))
                     + Cardinality(held) + Cardinality(back)
                     = IF id \in DOMAIN responseCallbacks THEN 1 ELSE 0
                /\ \A i \in RequestsFor(sendStack, id) :
                     sendStack[i].method = responseCallbacks[id]
                /\ \A i \in RequestsFor(toClient, id) :
                     toClient[i].method = responseCallbacks[id]
                /\ \A m \in held : m.method = responseCallbacks[id]
                /\ \A i \in back : Fits(toServer[i], responseCallbacks[id])
  <2>1. id \in Nat
    BY <1>1
  <2>2. OnePerCallback(sendStack, toClient, toAnswer, toServer,
                       responseCallbacks, id)
    BY <1>1, <2>1
  <2>3. CASE id \in DOMAIN responseCallbacks
    BY <1>2, <2>2, <2>3 DEF OnePerCallback, Count, All, Asking, Fitting
  <2>4. CASE id \notin DOMAIN responseCallbacks
    <3>1. /\ Count(sendStack, RequestsOf(id)) \in Nat
          /\ Count(toClient, RequestsOf(id)) \in Nat
          /\ Cardinality(Held(toAnswer, id)) \in Nat
          /\ IsFiniteSet(Held(toAnswer, id))
          /\ Count(toServer, ResponsesOf(id)) \in Nat
      BY CountsType DEF TypeInv, ExchangeNow
    <3>2. /\ Count(sendStack, RequestsOf(id)) = 0
          /\ Count(toClient, RequestsOf(id)) = 0
          /\ Cardinality(Held(toAnswer, id)) = 0
          /\ Count(toServer, ResponsesOf(id)) = 0
      BY <2>2, <2>4, <3>1 DEF OnePerCallback
    <3>3. /\ Places(sendStack, RequestsOf(id)) = {}
          /\ Places(toClient, RequestsOf(id)) = {}
          /\ Held(toAnswer, id) = {}
          /\ Places(toServer, ResponsesOf(id)) = {}
      BY <1>1, <3>1, <3>2, CountType, FS_EmptySet
    <3> QED
      BY <1>2, <2>2, <2>4, <3>3 DEF OnePerCallback, Count
  <2> QED
    BY <2>3, <2>4
<1> QED
  BY <1>1, <1>3 DEF CallbackPerRequest

(* Nothing is on its way at the start.                                     *)
LEMMA InitTypeInv == Init => TypeInv
<1> SUFFICES ASSUME Init
             PROVE  TypeInv
  OBVIOUS
<1>1. DOMAIN responseCallbacks = {}
  <2>1. <<>> \in [1..0 -> Nat]
    BY EmptySeq, LenProperties
  <2> QED
    BY <2>1 DEF Init
<1>2. /\ <<>> \in Seq(ServerMessage) /\ <<>> \in Seq(ClientMessage)
      /\ <<>> \in Seq(Nat) /\ <<>> \in Seq(SUBSET DocumentUri)
  BY EmptySeq
<1>3. ASSUME NEW id \in Nat
      PROVE  OnePerCallback(sendStack, toClient, toAnswer, toServer,
                            responseCallbacks, id)
  <2>1. /\ Count(sendStack, RequestsOf(id)) = 0
        /\ Count(toClient, RequestsOf(id)) = 0
        /\ Count(toServer, ResponsesOf(id)) = 0
    BY CountEmpty DEF Init
  <2>2. Cardinality(Held(toAnswer, id)) = 0
    <3>1. Held(toAnswer, id) = {}
      BY DEF Held, Init
    <3> QED
      BY <3>1, FS_EmptySet
  <2> QED
    BY <1>1, <2>1, <2>2 DEF OnePerCallback
<1>4. ExchangeNow
  <2>1. IsFiniteSet({})
    BY FS_EmptySet
  <2> QED
    BY <1>1, <1>2, <1>3, <2>1 DEF ExchangeNow, Exchange, Init
<1>5. ServerTypeOK /\ ClientTypeOK
  BY <1>2 DEF Init, StoragesInit, StoragesTypeOK, ServerTypeOK, ClientTypeOK, Setting
<1> QED
  BY <1>4, <1>5 DEF TypeInv

-----------------------------------------------------------------------------
(* The steps of the server.                                                *)

(* What the server reads.                                                  *)
LEMMA ReadType ==
  ASSUME TypeInv, NEW m, Read(m)
  PROVE  /\ toServer # <<>> /\ m = Head(toServer) /\ toServer' = Tail(toServer)
         /\ m \in ClientMessage
         /\ sendStack \in Seq(ServerMessage)
         /\ nextId \in Nat
         /\ toClient' = toClient /\ toAnswer' = toAnswer
         /\ ClientTypeOK'
<1>1. toServer \in Seq(ClientMessage) /\ sendStack \in Seq(ServerMessage)
      /\ nextId \in Nat
  BY DEF TypeInv, ExchangeNow, Exchange
<1>2. ClientTypeOK'
  BY DEF TypeInv, ClientTypeOK, Read, clientVars
<1> QED
  BY <1>1, <1>2, HeadTailProperties DEF Read, clientVars

(* Push, for the lists that are pushed.                                    *)
LEMMA PushLists ==
  ASSUME NEW stack \in Seq(ServerMessage)
  PROVE  /\ stack \o <<>> = stack
         /\ \A x \in ServerMessage : stack \o <<x>> = Append(stack, x)
         /\ \A x, y \in ServerMessage :
              stack \o <<x, y>> = Append(Append(stack, x), y)
<1>1. stack \o <<>> = stack
  BY ConcatEmptySeq
<1>2. \A x \in ServerMessage : stack \o <<x>> = Append(stack, x)
  BY AppendIsConcat
<1>3. ASSUME NEW x \in ServerMessage, NEW y \in ServerMessage
      PROVE  stack \o <<x, y>> = Append(Append(stack, x), y)
  <2>1. <<x>> \in Seq(ServerMessage) /\ <<y>> \in Seq(ServerMessage)
    OBVIOUS
  <2>2. <<x, y>> = <<x>> \o <<y>>
    <3> DEFINE both == <<x>> \o <<y>>
    <3>1. Len(<<x>>) = 1 /\ <<x>>[1] = x /\ Len(<<y>>) = 1 /\ <<y>>[1] = y
      OBVIOUS
    <3>2. /\ both \in Seq(ServerMessage)
          /\ Len(both) = 2
          /\ \A i \in 1..2 : both[i] = IF i <= 1 THEN <<x>>[i] ELSE <<y>>[i - 1]
      BY <2>1, <3>1, ConcatProperties
    <3> HIDE DEF both
    <3>3. both[1] = x /\ both[2] = y
      BY <3>1, <3>2
    <3>4. /\ <<x, y>> \in Seq(ServerMessage) /\ Len(<<x, y>>) = 2
          /\ <<x, y>>[1] = x /\ <<x, y>>[2] = y
      OBVIOUS
    <3>5. \A i \in 1..2 : <<x, y>>[i] = both[i]
      BY <3>3, <3>4
    <3>6. <<x, y>> = both
      BY <3>2, <3>4, <3>5, SeqEqual
    <3> QED
      BY <3>6 DEF both
  <2>3. stack \o <<x, y>> = (stack \o <<x>>) \o <<y>>
    BY <2>1, <2>2, ConcatAssociative
  <2>4. Append(stack, x) \in Seq(ServerMessage)
    BY AppendProperties
  <2> QED
    BY <1>2, <2>3, <2>4, AppendIsConcat
<1> QED
  BY <1>1, <1>2, <1>3

(* toClient_requests, for one request and for two.                         *)
LEMMA OneRequest ==
  ASSUME NEW callbacks, NEW method, nextId \in Nat,
         DOMAIN callbacks \subseteq 0..(nextId - 1),
         toClient_requests(<<method>>, callbacks)
  PROVE  /\ nextId' = nextId + 1
         /\ responseCallbacks' = Extended(callbacks, nextId, method)
<1>1. Len(<<method>>) = 1 /\ <<method>>[1] = method
  OBVIOUS
<1>2. nextId' = nextId + 1
  BY <1>1 DEF toClient_requests
<1>3. \A id : id \in DOMAIN callbacks \cup nextId..(nextId + 1 - 1)
                <=> id \in DOMAIN callbacks \cup {nextId}
  OBVIOUS
<1>4. \A id \in DOMAIN callbacks \cup {nextId} :
        (IF id >= nextId THEN <<method>>[id - nextId + 1] ELSE callbacks[id])
          = IF id = nextId THEN method ELSE callbacks[id]
  <2>1. \A id \in DOMAIN callbacks : ~(id >= nextId) /\ id # nextId
    OBVIOUS
  <2>2. nextId >= nextId /\ nextId - nextId + 1 = 1
    OBVIOUS
  <2> QED
    BY <1>1, <2>1, <2>2
<1> QED
  BY <1>1, <1>2, <1>3, <1>4 DEF toClient_requests, Extended

(* Two requests get two ids and two callbacks.                             *)
LEMMA TwoRequests ==
  ASSUME NEW callbacks, NEW first, NEW second, nextId \in Nat,
         DOMAIN callbacks \subseteq 0..(nextId - 1),
         toClient_requests(<<first, second>>, callbacks)
  PROVE  /\ nextId' = nextId + 2
         /\ responseCallbacks' =
              Extended(Extended(callbacks, nextId, first), nextId + 1, second)
<1> DEFINE methods == <<first, second>>
           once == Extended(callbacks, nextId, first)
<1>1. Len(methods) = 2 /\ methods[1] = first /\ methods[2] = second
  OBVIOUS
<1> HIDE DEF methods
<1>2. /\ nextId' = nextId + 2
      /\ responseCallbacks' =
           [id \in DOMAIN callbacks \cup nextId..(nextId + 2 - 1) |->
              IF id >= nextId THEN methods[id - nextId + 1] ELSE callbacks[id]]
  BY <1>1 DEF toClient_requests, methods
<1>3. /\ DOMAIN once = DOMAIN callbacks \cup {nextId}
      /\ once[nextId] = first
      /\ \A id \in DOMAIN callbacks : id # nextId => once[id] = callbacks[id]
  BY DEF Extended
<1>4. \A id : id \in DOMAIN callbacks \cup nextId..(nextId + 2 - 1)
                <=> id \in DOMAIN once \cup {nextId + 1}
  BY <1>3
<1> HIDE DEF once
<1>5. \A id \in DOMAIN once \cup {nextId + 1} :
        (IF id >= nextId THEN methods[id - nextId + 1] ELSE callbacks[id])
          = IF id = nextId + 1 THEN second ELSE once[id]
  <2>1. \A id \in DOMAIN callbacks :
          ~(id >= nextId) /\ id # nextId /\ id # nextId + 1
    OBVIOUS
  <2>2. /\ nextId >= nextId /\ nextId - nextId + 1 = 1 /\ nextId # nextId + 1
        /\ nextId + 1 >= nextId /\ (nextId + 1) - nextId + 1 = 2
    OBVIOUS
  <2> QED
    BY <1>1, <1>3, <2>1, <2>2
<1>6. responseCallbacks' = Extended(once, nextId + 1, second)
  BY <1>2, <1>4, <1>5 DEF Extended
<1> QED
  BY <1>2, <1>6 DEF once

(* The parts of a message of the client that callbacks read.               *)
LEMMA ClientMessageParts ==
  ASSUME NEW m \in ClientMessage
  PROVE  /\ m.type = "request" => m.id \in Nat
         /\ m.type = "request" /\ m.method \in DocumentMethod =>
              m.uri \in DocumentUri
         /\ "setting" \in DOMAIN m => m.setting \in Setting \cup {"unusable"}
         /\ "folders" \in DOMAIN m => m.folders \in Seq(Folder)
<1>1. ClientUri \subseteq DocumentUri /\ FolderLists \subseteq Seq(Folder)
  BY ServiceAssumption
<1>2. CASE m \in [type : {"request"}, id : Nat, method : DocumentMethod, uri : ClientUri]
  BY <1>1, <1>2
<1>3. CASE m \in [type : {"request"}, id : Nat, method : Method \ DocumentMethod]
  BY <1>3
<1>4. CASE m \in [type : {"notification"}, method : {"initialized", "exit",
                    "workspace/didChangeConfiguration", "other"}]
  BY <1>4
<1>5. CASE m \in [type : {"response"}, id : Nat, setting : Setting \cup {"unusable"}]
  BY <1>5
<1>6. CASE m \in [type : {"response"}, id : Nat, folders : FolderLists]
  BY <1>1, <1>6
<1>7. CASE m \in [type : {"response"}, id : Nat]
  BY <1>7
<1> QED
  BY <1>2, <1>3, <1>4, <1>5, <1>6, <1>7 DEF ClientMessage

(* The messages of the server.                                             *)
LEMMA ServerMessages ==
  /\ \A id \in Nat : /\ VoidResponse(id) \in ServerMessage
                     /\ VoidResponse(id).type = "response"
  /\ telemetryError \in ServerMessage /\ telemetryError.type = "notification"
  /\ treeViewReady \in ServerMessage /\ treeViewReady.type = "notification"
  /\ \A id \in Nat, method \in ServerMethod : Request(id, method) \in ServerMessage
BY DEF VoidResponse, telemetryError, treeViewReady, Notification, Request, ServerMessage

(* initialized: two requests.                                              *)
LEMMA InitializedTypeInv ==
  ASSUME TypeInv, NEW m, Read(m), notification_initialized(m)
  PROVE  TypeInv'
<1> DEFINE folders == "workspace/workspaceFolders"
           configuration == "workspace/configuration"
           first == Request(nextId, folders)
           second == Request(nextId + 1, configuration)
           once == Extended(responseCallbacks, nextId, folders)
<1>1. folders \in ServerMethod /\ configuration \in ServerMethod
  BY DEF ServerMethod
<1>2. /\ toServer # <<>> /\ m = Head(toServer) /\ toServer' = Tail(toServer)
      /\ sendStack \in Seq(ServerMessage) /\ nextId \in Nat
      /\ toClient' = toClient /\ toAnswer' = toAnswer
      /\ ClientTypeOK'
  BY ReadType
<1>3. DOMAIN responseCallbacks \subseteq 0..(nextId - 1)
  BY DEF TypeInv, ExchangeNow, Exchange
<1>4. /\ nextId' = nextId + 2
      /\ responseCallbacks' = Extended(once, nextId + 1, configuration)
  BY <1>2, <1>3, TwoRequests DEF notification_initialized
<1>5. sendStack' = Append(Append(sendStack, first), second)
  <2>1. first \in ServerMessage /\ second \in ServerMessage
    BY <1>1, <1>2, ServerMessages
  <2> QED
    BY <1>2, <2>1, PushLists DEF notification_initialized, Push
<1> HIDE DEF folders, configuration
<1>6. Exchange(sendStack, toClient, toAnswer, Tail(toServer), responseCallbacks, nextId)
  <2>1. Head(toServer).type # "response"
    BY <1>2 DEF notification_initialized
  <2> QED
    BY <1>2, <2>1, TakeOther DEF TypeInv, ExchangeNow
<1>7. Exchange(Append(sendStack, first), toClient, toAnswer, Tail(toServer),
               once, nextId + 1)
  BY <1>1, <1>6, PushRequest
<1>8. Exchange(Append(Append(sendStack, first), second), toClient, toAnswer,
               Tail(toServer), Extended(once, nextId + 1, configuration),
               (nextId + 1) + 1)
  <2> HIDE DEF once, first
  <2> QED
    BY <1>1, <1>7, PushRequest
<1>9. ExchangeNow'
  <2>1. (nextId + 1) + 1 = nextId + 2
    BY <1>2
  <2> HIDE DEF once, first, second
  <2> QED
    BY <1>2, <1>4, <1>5, <1>8, <2>1 DEF ExchangeNow
<1>10. ServerTypeOK'
  BY DEF notification_initialized, Push, TypeInv, ServerTypeOK, StoragesTypeOK
<1> QED
  BY <1>2, <1>9, <1>10 DEF TypeInv

(* didChangeConfiguration: a request.                                      *)
LEMMA DidChangeConfigurationTypeInv ==
  ASSUME TypeInv, NEW m, Read(m), notification_workspace_didChangeConfiguration(m)
  PROVE  TypeInv'
<1> DEFINE configuration == "workspace/configuration"
           request == Request(nextId, configuration)
<1>1. configuration \in ServerMethod
  BY DEF ServerMethod
<1>2. /\ toServer # <<>> /\ m = Head(toServer) /\ toServer' = Tail(toServer)
      /\ sendStack \in Seq(ServerMessage) /\ nextId \in Nat
      /\ toClient' = toClient /\ toAnswer' = toAnswer
      /\ ClientTypeOK'
  BY ReadType
<1>3. DOMAIN responseCallbacks \subseteq 0..(nextId - 1)
  BY DEF TypeInv, ExchangeNow, Exchange
<1>4. /\ nextId' = nextId + 1
      /\ responseCallbacks' = Extended(responseCallbacks, nextId, configuration)
  BY <1>2, <1>3, OneRequest DEF notification_workspace_didChangeConfiguration
<1>5. sendStack' = Append(sendStack, request)
  <2>1. request \in ServerMessage
    BY <1>1, <1>2, ServerMessages
  <2> QED
    BY <1>2, <2>1, PushLists DEF notification_workspace_didChangeConfiguration, Push
<1> HIDE DEF configuration
<1>6. Exchange(sendStack, toClient, toAnswer, Tail(toServer), responseCallbacks, nextId)
  <2>1. Head(toServer).type # "response"
    BY <1>2 DEF notification_workspace_didChangeConfiguration
  <2> QED
    BY <1>2, <2>1, TakeOther DEF TypeInv, ExchangeNow
<1>7. ExchangeNow'
  BY <1>1, <1>2, <1>4, <1>5, <1>6, PushRequest DEF ExchangeNow
<1>8. ServerTypeOK'
  BY DEF notification_workspace_didChangeConfiguration, Push, TypeInv,
         ServerTypeOK, StoragesTypeOK
<1> QED
  BY <1>2, <1>7, <1>8 DEF TypeInv

(* exit, and what no callback is found for.                                *)
LEMMA NothingPushedTypeInv ==
  ASSUME TypeInv, NEW m, Read(m), notification_exit(m) \/ badEntity(m)
  PROVE  TypeInv'
<1>1. /\ toServer # <<>> /\ m = Head(toServer) /\ toServer' = Tail(toServer)
      /\ toClient' = toClient /\ toAnswer' = toAnswer
      /\ ClientTypeOK'
  BY ReadType
<1>2. UNCHANGED <<sendStack, responseCallbacks, nextId, setting, storages>>
  BY DEF notification_exit, badEntity, serverVars
<1>3. pc' \in {pc, "stopped"}
  BY DEF notification_exit, badEntity, serverVars
<1>4. m.type # "response"
  <2>1. CASE notification_exit(m)
    BY <2>1 DEF notification_exit
  <2>2. CASE badEntity(m)
    <3>1. m.type = "response" => m.id \in DOMAIN responseCallbacks
      BY <1>1, TakeResponse DEF TypeInv, ExchangeNow
    <3> QED
      BY <2>2, <3>1 DEF badEntity
  <2> QED
    BY <2>1, <2>2
<1>5. ExchangeNow'
  BY <1>1, <1>2, <1>4, TakeOther DEF TypeInv, ExchangeNow
<1>6. ServerTypeOK'
  BY <1>2, <1>3 DEF TypeInv, ServerTypeOK, StoragesTypeOK
<1> QED
  BY <1>1, <1>5, <1>6 DEF TypeInv

(* Responses to initialize, shutdown and requests on documents.            *)
LEMMA RequestTypeInv ==
  ASSUME TypeInv, NEW m, Read(m),
         request_initialize_shutdown(m) \/ request_document(m)
  PROVE  TypeInv'
<1>1. /\ toServer # <<>> /\ m = Head(toServer) /\ toServer' = Tail(toServer)
      /\ m \in ClientMessage
      /\ sendStack \in Seq(ServerMessage)
      /\ toClient' = toClient /\ toAnswer' = toAnswer
      /\ ClientTypeOK'
  BY ReadType
<1>2. m.type = "request" /\ UNCHANGED <<responseCallbacks, nextId, setting>>
  BY DEF request_initialize_shutdown, request_document
<1> DEFINE response == VoidResponse(m.id)
<1>3. /\ response \in ServerMessage /\ response.type # "request"
      /\ telemetryError \in ServerMessage /\ telemetryError.type # "request"
  BY <1>1, <1>2, ClientMessageParts, ServerMessages
<1>4. pc' \in {"write", "crashed"}
  BY DEF request_initialize_shutdown, request_document, Push, Crash
<1>5. \/ sendStack' = sendStack
      \/ sendStack' = Append(sendStack, response)
      \/ sendStack' = Append(Append(sendStack, telemetryError), response)
  <2>1. /\ sendStack \o <<response>> = Append(sendStack, response)
        /\ sendStack \o <<telemetryError, response>> =
             Append(Append(sendStack, telemetryError), response)
    BY <1>1, <1>3, PushLists
  <2> QED
    BY <2>1 DEF request_initialize_shutdown, request_document, Push, Crash
<1> HIDE DEF response
<1>6. Exchange(sendStack, toClient, toAnswer, Tail(toServer), responseCallbacks, nextId)
  BY <1>1, <1>2, TakeOther DEF TypeInv, ExchangeNow
<1>7. Exchange(Append(sendStack, response), toClient, toAnswer, Tail(toServer),
               responseCallbacks, nextId)
  BY <1>3, <1>6, PushOther
<1>8. Exchange(Append(sendStack, telemetryError), toClient, toAnswer,
               Tail(toServer), responseCallbacks, nextId)
  BY <1>3, <1>6, PushOther
<1>9. Exchange(Append(Append(sendStack, telemetryError), response), toClient,
               toAnswer, Tail(toServer), responseCallbacks, nextId)
  BY <1>3, <1>8, PushOther
<1>10. ExchangeNow'
  BY <1>1, <1>2, <1>5, <1>6, <1>7, <1>9 DEF ExchangeNow
<1>11. StoragesTypeOK'
  <2>1. storages \in Seq(SUBSET DocumentUri)
    BY DEF TypeInv, ServerTypeOK, StoragesTypeOK
  <2>2. CASE request_initialize_shutdown(m)
    BY <2>1, <2>2 DEF request_initialize_shutdown, StoragesTypeOK
  <2>3. CASE request_document(m)
    <3>1. {m.uri} \in SUBSET DocumentUri
      BY <1>1, <2>3, ClientMessageParts DEF request_document
    <3>2. storages' \in {storages, Append(storages, {m.uri})}
      BY <2>3 DEF request_document, getStorageForUri
    <3> QED
      BY <2>1, <3>1, <3>2, AppendProperties DEF StoragesTypeOK
  <2> QED
    BY <2>2, <2>3
<1>12. ServerTypeOK'
  BY <1>2, <1>4, <1>11 DEF TypeInv, ServerTypeOK
<1> QED
  BY <1>1, <1>10, <1>12 DEF TypeInv

(* Responses to the server's requests for the setting and for              *)
(* registration.                                                           *)
LEMMA ResponseTypeInv ==
  ASSUME TypeInv, NEW m, Read(m),
         response_workspace_configuration(m) \/ response_void(m)
  PROVE  TypeInv'
<1>1. /\ toServer # <<>> /\ m = Head(toServer) /\ toServer' = Tail(toServer)
      /\ m \in ClientMessage
      /\ sendStack \in Seq(ServerMessage)
      /\ toClient' = toClient /\ toAnswer' = toAnswer
      /\ ClientTypeOK'
  BY ReadType
<1>2. /\ m.type = "response"
      /\ responseCallbacks' = WithoutCallback(m.id)
      /\ UNCHANGED <<nextId, storages>>
  BY DEF response_workspace_configuration, response_void, Awaited
<1>3. sendStack' = sendStack /\ pc' \in {"write", "crashed"}
  BY <1>1, PushLists
     DEF response_workspace_configuration, response_void, Push, Crash
<1>4. /\ Fits(m, responseCallbacks[m.id])
      /\ Exchange(sendStack, toClient, toAnswer, Tail(toServer),
                  WithoutCallback(m.id), nextId)
  BY <1>1, <1>2, TakeResponse DEF TypeInv, ExchangeNow, WithoutCallback
<1>5. ExchangeNow'
  BY <1>1, <1>2, <1>3, <1>4 DEF ExchangeNow
<1>6. setting' \in Setting
  <2>1. CASE response_workspace_configuration(m)
    <3>1. "setting" \in DOMAIN m
      BY <1>4, <2>1 DEF response_workspace_configuration, Fits
    <3>2. m.setting \in Setting \cup {"unusable"}
      BY <1>1, <3>1, ClientMessageParts
    <3> QED
      BY <2>1, <3>2 DEF response_workspace_configuration, TypeInv, ServerTypeOK
  <2>2. CASE response_void(m)
    BY <2>2 DEF response_void, TypeInv, ServerTypeOK
  <2> QED
    BY <2>1, <2>2
<1>7. ServerTypeOK'
  BY <1>2, <1>3, <1>6 DEF TypeInv, ServerTypeOK, StoragesTypeOK
<1> QED
  BY <1>1, <1>5, <1>7 DEF TypeInv

-----------------------------------------------------------------------------
(* The answer to workspace/workspaceFolders.                               *)

(* A set of numbers has a least one.                                       *)
LEMMA LeastNumber ==
  ASSUME NEW T \in SUBSET Nat, T # {}
  PROVE  \E x \in T : \A y \in T : x <= y
<1> DEFINE R == OpToRel(<, Nat)
<1>1. IsWellFoundedOn(R, Nat)
  BY NatLessThanWellFounded
<1>2. \A x, y \in Nat : <<x, y>> \in R <=> x < y
  BY DEF OpToRel
<1>3. PICK x \in T : \A y \in T : ~(<<y, x>> \in R)
  <2> HIDE DEF R
  <2> QED
    BY <1>1, WFMin
<1> HIDE DEF R
<1>4. ASSUME NEW y \in T
      PROVE  x <= y
  <2>1. x \in Nat /\ y \in Nat
    OBVIOUS
  <2>2. ~(y < x)
    BY <1>2, <1>3, <2>1
  <2> QED
    BY <2>1, <2>2
<1> QED
  BY <1>4

(* There is one number of folders parsed: those before the first that does *)
(* not open.                                                               *)
LEMMA ParsedType ==
  ASSUME NEW folders \in Seq(Folder)
  PROVE  Parsed(folders) \in 0..Len(folders)
<1> DEFINE n == Len(folders)
           Upto(k) == /\ \A i \in 1..k : Opens(folders[i])
                      /\ k < n => ~Opens(folders[k + 1])
           bad == {i \in 1..n : ~Opens(folders[i])}
<1>1. n \in Nat
  OBVIOUS
<1>2. CASE bad = {}
  BY <1>1, <1>2 DEF Parsed
<1>3. CASE bad # {}
  <2>1. bad \in SUBSET Nat
    BY <1>1
  <2>2. PICK j \in bad : \A i \in bad : j <= i
    <3> HIDE DEF bad
    <3> QED
      BY <1>3, <2>1, LeastNumber
  <2>3. j - 1 \in 0..n /\ (j - 1) + 1 = j /\ j \in 1..n
    BY <1>1
  <2>4. \A i \in 1..(j - 1) : Opens(folders[i])
    BY <1>1, <2>2, <2>3
  <2>5. Upto(j - 1)
    BY <2>2, <2>3, <2>4
  <2> QED
    BY <2>3, <2>5 DEF Parsed
<1> QED
  BY <1>2, <1>3

(* What is parsed becomes storages, behind those there are.                *)
LEMMA FoldersParsed ==
  ASSUME NEW folders \in Seq(Folder), storages \in Seq(SUBSET DocumentUri),
         parseFullFolders(folders)
  PROVE  LET parsed == [i \in 1..Parsed(folders) |->
                          {helper_makeURI(file) : file \in folders[i].files}]
         IN /\ parsed \in Seq(SUBSET DocumentUri)
            /\ storages' = storages \o parsed
            /\ storages' \in Seq(SUBSET DocumentUri)
            /\ \A k \in 1..Len(parsed) : \A uri \in parsed[k] : uri.colon = "%3A"
<1> DEFINE parsed == [i \in 1..Parsed(folders) |->
                        {helper_makeURI(file) : file \in folders[i].files}]
<1>1. Parsed(folders) \in Nat /\ \A i \in 1..Parsed(folders) : i \in 1..Len(folders)
  BY ParsedType, LenProperties
<1>2. ASSUME NEW i \in 1..Parsed(folders), NEW file \in folders[i].files
      PROVE  helper_makeURI(file) \in DocumentUri /\ helper_makeURI(file).colon = "%3A"
  <2>1. folders[i] \in Folder
    BY <1>1, ElementOfSeq
  <2>2. file \in Text
    BY <2>1, FilesAssumption DEF Folder
  <2> QED
    BY <2>2 DEF helper_makeURI, DocumentUri
<1>3. \A i \in 1..Parsed(folders) : parsed[i] \in SUBSET DocumentUri
  BY <1>2
<1>4. parsed \in [1..Parsed(folders) -> SUBSET DocumentUri]
  BY <1>3
<1>5. parsed \in Seq(SUBSET DocumentUri) /\ Len(parsed) = Parsed(folders)
  <2> HIDE DEF parsed
  <2> QED
    BY <1>1, <1>4, SeqDef, LenProperties
<1>6. \A k \in 1..Len(parsed) : \A uri \in parsed[k] : uri.colon = "%3A"
  BY <1>2, <1>5
<1>7. storages' = storages \o parsed
  BY DEF parseFullFolders
<1> HIDE DEF parsed
<1>8. storages' \in Seq(SUBSET DocumentUri)
  BY <1>5, <1>7, ConcatProperties
<1> QED
  BY <1>5, <1>6, <1>7, <1>8 DEF parsed

(* treeViewReady and a request, when all folders are parsed.               *)
LEMMA FoldersTypeInv ==
  ASSUME TypeInv, NEW m, Read(m), response_workspace_workspaceFolders(m)
  PROVE  TypeInv'
<1> DEFINE registration == "client/registerCapability"
           request == Request(nextId, registration)
           callbacks == WithoutCallback(m.id)
<1>1. /\ toServer # <<>> /\ m = Head(toServer) /\ toServer' = Tail(toServer)
      /\ m \in ClientMessage
      /\ sendStack \in Seq(ServerMessage) /\ nextId \in Nat
      /\ toClient' = toClient /\ toAnswer' = toAnswer
      /\ ClientTypeOK'
  BY ReadType
<1>2. m.type = "response" /\ m.id \in DOMAIN responseCallbacks
  BY DEF response_workspace_workspaceFolders, Awaited
<1>3. /\ Fits(m, responseCallbacks[m.id])
      /\ Exchange(sendStack, toClient, toAnswer, Tail(toServer), callbacks, nextId)
  BY <1>1, <1>2, TakeResponse DEF TypeInv, ExchangeNow, WithoutCallback
<1>4. registration \in ServerMethod /\ request \in ServerMessage
  BY <1>1, ServerMessages DEF ServerMethod
<1>5. DOMAIN callbacks \subseteq 0..(nextId - 1)
  BY <1>3 DEF Exchange
<1> HIDE DEF registration, callbacks
<1>6. ExchangeNow' /\ pc' \in {"write", "crashed"}
  <2>1. CASE AllParsed(m.folders)
    <3>1. sendStack' = Append(Append(sendStack, treeViewReady), request)
      BY <1>1, <1>4, <2>1, PushLists, ServerMessages
         DEF response_workspace_workspaceFolders, Push, registration
    <3>2. /\ nextId' = nextId + 1
          /\ responseCallbacks' = Extended(callbacks, nextId, registration)
      BY <1>1, <1>5, <2>1, OneRequest
         DEF response_workspace_workspaceFolders, registration, callbacks
    <3>3. Exchange(Append(sendStack, treeViewReady), toClient, toAnswer,
                   Tail(toServer), callbacks, nextId)
      BY <1>3, PushOther, ServerMessages
    <3>4. Exchange(Append(Append(sendStack, treeViewReady), request), toClient,
                   toAnswer, Tail(toServer),
                   Extended(callbacks, nextId, registration), nextId + 1)
      BY <1>4, <3>3, PushRequest
    <3> HIDE DEF request
    <3>5. ExchangeNow'
      BY <1>1, <3>1, <3>2, <3>4 DEF ExchangeNow
    <3> QED
      BY <2>1, <3>5 DEF response_workspace_workspaceFolders, Push
  <2>2. CASE ~AllParsed(m.folders)
    BY <1>1, <1>3, <2>2
       DEF response_workspace_workspaceFolders, Crash, ExchangeNow, callbacks
  <2> QED
    BY <2>1, <2>2
<1>7. StoragesTypeOK'
  <2>1. "folders" \in DOMAIN m
    BY <1>3 DEF response_workspace_workspaceFolders, Fits
  <2>2. m.folders \in Seq(Folder)
    BY <1>1, <2>1, ClientMessageParts
  <2> QED
    BY <2>2, FoldersParsed
       DEF response_workspace_workspaceFolders, TypeInv, ServerTypeOK,
           StoragesTypeOK
<1>8. ServerTypeOK'
  BY <1>6, <1>7 DEF response_workspace_workspaceFolders, TypeInv, ServerTypeOK
<1> QED
  BY <1>1, <1>6, <1>8 DEF TypeInv

(* A message is written, or all are.                                       *)
LEMMA WriteTypeInv ==
  ASSUME TypeInv, WriteMessage \/ WriteDone
  PROVE  TypeInv'
<1>1. /\ UNCHANGED <<responseCallbacks, nextId, setting, storages, toServer>>
      /\ toAnswer' = toAnswer
      /\ pc' \in {pc, "read"}
  BY DEF WriteMessage, WriteDone, clientVars
<1>2. ClientTypeOK'
  BY DEF TypeInv, ClientTypeOK, WriteMessage, WriteDone, clientVars
<1>3. ServerTypeOK'
  BY <1>1 DEF TypeInv, ServerTypeOK, StoragesTypeOK
<1>4. ExchangeNow'
  <2>1. CASE WriteMessage
    BY <1>1, <2>1, WriteLast DEF WriteMessage, TypeInv, ExchangeNow
  <2>2. CASE WriteDone
    BY <1>1, <2>2 DEF WriteDone, TypeInv, ExchangeNow
  <2> QED
    BY <2>1, <2>2
<1> QED
  BY <1>2, <1>3, <1>4 DEF TypeInv

-----------------------------------------------------------------------------
(* The steps of the client.                                                *)

(* The client leaves the server's variables alone.                         *)
LEMMA ClientLeavesServer ==
  ASSUME TypeInv, UNCHANGED serverVars
  PROVE  /\ UNCHANGED <<sendStack, responseCallbacks, nextId>>
         /\ ServerTypeOK'
BY DEF serverVars, TypeInv, ServerTypeOK, StoragesTypeOK

(* What the client sends.                                                  *)
LEMMA ClientMessages ==
  /\ \A id \in Nat, method \in DocumentMethod, uri \in ClientUri :
       DocumentRequest(id, method, uri) \in ClientMessage
  /\ \A id \in Nat, method \in OtherMethod \cup {"initialize", "shutdown"} :
       Request(id, method) \in ClientMessage
  /\ \A method \in {"initialized", "exit", "workspace/didChangeConfiguration",
                    "other"} : Notification(method) \in ClientMessage
  /\ \A id \in Nat, value \in Setting \cup {"unusable"} :
       SettingResponse(id, value) \in ClientMessage
  /\ \A id \in Nat, folders \in FolderLists :
       FoldersResponse(id, folders) \in ClientMessage
  /\ \A id \in Nat : VoidResponse(id) \in ClientMessage
<1>1. \A method \in OtherMethod \cup {"initialize", "shutdown"} :
        method \in Method \ DocumentMethod
  BY ServiceAssumption DEF Method, Registered, DocumentMethod
<1>2. \A id \in Nat, method \in OtherMethod \cup {"initialize", "shutdown"} :
        Request(id, method)
          \in [type : {"request"}, id : Nat, method : Method \ DocumentMethod]
  BY <1>1 DEF Request
<1>3. \A id \in Nat, method \in DocumentMethod, uri \in ClientUri :
        DocumentRequest(id, method, uri)
          \in [type : {"request"}, id : Nat, method : DocumentMethod, uri : ClientUri]
  BY DEF DocumentRequest
<1>4. \A method \in {"initialized", "exit", "workspace/didChangeConfiguration",
                     "other"} :
        Notification(method)
          \in [type : {"notification"}, method : {"initialized", "exit",
                 "workspace/didChangeConfiguration", "other"}]
  BY DEF Notification
<1>5. \A id \in Nat, value \in Setting \cup {"unusable"} :
        SettingResponse(id, value)
          \in [type : {"response"}, id : Nat, setting : Setting \cup {"unusable"}]
  BY DEF SettingResponse
<1>6. \A id \in Nat, folders \in FolderLists :
        FoldersResponse(id, folders)
          \in [type : {"response"}, id : Nat, folders : FolderLists]
  BY DEF FoldersResponse
<1>7. \A id \in Nat : VoidResponse(id) \in [type : {"response"}, id : Nat]
  BY DEF VoidResponse
<1> QED
  BY <1>2, <1>3, <1>4, <1>5, <1>6, <1>7 DEF ClientMessage

(* The client sends a message that is not a response.                      *)
LEMMA SentTypeInv ==
  ASSUME TypeInv, NEW m \in ClientMessage, m.type # "response", Send(m),
         UNCHANGED serverVars, toClient' = toClient, toAnswer' = toAnswer,
         ClientTypeOK'
  PROVE  TypeInv'
<1>1. UNCHANGED <<sendStack, responseCallbacks, nextId>> /\ ServerTypeOK'
  BY ClientLeavesServer
<1>2. ExchangeNow'
  BY <1>1, SendOther DEF Send, TypeInv, ExchangeNow
<1> QED
  BY <1>1, <1>2 DEF TypeInv

(* Requests.                                                               *)
LEMMA AskTypeInv ==
  ASSUME TypeInv, ClientInitialize \/ ClientRequest \/ ClientShutdown
  PROVE  TypeInv'
<1>1. asked \in Nat
  BY DEF TypeInv, ClientTypeOK
<1>2. PICK m \in ClientMessage : m.type = "request" /\ Ask(m)
  <2>1. CASE ClientInitialize
    BY <1>1, <2>1, ClientMessages DEF ClientInitialize, Request
  <2>2. CASE ClientRequest
    BY <1>1, <2>2, ClientMessages DEF ClientRequest, Request, DocumentRequest
  <2>3. CASE ClientShutdown
    BY <1>1, <2>3, ClientMessages DEF ClientShutdown, Request
  <2> QED
    BY <2>1, <2>2, <2>3
<1>3. /\ phase' \in {phase, "initializing", "shutdown"}
      /\ UNCHANGED serverVars /\ toClient' = toClient
      /\ UNCHANGED <<answered, toAnswer, clientSetting, unannounced, registered,
                     changes>>
  BY DEF ClientInitialize, ClientRequest, ClientShutdown
<1>4. ClientTypeOK'
  BY <1>1, <1>2, <1>3 DEF Ask, TypeInv, ClientTypeOK
<1> QED
  BY <1>2, <1>3, <1>4, SentTypeInv DEF Ask

(* A change of the setting, and a notification without a callback.         *)
LEMMA ChangeTypeInv ==
  ASSUME TypeInv, ClientChange \/ ClientOther
  PROVE  TypeInv'
<1>1. UNCHANGED serverVars /\ toClient' = toClient /\ toAnswer' = toAnswer
  BY DEF ClientChange, ClientOther, clientVars
<1>2. ClientTypeOK'
  <2>1. CASE ClientChange
    <3>1. UNCHANGED <<phase, asked, answered, registered>>
      BY <2>1 DEF ClientChange
    <3>2. changes' \in Nat
      <4>1. changes \in Nat /\ changes' = changes + 1
        BY <2>1 DEF ClientChange, TypeInv, ClientTypeOK
      <4> QED
        BY <4>1
    <3>3. clientSetting' \in Setting
      BY <2>1 DEF ClientChange
    <3>4. unannounced' = unannounced \/ unannounced' = TRUE
      BY <2>1 DEF ClientChange
    <3>5. unannounced' \in BOOLEAN
      BY <3>4 DEF TypeInv, ClientTypeOK
    <3> QED
      BY <3>1, <3>2, <3>3, <3>5 DEF TypeInv, ClientTypeOK
  <2>2. CASE ClientOther
    BY <2>2 DEF ClientOther, clientVars, TypeInv, ClientTypeOK
  <2> QED
    BY <2>1, <2>2
<1>3. CASE toServer' = toServer
  <2>1. UNCHANGED <<sendStack, responseCallbacks, nextId>> /\ ServerTypeOK'
    BY <1>1, ClientLeavesServer
  <2> QED
    BY <1>1, <1>2, <1>3, <2>1 DEF TypeInv, ExchangeNow
<1>4. ASSUME NEW method \in {"workspace/didChangeConfiguration", "other"},
             Send(Notification(method))
      PROVE  TypeInv'
  <2> DEFINE m == Notification(method)
  <2>1. m \in ClientMessage /\ m.type # "response"
    BY ClientMessages DEF Notification
  <2> HIDE DEF m
  <2>2. Send(m)
    BY <1>4 DEF m
  <2> QED
    BY <1>1, <1>2, <2>1, <2>2, SentTypeInv
<1> QED
  BY <1>3, <1>4 DEF ClientChange, ClientOther

(* A message is received: responses may be answered with notifications.    *)
LEMMA ReceiveTypeInv ==
  ASSUME TypeInv, ClientReceive
  PROVE  TypeInv'
<1> DEFINE m == Head(toClient)
<1>1. /\ toClient # <<>> /\ toClient' = Tail(toClient)
      /\ UNCHANGED serverVars
      /\ UNCHANGED <<asked, clientSetting, unannounced, registered, changes>>
  BY DEF ClientReceive
<1>2. toClient \in Seq(ServerMessage) /\ answered \in Seq(Nat)
  BY DEF TypeInv, ClientTypeOK, ExchangeNow, Exchange
<1>3. m \in ServerMessage
  BY <1>1, <1>2, HeadTailProperties
<1>4. UNCHANGED <<sendStack, responseCallbacks, nextId>> /\ ServerTypeOK'
  BY <1>1, ClientLeavesServer
<1>5. CASE ClientResponse(m)
  <2>1. m.type = "response" /\ m.id \in Nat
    BY <1>3, <1>5 DEF ClientResponse, ServerMessage, treeViewReady,
                      telemetryError, Notification
  <2>2. answered' \in Seq(Nat)
    BY <1>2, <1>5, <2>1, AppendProperties DEF ClientResponse
  <2>3. phase' \in {phase, "running", "exited"} /\ toAnswer' = toAnswer
    BY <1>5 DEF ClientResponse
  <2>4. ClientTypeOK'
    BY <1>1, <2>2, <2>3 DEF TypeInv, ClientTypeOK
  <2>5. Exchange(sendStack, Tail(toClient), toAnswer, toServer,
                 responseCallbacks, nextId)
    BY <1>1, <2>1, ReceiveOther DEF TypeInv, ExchangeNow
  <2>6. \/ toServer' = toServer
        \/ \E method \in {"initialized", "exit"} : Send(Notification(method))
    BY <1>5 DEF ClientResponse
  <2>7. ASSUME NEW method \in {"initialized", "exit"}, Send(Notification(method))
        PROVE  ExchangeNow'
    <3> DEFINE n == Notification(method)
    <3>1. n \in ClientMessage /\ n.type # "response"
      BY ClientMessages DEF Notification
    <3>2. toServer' = Append(toServer, n)
      BY <2>7 DEF Send
    <3> HIDE DEF n
    <3>3. Exchange(sendStack, Tail(toClient), toAnswer, Append(toServer, n),
                   responseCallbacks, nextId)
      BY <2>5, <3>1, SendOther
    <3> QED
      BY <1>1, <1>4, <2>3, <3>2, <3>3 DEF ExchangeNow
  <2>8. ExchangeNow'
    BY <1>1, <1>4, <2>3, <2>5, <2>6, <2>7 DEF ExchangeNow
  <2> QED
    BY <1>4, <2>4, <2>8 DEF TypeInv
<1>6. CASE /\ m.type = "request"
           /\ toAnswer' = toAnswer \cup {m}
           /\ UNCHANGED <<phase, answered, toServer>>
  <2>1. ClientTypeOK'
    BY <1>1, <1>6 DEF TypeInv, ClientTypeOK
  <2>2. ExchangeNow'
    BY <1>1, <1>4, <1>6, ReceiveRequest DEF TypeInv, ExchangeNow
  <2> QED
    BY <1>4, <2>1, <2>2 DEF TypeInv
<1>7. CASE /\ m.type = "notification"
           /\ UNCHANGED <<phase, answered, toAnswer, toServer>>
  <2>1. ClientTypeOK'
    BY <1>1, <1>7 DEF TypeInv, ClientTypeOK
  <2>2. ExchangeNow'
    BY <1>1, <1>4, <1>7, ReceiveOther DEF TypeInv, ExchangeNow
  <2> QED
    BY <1>4, <2>1, <2>2 DEF TypeInv
<1> QED
  BY <1>5, <1>6, <1>7 DEF ClientReceive

(* The client's answer fits the request.                                   *)
LEMMA AnswerTypeInv ==
  ASSUME TypeInv, ClientAnswer
  PROVE  TypeInv'
<1>1. UNCHANGED serverVars /\ toClient' = toClient
      /\ UNCHANGED <<phase, asked, answered, clientSetting, changes>>
  BY DEF ClientAnswer
<1>2. UNCHANGED <<sendStack, responseCallbacks, nextId>> /\ ServerTypeOK'
  BY <1>1, ClientLeavesServer
<1>3. ClientTypeOK'
  BY <1>1 DEF ClientAnswer, TypeInv, ClientTypeOK
<1>4. PICK m \in toAnswer, response \in ClientMessage :
        /\ toAnswer' = toAnswer \ {m}
        /\ Send(response)
        /\ response.type = "response" /\ response.id = m.id
        /\ Fits(response, m.method)
  <2>1. PICK m \in toAnswer :
          /\ toAnswer' = toAnswer \ {m}
          /\ \/ /\ m.method = "workspace/configuration"
                /\ \E value \in {clientSetting, "unusable"} :
                     Send(SettingResponse(m.id, value))
             \/ /\ m.method = "workspace/workspaceFolders"
                /\ \E folders \in FolderLists : Send(FoldersResponse(m.id, folders))
             \/ /\ m.method = "client/registerCapability"
                /\ Send(VoidResponse(m.id))
    BY DEF ClientAnswer
  <2>2. m.id \in Nat
    BY ServerRequests DEF TypeInv, ExchangeNow, Exchange
  <2>3. CASE /\ m.method = "workspace/configuration"
             /\ \E value \in {clientSetting, "unusable"} :
                  Send(SettingResponse(m.id, value))
    <3>1. PICK value \in Setting \cup {"unusable"} :
            Send(SettingResponse(m.id, value))
      BY <2>3 DEF TypeInv, ClientTypeOK
    <3> DEFINE response == SettingResponse(m.id, value)
    <3>2. response \in ClientMessage
      BY <2>2, ClientMessages
    <3>3. /\ response.type = "response" /\ response.id = m.id
          /\ Fits(response, m.method)
      BY <2>3 DEF SettingResponse, Fits
    <3> QED
      BY <2>1, <3>1, <3>2, <3>3
  <2>4. CASE /\ m.method = "workspace/workspaceFolders"
             /\ \E folders \in FolderLists : Send(FoldersResponse(m.id, folders))
    <3>1. PICK folders \in FolderLists : Send(FoldersResponse(m.id, folders))
      BY <2>4
    <3> DEFINE response == FoldersResponse(m.id, folders)
    <3>2. response \in ClientMessage
      BY <2>2, ClientMessages
    <3>3. /\ response.type = "response" /\ response.id = m.id
          /\ Fits(response, m.method)
      BY <2>4 DEF FoldersResponse, Fits
    <3> QED
      BY <2>1, <3>1, <3>2, <3>3
  <2>5. CASE m.method = "client/registerCapability" /\ Send(VoidResponse(m.id))
    <3> DEFINE response == VoidResponse(m.id)
    <3>1. response \in ClientMessage
      BY <2>2, ClientMessages
    <3>2. /\ response.type = "response" /\ response.id = m.id
          /\ Fits(response, m.method)
      BY <2>5 DEF VoidResponse, Fits
    <3> QED
      BY <2>1, <2>5, <3>1, <3>2
  <2> QED
    BY <2>1, <2>3, <2>4, <2>5
<1>5. Exchange(sendStack, toClient, toAnswer \ {m}, Append(toServer, response),
               responseCallbacks, nextId)
  BY <1>4, SendResponse DEF TypeInv, ExchangeNow
<1>6. ExchangeNow'
  BY <1>1, <1>2, <1>4, <1>5 DEF Send, ExchangeNow
<1> QED
  BY <1>2, <1>3, <1>6 DEF TypeInv

-----------------------------------------------------------------------------
(* All steps.                                                              *)

(* TypeInv is inductive.                                                   *)
LEMMA NextTypeInv == TypeInv /\ [Next]_vars => TypeInv'
<1> SUFFICES ASSUME TypeInv, [Next]_vars
             PROVE  TypeInv'
  OBVIOUS
<1>1. ASSUME NEW m, Read(m), \/ notification_initialized(m)
                             \/ notification_workspace_didChangeConfiguration(m)
                             \/ notification_exit(m)
                             \/ request_initialize_shutdown(m)
                             \/ request_document(m)
                             \/ response_workspace_configuration(m)
                             \/ response_workspace_workspaceFolders(m)
                             \/ response_void(m)
                             \/ badEntity(m)
      PROVE  TypeInv'
  BY <1>1, InitializedTypeInv, DidChangeConfigurationTypeInv,
     NothingPushedTypeInv, RequestTypeInv, ResponseTypeInv, FoldersTypeInv
<1>2. CASE Server
  BY <1>1, <1>2, WriteTypeInv DEF Server
<1>3. CASE Client
  BY <1>3, AskTypeInv, ChangeTypeInv, ReceiveTypeInv, AnswerTypeInv DEF Client
<1>4. CASE UNCHANGED vars
  BY <1>4 DEF vars, serverVars, clientVars, TypeInv, ServerTypeOK,
              StoragesTypeOK, ClientTypeOK, ExchangeNow
<1> QED
  BY <1>2, <1>3, <1>4 DEF Next

(* The types are an invariant.                                             *)
LEMMA TypeInvInvariant == Spec => []TypeInv
BY InitTypeInv, NextTypeInv, PTL DEF Spec

(* Every variable has its type.                                            *)
THEOREM ServiceTypes == Spec => []TypeOK
BY TypeInvInvariant, TypeInvMeansTypeOK, PTL

(* Each request of the server has one callback, and the callback waits as  *)
(* long as the request or its response is on its way, and no longer.       *)
THEOREM CallbacksAnswered == Spec => []CallbackPerRequest
BY TypeInvInvariant, ExchangeMeansCallbacks, PTL

-----------------------------------------------------------------------------
(* The storages.                                                           *)

(* Storages are added behind those there are, of files in URIs as the      *)
(* server makes them.                                                      *)
LEMMA StoragesGrow ==
  ASSUME TypeInv, [Next]_vars
  PROVE  \/ storages' = storages
         \/ \E parsed \in Seq(SUBSET DocumentUri) :
              /\ storages' = storages \o parsed
              /\ \A k \in 1..Len(parsed) : \A uri \in parsed[k] : uri.colon = "%3A"
<1>1. storages \in Seq(SUBSET DocumentUri)
  BY DEF TypeInv, ServerTypeOK, StoragesTypeOK
<1>2. ASSUME NEW m, Read(m), request_document(m), storages' # storages
      PROVE  \E parsed \in Seq(SUBSET DocumentUri) :
               /\ storages' = storages \o parsed
               /\ \A k \in 1..Len(parsed) : \A uri \in parsed[k] : uri.colon = "%3A"
  <2>1. storages' = Append(storages, {m.uri}) /\ m.uri.colon = "%3A"
    BY <1>2 DEF request_document, getStorageForUri, parsesFile,
                helper_sanitizeUri, throwsOutOfRange
  <2> DEFINE file == {m.uri}
             parsed == <<file>>
  <2>2. file \in SUBSET DocumentUri
    BY <1>2, ReadType, ClientMessageParts DEF request_document
  <2> HIDE DEF file
  <2>3. parsed \in Seq(SUBSET DocumentUri) /\ Len(parsed) = 1 /\ parsed[1] = file
    BY <2>2
  <2>4. storages' = storages \o parsed
    BY <1>1, <2>1, <2>2, AppendIsConcat DEF file
  <2>5. \A k \in 1..Len(parsed) : \A uri \in parsed[k] : uri.colon = "%3A"
    BY <2>1, <2>3 DEF file
  <2> HIDE DEF parsed
  <2> QED
    BY <2>3, <2>4, <2>5
<1>3. ASSUME NEW m, Read(m), response_workspace_workspaceFolders(m)
      PROVE  \E parsed \in Seq(SUBSET DocumentUri) :
               /\ storages' = storages \o parsed
               /\ \A k \in 1..Len(parsed) : \A uri \in parsed[k] : uri.colon = "%3A"
  <2>1. m \in ClientMessage /\ Fits(m, responseCallbacks[m.id])
    <3>1. toServer # <<>> /\ m = Head(toServer) /\ m \in ClientMessage
      BY <1>3, ReadType
    <3>2. m.type = "response"
      BY <1>3 DEF response_workspace_workspaceFolders, Awaited
    <3> QED
      BY <3>1, <3>2, TakeResponse DEF TypeInv, ExchangeNow
  <2>2. "folders" \in DOMAIN m
    BY <1>3, <2>1 DEF response_workspace_workspaceFolders, Fits
  <2>3. m.folders \in Seq(Folder)
    BY <2>1, <2>2, ClientMessageParts
  <2> QED
    BY <1>1, <1>3, <2>3, FoldersParsed DEF response_workspace_workspaceFolders
<1>4. ASSUME NEW m, Read(m), \/ notification_initialized(m)
                             \/ notification_workspace_didChangeConfiguration(m)
                             \/ notification_exit(m)
                             \/ request_initialize_shutdown(m)
                             \/ response_workspace_configuration(m)
                             \/ response_void(m)
                             \/ badEntity(m)
      PROVE  storages' = storages
  BY <1>4 DEF notification_initialized, notification_exit,
              notification_workspace_didChangeConfiguration,
              request_initialize_shutdown, response_workspace_configuration,
              response_void, badEntity, serverVars
<1>5. CASE Server
  BY <1>2, <1>3, <1>4, <1>5 DEF Server, WriteMessage, WriteDone
<1>6. CASE Client
  BY <1>6 DEF Client, ClientInitialize, ClientRequest, ClientShutdown,
              ClientReceive, ClientAnswer, ClientChange, ClientOther, serverVars
<1>7. CASE UNCHANGED vars
  BY <1>7 DEF vars, serverVars
<1> QED
  BY <1>5, <1>6, <1>7 DEF Next

(* The first storage with a file stays the first when others are added.    *)
LEMMA FirstStorageStays ==
  ASSUME NEW list \in Seq(SUBSET DocumentUri), NEW added \in Seq(SUBSET DocumentUri),
         NEW uri, Containing(list, uri) # {}
  PROVE  ServedBy(list \o added, uri) = ServedBy(list, uri)
<1> DEFINE all == list \o added
<1>1. /\ Len(list) \in Nat /\ Len(all) \in Nat /\ Len(list) <= Len(all)
      /\ DOMAIN list = 1..Len(list) /\ DOMAIN all = 1..Len(all)
      /\ \A k \in 1..Len(list) : all[k] = list[k]
  <2>1. /\ all \in Seq(SUBSET DocumentUri)
        /\ Len(all) = Len(list) + Len(added)
        /\ \A k \in 1..Len(all) :
             all[k] = IF k <= Len(list) THEN list[k] ELSE added[k - Len(list)]
    BY ConcatProperties
  <2>2. Len(list) \in Nat /\ Len(added) \in Nat
    BY LenProperties
  <2> HIDE DEF all
  <2> QED
    BY <2>1, <2>2, LenProperties
<1> HIDE DEF all
<1>2. Containing(list, uri) \in SUBSET Nat /\ Containing(list, uri) \subseteq Containing(all, uri)
  BY <1>1 DEF Containing
<1>3. PICK first \in Containing(list, uri) :
        \A j \in Containing(list, uri) : first <= j
  BY <1>2, LeastNumber
<1>4. first \in 1..Len(list) /\ first \in Containing(all, uri)
  BY <1>1, <1>2, <1>3 DEF Containing
<1>5. ASSUME NEW j \in Containing(all, uri)
      PROVE  first <= j
  <2>1. j \in 1..Len(all) /\ uri \in all[j]
    BY <1>1, <1>5 DEF Containing
  <2>2. CASE j <= Len(list)
    BY <1>1, <1>3, <2>1, <2>2 DEF Containing
  <2>3. CASE ~(j <= Len(list))
    BY <1>1, <1>4, <2>1, <2>3
  <2> QED
    BY <2>2, <2>3
<1>6. \A k \in Containing(all, uri) : k \in Nat
  BY <1>1 DEF Containing
<1>7. ServedBy(list, uri) = first
  <2>1. \A k \in Containing(list, uri) :
          (\A j \in Containing(list, uri) : k <= j) => k = first
    BY <1>2, <1>3
  <2> QED
    BY <1>3, <2>1 DEF ServedBy
<1>8. ServedBy(all, uri) = first
  <2>1. \A k \in Containing(all, uri) :
          (\A j \in Containing(all, uri) : k <= j) => k = first
    BY <1>4, <1>5, <1>6
  <2> QED
    BY <1>4, <1>5, <2>1 DEF ServedBy
<1> QED
  BY <1>7, <1>8 DEF all

(* A file that is in a storage is always served from that one.             *)
THEOREM ServedFromThere == Spec => ServedFromOneStorage
<1> DEFINE Kept == \A uri \in ClientUri :
                     Containing(storages, uri) # {} =>
                       ServedBy(storages', uri) = ServedBy(storages, uri)
<1>1. TypeInv /\ [Next]_vars => [Kept]_vars
  <2> SUFFICES ASSUME TypeInv, [Next]_vars
               PROVE  Kept
    OBVIOUS
  <2>1. storages \in Seq(SUBSET DocumentUri)
    BY DEF TypeInv, ServerTypeOK, StoragesTypeOK
  <2> QED
    BY <2>1, StoragesGrow, FirstStorageStays
<1> QED
  BY <1>1, TypeInvInvariant, PTL DEF Spec, ServedFromOneStorage

(* A file is entered as the server writes its URI, drive letter and colon. *)
StorageUris == \A k \in 1..Len(storages) : \A uri \in storages[k] : uri.colon = "%3A"

(* StorageUris is an invariant.                                            *)
LEMMA StorageUrisInvariant == Spec => []StorageUris
<1>1. Init => StorageUris
  BY EmptySeq DEF Init, StoragesInit, StorageUris
<1>2. TypeInv /\ StorageUris /\ [Next]_vars => StorageUris'
  <2> SUFFICES ASSUME TypeInv, StorageUris, [Next]_vars
               PROVE  StorageUris'
    OBVIOUS
  <2>1. storages \in Seq(SUBSET DocumentUri)
    BY DEF TypeInv, ServerTypeOK, StoragesTypeOK
  <2>2. CASE storages' = storages
    BY <2>2 DEF StorageUris
  <2>3. ASSUME NEW parsed \in Seq(SUBSET DocumentUri),
               storages' = storages \o parsed,
               \A k \in 1..Len(parsed) : \A uri \in parsed[k] : uri.colon = "%3A"
        PROVE  StorageUris'
    <3> DEFINE all == storages \o parsed
    <3>1. /\ Len(all) = Len(storages) + Len(parsed)
          /\ \A k \in 1..Len(all) :
               all[k] = IF k <= Len(storages) THEN storages[k]
                        ELSE parsed[k - Len(storages)]
          /\ Len(storages) \in Nat /\ Len(parsed) \in Nat
      BY <2>1, ConcatProperties, LenProperties
    <3> HIDE DEF all
    <3>2. ASSUME NEW k \in 1..Len(all), NEW uri \in all[k]
          PROVE  uri.colon = "%3A"
      <4>1. CASE k <= Len(storages)
        BY <3>1, <3>2, <4>1 DEF StorageUris
      <4>2. CASE ~(k <= Len(storages))
        <5>1. k - Len(storages) \in 1..Len(parsed)
          BY <3>1, <4>2
        <5> QED
          BY <2>3, <3>1, <3>2, <4>2, <5>1
      <4> QED
        BY <4>1, <4>2
    <3> QED
      BY <2>3, <3>2 DEF StorageUris, all
  <2> QED
    BY <2>2, <2>3, StoragesGrow
<1> QED
  BY <1>1, <1>2, TypeInvInvariant, PTL DEF Spec

(* A file whose path needs no escape is stored as the editor asks for it.  *)
THEOREM PlainFilesFound == Spec => []PlainFilesServed
<1>1. TypeInv /\ StorageUris => PlainFilesServed
  <2> SUFFICES ASSUME TypeInv, StorageUris,
                      NEW text \in OnDisk, Escaped[text] = text,
                      NEW k \in DOMAIN storages, NEW uri \in storages[k],
                      uri.text = text
               PROVE  uri = editorUri(text)
    BY DEF PlainFilesServed, KnownByEditorUri
  <2>1. storages \in Seq(SUBSET DocumentUri)
    BY DEF TypeInv, ServerTypeOK, StoragesTypeOK
  <2>2. k \in 1..Len(storages)
    BY <2>1, LenProperties
  <2>3. uri \in DocumentUri /\ uri.colon = "%3A"
    BY <2>1, <2>2, ElementOfSeq DEF StorageUris
  <2> QED
    BY <2>3 DEF DocumentUri, editorUri
<1> QED
  BY <1>1, TypeInvInvariant, StorageUrisInvariant, PTL

-----------------------------------------------------------------------------
(* The setting.                                                            *)

(* Is there a message of M in the list?                                    *)
Some(s, M) == Places(s, M) # {}

(* A message is added to a list or taken off it.                           *)
LEMMA SomeAppend ==
  ASSUME NEW S, NEW s \in Seq(S), NEW m \in S, NEW M
  PROVE  Some(Append(s, m), M) <=> Some(s, M) \/ m \in M
<1>1. Append(s, m) \in Seq(S)
  BY AppendProperties
<1>2. /\ Count(s, M) \in Nat /\ (Count(s, M) = 0 <=> Places(s, M) = {})
      /\ Count(Append(s, m), M) \in Nat
      /\ Count(Append(s, m), M) = 0 <=> Places(Append(s, m), M) = {}
  BY <1>1, CountType
<1>3. Count(Append(s, m), M) = Count(s, M) + (IF m \in M THEN 1 ELSE 0)
  BY CountAppend
<1> QED
  BY <1>2, <1>3 DEF Some

(* The last message is taken off.                                          *)
LEMMA SomeFront ==
  ASSUME NEW S, NEW s \in Seq(S), s # <<>>, NEW M
  PROVE  /\ Front(s) \in Seq(S) /\ Last(s) \in S
         /\ Some(s, M) <=> Some(Front(s), M) \/ Last(s) \in M
<1>1. \A P : Front(s) \in Seq(S) /\ Last(s) \in S
  BY FrontOfList
<1>2. /\ Count(s, M) \in Nat /\ (Count(s, M) = 0 <=> Places(s, M) = {})
      /\ Count(Front(s), M) \in Nat
      /\ Count(Front(s), M) = 0 <=> Places(Front(s), M) = {}
  BY <1>1, CountType
<1>3. Count(s, M) = Count(Front(s), M) + (IF Last(s) \in M THEN 1 ELSE 0)
  BY CountFront
<1> QED
  BY <1>1, <1>2, <1>3 DEF Some

(* The first message is taken off.                                         *)
LEMMA SomeTail ==
  ASSUME NEW S, NEW s \in Seq(S), s # <<>>, NEW M
  PROVE  /\ Tail(s) \in Seq(S) /\ Head(s) \in S
         /\ Some(s, M) <=> Some(Tail(s), M) \/ Head(s) \in M
<1>1. Tail(s) \in Seq(S) /\ Head(s) \in S
  BY HeadTailProperties
<1>2. /\ Count(s, M) \in Nat /\ (Count(s, M) = 0 <=> Places(s, M) = {})
      /\ Count(Tail(s), M) \in Nat
      /\ Count(Tail(s), M) = 0 <=> Places(Tail(s), M) = {}
  BY <1>1, CountType
<1>3. Count(s, M) = Count(Tail(s), M) + (IF Head(s) \in M THEN 1 ELSE 0)
  BY CountTail
<1> QED
  BY <1>1, <1>2, <1>3 DEF Some

(* Messages are pushed.                                                    *)
LEMMA SomePushed ==
  ASSUME NEW S, NEW s \in Seq(S), NEW t \in Seq(S), NEW M
  PROVE  Some(s \o t, M) <=> Some(s, M) \/ Some(t, M)
<1> DEFINE all == s \o t
           n == Len(s)
<1>1. /\ Len(all) = n + Len(t) /\ n \in Nat /\ Len(t) \in Nat
      /\ \A i \in 1..Len(all) : all[i] = IF i <= n THEN s[i] ELSE t[i - n]
  BY ConcatProperties, LenProperties
<1> HIDE DEF all, n
<1>2. \A i \in Places(s, M) : i \in Places(all, M)
  BY <1>1 DEF Places, n
<1>3. \A i \in Places(t, M) : n + i \in Places(all, M)
  BY <1>1 DEF Places
<1>4. \A i \in Places(all, M) : i \in Places(s, M) \/ i - n \in Places(t, M)
  BY <1>1 DEF Places, n
<1> QED
  BY <1>2, <1>3, <1>4 DEF Some, all

(* Requests for the setting, and answers to them.                          *)
SettingRequest == {m \in ServerRequest : m.method = "workspace/configuration"}
SettingAnswer == {m \in ClientMessage : m.type = "response" /\ "setting" \in DOMAIN m}
SettingChanged == {Notification("workspace/didChangeConfiguration")}

(* With up on its way, the setting is now at the server, or soon will be.  *)
(* It is the last answer that counts.                                      *)
Arrives(up, value, now) ==
  \/ Places(up, SettingAnswer) = {} /\ now = value
  \/ \E i \in Places(up, SettingAnswer) :
       /\ \A j \in Places(up, SettingAnswer) : j <= i
       /\ up[i].setting \in {value, "unusable"}

(* A message is sent: an answer holds the setting.                         *)
LEMMA ArrivesAppend ==
  ASSUME NEW up \in Seq(ClientMessage), NEW m \in ClientMessage, NEW value, NEW now,
         IF m \in SettingAnswer THEN m.setting \in {value, "unusable"}
                                ELSE Arrives(up, value, now)
  PROVE  Arrives(Append(up, m), value, now)
<1> DEFINE n == Len(up)
           after == Append(up, m)
<1>1. /\ n \in Nat /\ Len(after) = n + 1
      /\ \A i \in 1..n : after[i] = up[i]
      /\ after[n + 1] = m
  BY AppendProperties, LenProperties
<1>2. Places(up, SettingAnswer) = {i \in 1..n : up[i] \in SettingAnswer}
  BY DEF Places
<1> HIDE DEF n, after
<1>3. \A i \in Places(after, SettingAnswer) :
        /\ i \in 1..(n + 1) /\ after[i] \in SettingAnswer
        /\ i \in 1..n \/ i = n + 1
  BY <1>1 DEF Places
<1>4. CASE m \in SettingAnswer
  <2>1. n + 1 \in Places(after, SettingAnswer)
    BY <1>1, <1>4 DEF Places
  <2>2. \A j \in Places(after, SettingAnswer) : j <= n + 1
    BY <1>1, <1>3
  <2>3. after[n + 1].setting \in {value, "unusable"}
    BY <1>1, <1>4
  <2>4. Arrives(after, value, now)
    BY <2>1, <2>2, <2>3 DEF Arrives
  <2> QED
    BY <2>4 DEF after
<1>5. CASE m \notin SettingAnswer
  <2>1. \A i : i \in Places(after, SettingAnswer) <=> i \in Places(up, SettingAnswer)
    BY <1>1, <1>2, <1>5, <1>3 DEF Places
  <2>2. \A i \in Places(up, SettingAnswer) : after[i] = up[i]
    BY <1>1, <1>2
  <2>3. Places(after, SettingAnswer) = Places(up, SettingAnswer)
    BY <2>1
  <2>4. Arrives(up, value, now)
    BY <1>5
  <2>5. Arrives(after, value, now)
    BY <2>2, <2>3, <2>4 DEF Arrives
  <2> QED
    BY <2>5 DEF after
<1> QED
  BY <1>4, <1>5

(* A message is read: an answer is the setting now.                        *)
LEMMA ArrivesTail ==
  ASSUME NEW up \in Seq(ClientMessage), up # <<>>, NEW value, NEW now, NEW next,
         Arrives(up, value, now),
         IF Head(up) \in SettingAnswer
           THEN Head(up).setting # "unusable" /\ next = Head(up).setting
           ELSE next = now
  PROVE  Arrives(Tail(up), value, next)
<1> DEFINE n == Len(up) - 1
           after == Tail(up)
           m == Head(up)
<1>1. /\ n \in Nat /\ Len(up) = n + 1 /\ Len(after) = n
      /\ \A i \in 1..n : after[i] = up[i + 1]
      /\ m = up[1]
  BY EmptySeq, HeadTailProperties
<1> HIDE DEF n, after, m
<1>2. \A i : i \in Places(up, SettingAnswer)
               <=> i \in 1..(n + 1) /\ up[i] \in SettingAnswer
  BY <1>1 DEF Places
<1>3. \A i : i \in Places(after, SettingAnswer)
               <=> i \in 1..n /\ up[i + 1] \in SettingAnswer
  BY <1>1 DEF Places
<1>4. \A i \in 1..n : i + 1 \in 1..(n + 1)
  BY <1>1
<1>5. CASE Places(up, SettingAnswer) = {} /\ now = value
  <2>1. m \notin SettingAnswer
    BY <1>1, <1>2, <1>5
  <2>2. Places(after, SettingAnswer) = {}
    BY <1>2, <1>3, <1>4, <1>5
  <2>3. next = value
    BY <1>5, <2>1 DEF m
  <2>4. Arrives(after, value, next)
    BY <2>2, <2>3 DEF Arrives
  <2> QED
    BY <2>4 DEF after
<1>6. ASSUME NEW i \in Places(up, SettingAnswer),
             \A j \in Places(up, SettingAnswer) : j <= i,
             up[i].setting \in {value, "unusable"}
      PROVE  Arrives(after, value, next)
  <2>1. i \in 1..(n + 1) /\ up[i] \in SettingAnswer
    BY <1>2
  <2>2. CASE i = 1
    <3>1. next = m.setting /\ m.setting # "unusable"
      BY <1>1, <2>1, <2>2 DEF m
    <3>2. Places(after, SettingAnswer) = {}
      <4>1. ASSUME NEW j \in Places(after, SettingAnswer)
            PROVE  FALSE
        <5>1. j \in 1..n /\ j + 1 \in Places(up, SettingAnswer)
          BY <1>2, <1>3, <1>4
        <5> QED
          BY <1>1, <1>6, <2>2, <5>1
      <4> QED
        BY <4>1
    <3> QED
      BY <1>1, <1>6, <2>2, <3>1, <3>2 DEF Arrives
  <2>3. CASE i # 1
    <3>1. i - 1 \in 1..n /\ (i - 1) + 1 = i
      BY <1>1, <2>1, <2>3
    <3>2. i - 1 \in Places(after, SettingAnswer) /\ after[i - 1] = up[i]
      BY <1>1, <1>3, <2>1, <3>1
    <3>3. ASSUME NEW j \in Places(after, SettingAnswer)
          PROVE  j <= i - 1
      <4>1. j \in 1..n /\ j + 1 \in Places(up, SettingAnswer)
        BY <1>2, <1>3, <1>4
      <4>2. j + 1 <= i
        BY <1>6, <4>1
      <4> QED
        BY <1>1, <2>1, <4>1, <4>2
    <3> QED
      BY <1>6, <3>2, <3>3 DEF Arrives
  <2> QED
    BY <2>2, <2>3
<1>7. Arrives(after, value, next)
  BY <1>5, <1>6 DEF Arrives, after
<1> QED
  BY <1>7 DEF after

SettingAsked ==
  \/ Some(sendStack, SettingRequest)
  \/ Some(toClient, SettingRequest)
  \/ \E m \in toAnswer : m.method = "workspace/configuration"
  \/ Some(toServer, SettingChanged)

(* AnnouncedSettingArrives is not inductive: a setting that is the same at *)
(* both ends is lost to an older answer that is still to be read.  When    *)
(* there are answers, the last of them has to be up to date.               *)
SettingInv ==
  \/ pc \in {"stopped", "crashed"}
  \/ unannounced
  \/ SettingAsked
  \/ Arrives(toServer, clientSetting, setting)

(* SettingInv is AnnouncedSettingArrives and more.                         *)
LEMMA SettingInvMeansArrives == TypeInv /\ SettingInv => AnnouncedSettingArrives
<1> SUFFICES ASSUME TypeInv, SettingInv
             PROVE  AnnouncedSettingArrives
  OBVIOUS
<1>1. /\ sendStack \in Seq(ServerMessage)
      /\ toClient \in Seq(ServerMessage)
      /\ toServer \in Seq(ClientMessage)
  BY DEF TypeInv, ExchangeNow, Exchange
<1>2. CASE SettingAsked
  <2>1. \A m \in SettingRequest :
          m.type = "request" /\ m.method = "workspace/configuration"
    BY ServerRequests DEF SettingRequest
  <2>2. SettingOnItsWay
    BY <1>2, <2>1 DEF SettingAsked, SettingOnItsWay, Some, Places, SettingChanged
  <2> QED
    BY <2>2 DEF AnnouncedSettingArrives
<1>3. CASE Arrives(toServer, clientSetting, setting)
  <2> DEFINE answers == {i \in 1..Len(toServer) :
                           toServer[i].type = "response"
                             /\ "setting" \in DOMAIN toServer[i]}
  <2>1. answers = Places(toServer, SettingAnswer)
    BY <1>1, ElementOfSeq DEF Places, SettingAnswer
  <2>2. CASE Places(toServer, SettingAnswer) = {} /\ setting = clientSetting
    BY <2>2 DEF AnnouncedSettingArrives
  <2>3. ASSUME NEW i \in answers, \A j \in answers : j <= i,
               toServer[i].setting \in {clientSetting, "unusable"}
        PROVE  AnnouncedSettingArrives
    <3>1. \A j \in answers : j \in Nat
      BY <1>1, LenProperties
    <3> HIDE DEF answers
    <3>2. \A j \in answers : (\A k \in answers : j >= k) => j = i
      BY <2>3, <3>1
    <3>3. \A k \in answers : i >= k
      BY <2>3, <3>1
    <3>4. Max(answers) = i
      BY <2>3, <3>2, <3>3 DEF Max
    <3>5. SettingOnItsWay
      BY <2>3, <3>4 DEF SettingOnItsWay, answers
    <3> QED
      BY <3>5 DEF AnnouncedSettingArrives
  <2> HIDE DEF answers
  <2> QED
    BY <1>3, <2>1, <2>2, <2>3 DEF Arrives
<1> QED
  BY <1>2, <1>3 DEF SettingInv, AnnouncedSettingArrives

(* The server reads: what it pushes does not matter, unless it asks.       *)
LEMMA ReadSettingInv ==
  ASSUME TypeInv, SettingInv, NEW m, Read(m),
         NEW pushed \in Seq(ServerMessage), sendStack' = sendStack \o pushed,
         IF m \in SettingAnswer THEN m.setting # "unusable" /\ setting' = m.setting
                                ELSE setting' = setting,
         m \in SettingChanged => Some(pushed, SettingRequest)
  PROVE  SettingInv'
<1>1. /\ toServer \in Seq(ClientMessage) /\ sendStack \in Seq(ServerMessage)
      /\ toServer # <<>> /\ m = Head(toServer) /\ toServer' = Tail(toServer)
      /\ toClient' = toClient
      /\ UNCHANGED <<toAnswer, clientSetting, unannounced>>
      /\ pc = "read"
  BY DEF Read, clientVars, TypeInv, ExchangeNow, Exchange
<1>2. Some(sendStack', SettingRequest)
        <=> Some(sendStack, SettingRequest) \/ Some(pushed, SettingRequest)
  <2>1. Some(sendStack \o pushed, SettingRequest)
          <=> Some(sendStack, SettingRequest) \/ Some(pushed, SettingRequest)
    BY <1>1, SomePushed
  <2> QED
    BY <2>1
<1>3. Some(toServer, SettingChanged)
        <=> Some(toServer', SettingChanged) \/ m \in SettingChanged
  BY <1>1, SomeTail
<1>4. SettingAsked => SettingAsked'
  BY <1>1, <1>2, <1>3 DEF SettingAsked
<1>5. Arrives(toServer, clientSetting, setting)
        => Arrives(toServer', clientSetting', setting')
  BY <1>1, ArrivesTail
<1> QED
  BY <1>1, <1>4, <1>5 DEF SettingInv

(* initialized and didChangeConfiguration make the server ask.             *)
LEMMA AskingSettingInv ==
  ASSUME TypeInv, NEW m, Read(m),
         notification_initialized(m) \/ notification_workspace_didChangeConfiguration(m)
  PROVE  SettingInv'
<1>1. nextId \in Nat /\ nextId + 1 \in Nat /\ sendStack \in Seq(ServerMessage)
  BY ReadType
<1>2. \A id \in Nat : Request(id, "workspace/configuration") \in SettingRequest
  BY DEF Request, SettingRequest, ServerRequest, ServerMethod
<1>3. \A id \in Nat : /\ Request(id, "workspace/configuration") \in ServerMessage
                      /\ Request(id, "workspace/workspaceFolders") \in ServerMessage
  BY ServerMessages DEF ServerMethod
<1>4. PICK s \in Seq(ServerMessage), id \in Nat :
        sendStack' = Append(s, Request(id, "workspace/configuration"))
  <2>1. CASE notification_initialized(m)
    <3> DEFINE first == Request(nextId, "workspace/workspaceFolders")
    <3>1. sendStack' = Append(Append(sendStack, first),
                              Request(nextId + 1, "workspace/configuration"))
      BY <1>1, <1>3, <2>1, PushLists DEF notification_initialized, Push
    <3>2. Append(sendStack, first) \in Seq(ServerMessage)
      BY <1>1, <1>3, AppendProperties
    <3> QED
      BY <1>1, <3>1, <3>2
  <2>2. CASE notification_workspace_didChangeConfiguration(m)
    BY <1>1, <1>3, <2>2, PushLists
       DEF notification_workspace_didChangeConfiguration, Push
  <2> QED
    BY <2>1, <2>2
<1> DEFINE request == Request(id, "workspace/configuration")
<1>5. request \in ServerMessage /\ request \in SettingRequest
  BY <1>2, <1>3
<1> HIDE DEF request
<1>6. Some(Append(s, request), SettingRequest)
  BY <1>5, SomeAppend
<1>7. Some(sendStack', SettingRequest)
  BY <1>4, <1>6 DEF request
<1> QED
  BY <1>7 DEF SettingInv, SettingAsked

(* The other messages.                                                     *)
LEMMA DispatchSettingInv ==
  ASSUME TypeInv, SettingInv, NEW m, Read(m),
         \/ notification_exit(m)
         \/ request_initialize_shutdown(m)
         \/ request_document(m)
         \/ response_workspace_configuration(m)
         \/ response_workspace_workspaceFolders(m)
         \/ response_void(m)
         \/ badEntity(m)
  PROVE  SettingInv'
<1>1. /\ toServer # <<>> /\ m = Head(toServer) /\ m \in ClientMessage
      /\ sendStack \in Seq(ServerMessage) /\ nextId \in Nat
  BY ReadType
<1>2. m.type = "response" => /\ m.id \in DOMAIN responseCallbacks
                             /\ Fits(m, responseCallbacks[m.id])
  BY <1>1, TakeResponse DEF TypeInv, ExchangeNow
<1>3. /\ <<>> \in Seq(ServerMessage) /\ sendStack \o <<>> = sendStack
  BY <1>1, PushLists, EmptySeq
<1>4. m \in SettingChanged =>
        m.type = "notification" /\ m.method = "workspace/didChangeConfiguration"
  BY DEF SettingChanged, Notification
<1>5. CASE notification_exit(m)
  BY <1>5 DEF notification_exit, SettingInv
<1>6. ASSUME NEW messages \in Seq(ServerMessage), Push(messages),
             m \notin SettingAnswer, m \notin SettingChanged, setting' = setting
      PROVE  SettingInv'
  BY <1>6, ReadSettingInv DEF Push
<1>7. ASSUME Crash
      PROVE  SettingInv'
  BY <1>7 DEF Crash, SettingInv
<1>8. CASE request_initialize_shutdown(m) \/ request_document(m)
  <2>1. m.type = "request" /\ m.id \in Nat /\ setting' = setting
    BY <1>1, <1>8, ClientMessageParts DEF request_initialize_shutdown, request_document
  <2>2. m \notin SettingAnswer /\ m \notin SettingChanged
    BY <1>4, <2>1 DEF SettingAnswer
  <2>3. /\ <<VoidResponse(m.id)>> \in Seq(ServerMessage)
        /\ <<telemetryError, VoidResponse(m.id)>> \in Seq(ServerMessage)
    <3>1. VoidResponse(m.id) \in ServerMessage /\ telemetryError \in ServerMessage
      BY <2>1, ServerMessages
    <3> QED
      BY <3>1
  <2> QED
    BY <1>6, <1>7, <1>8, <2>1, <2>2, <2>3
       DEF request_initialize_shutdown, request_document
<1>9. CASE response_workspace_configuration(m)
  <2>1. m \in SettingAnswer
    BY <1>1, <1>2, <1>9
       DEF response_workspace_configuration, Awaited, Fits, SettingAnswer
  <2>2. m \notin SettingChanged
    BY <1>4, <2>1 DEF SettingAnswer
  <2>3. CASE m.setting # "unusable" /\ setting' = m.setting /\ Push(<<>>)
    BY <1>3, <2>1, <2>2, <2>3, ReadSettingInv DEF Push
  <2> QED
    BY <1>7, <1>9, <2>3 DEF response_workspace_configuration
<1>10. CASE response_workspace_workspaceFolders(m)
  <2>1. m.type = "response" /\ m \notin SettingAnswer
    BY <1>2, <1>10
       DEF response_workspace_workspaceFolders, Awaited, Fits, SettingAnswer
  <2>2. m \notin SettingChanged
    BY <1>4, <2>1
  <2>3. <<treeViewReady, Request(nextId, "client/registerCapability")>>
          \in Seq(ServerMessage)
    <3>1. /\ treeViewReady \in ServerMessage
          /\ Request(nextId, "client/registerCapability") \in ServerMessage
      BY <1>1, ServerMessages DEF ServerMethod
    <3> QED
      BY <3>1
  <2> QED
    BY <1>6, <1>7, <1>10, <2>1, <2>2, <2>3 DEF response_workspace_workspaceFolders
<1>11. CASE response_void(m)
  <2>1. m.type = "response" /\ m \notin SettingAnswer
    BY <1>2, <1>11 DEF response_void, Awaited, Fits, SettingAnswer
  <2>2. m \notin SettingChanged
    BY <1>4, <2>1
  <2> QED
    BY <1>3, <1>6, <1>11, <2>1, <2>2 DEF response_void
<1>12. CASE badEntity(m)
  <2>1. m.type # "response" /\ m \notin SettingChanged
    BY <1>2, <1>4, <1>12 DEF badEntity
  <2>2. m \notin SettingAnswer
    BY <2>1 DEF SettingAnswer
  <2>3. sendStack' = sendStack /\ setting' = setting
    BY <1>12 DEF badEntity, serverVars
  <2> QED
    BY <1>3, <2>1, <2>2, <2>3, ReadSettingInv
<1> QED
  BY <1>5, <1>8, <1>9, <1>10, <1>11, <1>12

(* A message is written: a request for the setting is still on its way.    *)
LEMMA WriteSettingInv ==
  ASSUME TypeInv, SettingInv, WriteMessage \/ WriteDone
  PROVE  SettingInv'
<1>1. /\ UNCHANGED <<setting, toServer, toAnswer, clientSetting, unannounced>>
      /\ pc = "write"
  BY DEF WriteMessage, WriteDone, clientVars
<1>2. sendStack \in Seq(ServerMessage) /\ toClient \in Seq(ServerMessage)
  BY DEF TypeInv, ExchangeNow, Exchange
<1>3. Some(sendStack, SettingRequest) \/ Some(toClient, SettingRequest)
        => Some(sendStack', SettingRequest) \/ Some(toClient', SettingRequest)
  <2>1. CASE WriteMessage
    <3>1. /\ sendStack # <<>> /\ sendStack' = Front(sendStack)
          /\ toClient' = Append(toClient, Last(sendStack))
      BY <2>1 DEF WriteMessage
    <3>2. /\ Last(sendStack) \in ServerMessage
          /\ Some(sendStack, SettingRequest)
               <=> \/ Some(Front(sendStack), SettingRequest)
                   \/ Last(sendStack) \in SettingRequest
      BY <1>2, <3>1, SomeFront
    <3>3. Some(Append(toClient, Last(sendStack)), SettingRequest)
            <=> \/ Some(toClient, SettingRequest)
                \/ Last(sendStack) \in SettingRequest
      BY <1>2, <3>2, SomeAppend
    <3> QED
      BY <3>1, <3>2, <3>3
  <2>2. CASE WriteDone
    BY <2>2 DEF WriteDone
  <2> QED
    BY <2>1, <2>2
<1>4. SettingAsked => SettingAsked'
  BY <1>1, <1>3 DEF SettingAsked
<1> QED
  BY <1>1, <1>4 DEF SettingInv

(* The client sends a message, and holds the same requests.                *)
LEMMA SentSettingInv ==
  ASSUME TypeInv, SettingInv, NEW m \in ClientMessage, m.type # "response", Send(m),
         UNCHANGED serverVars, toAnswer' = toAnswer, clientSetting' = clientSetting,
         Some(toClient, SettingRequest) => Some(toClient', SettingRequest),
         unannounced => unannounced'
  PROVE  SettingInv'
<1>1. UNCHANGED <<pc, sendStack, setting>> /\ toServer' = Append(toServer, m)
  BY DEF serverVars, Send
<1>2. toServer \in Seq(ClientMessage)
  BY DEF TypeInv, ExchangeNow, Exchange
<1>3. m \notin SettingAnswer
  BY DEF SettingAnswer
<1>4. Some(toServer, SettingChanged) => Some(toServer', SettingChanged)
  BY <1>1, <1>2, SomeAppend
<1>5. SettingAsked => SettingAsked'
  BY <1>1, <1>4 DEF SettingAsked
<1>6. Arrives(toServer, clientSetting, setting)
        => Arrives(Append(toServer, m), clientSetting, setting)
  BY <1>2, <1>3, ArrivesAppend
<1>7. Arrives(toServer, clientSetting, setting)
        => Arrives(toServer', clientSetting', setting')
  BY <1>1, <1>6
<1> QED
  BY <1>1, <1>5, <1>7 DEF SettingInv

(* Requests, and notifications without a callback.                         *)
LEMMA AskSettingInv ==
  ASSUME TypeInv, SettingInv,
         ClientInitialize \/ ClientRequest \/ ClientShutdown \/ ClientOther
  PROVE  SettingInv'
<1>1. asked \in Nat
  BY DEF TypeInv, ClientTypeOK
<1>2. PICK m \in ClientMessage : m.type # "response" /\ Send(m)
  <2>1. CASE ClientInitialize
    BY <1>1, <2>1, ClientMessages DEF ClientInitialize, Request, Ask
  <2>2. CASE ClientRequest
    BY <1>1, <2>2, ClientMessages DEF ClientRequest, Request, DocumentRequest, Ask
  <2>3. CASE ClientShutdown
    BY <1>1, <2>3, ClientMessages DEF ClientShutdown, Request, Ask
  <2>4. CASE ClientOther
    BY <2>4, ClientMessages DEF ClientOther, Notification
  <2> QED
    BY <2>1, <2>2, <2>3, <2>4
<1>3. /\ UNCHANGED serverVars
      /\ UNCHANGED <<toClient, toAnswer, clientSetting, unannounced>>
  BY DEF ClientInitialize, ClientRequest, ClientShutdown, ClientOther, clientVars
<1> QED
  BY <1>2, <1>3, SentSettingInv

(* A change is announced, or noted as not announced.                       *)
LEMMA ChangeSettingInv ==
  ASSUME TypeInv, ClientChange
  PROVE  SettingInv'
<1> DEFINE m == Notification("workspace/didChangeConfiguration")
<1>1. CASE unannounced' = TRUE
  BY <1>1 DEF SettingInv
<1>2. CASE Send(m)
  <2>1. m \in ClientMessage /\ m \in SettingChanged
    BY ClientMessages DEF SettingChanged
  <2>2. toServer \in Seq(ClientMessage)
    BY DEF TypeInv, ExchangeNow, Exchange
  <2> HIDE DEF m
  <2>3. Some(Append(toServer, m), SettingChanged)
    BY <2>1, <2>2, SomeAppend
  <2>4. Some(toServer', SettingChanged)
    BY <1>2, <2>3 DEF Send
  <2> QED
    BY <2>4 DEF SettingInv, SettingAsked
<1> QED
  BY <1>1, <1>2 DEF ClientChange

(* A request for the setting that is received is held.                     *)
LEMMA ReceiveSettingInv ==
  ASSUME TypeInv, SettingInv, ClientReceive
  PROVE  SettingInv'
<1> DEFINE m == Head(toClient)
<1>1. /\ toClient # <<>> /\ toClient' = Tail(toClient)
      /\ UNCHANGED serverVars
      /\ UNCHANGED <<clientSetting, unannounced>>
  BY DEF ClientReceive
<1>2. toClient \in Seq(ServerMessage)
  BY DEF TypeInv, ExchangeNow, Exchange
<1>3. UNCHANGED <<pc, sendStack, setting>>
  BY <1>1 DEF serverVars
<1>4. Some(toClient, SettingRequest)
        <=> Some(toClient', SettingRequest) \/ m \in SettingRequest
  BY <1>1, <1>2, SomeTail
<1>5. m \in SettingRequest => m.type = "request" /\ m.method = "workspace/configuration"
  BY ServerRequests DEF SettingRequest
<1>6. ASSUME UNCHANGED toServer, toAnswer \subseteq toAnswer',
             m \in SettingRequest => m \in toAnswer'
      PROVE  SettingInv'
  <2>1. SettingAsked => SettingAsked'
    BY <1>3, <1>4, <1>5, <1>6 DEF SettingAsked
  <2> QED
    BY <1>1, <1>3, <1>6, <2>1 DEF SettingInv
<1>7. CASE ClientResponse(m)
  <2>1. m.type = "response" /\ toAnswer' = toAnswer
    BY <1>7 DEF ClientResponse
  <2>2. \/ toServer' = toServer
        \/ \E method \in {"initialized", "exit"} : Send(Notification(method))
    BY <1>7 DEF ClientResponse
  <2>3. CASE toServer' = toServer
    BY <1>5, <1>6, <2>1, <2>3
  <2>4. ASSUME NEW method \in {"initialized", "exit"}, Send(Notification(method))
        PROVE  SettingInv'
    <3> DEFINE n == Notification(method)
    <3>1. n \in ClientMessage /\ n.type # "response"
      BY ClientMessages DEF Notification
    <3>2. Some(toClient, SettingRequest) => Some(toClient', SettingRequest)
      BY <1>4, <1>5, <2>1
    <3>3. Send(n)
      BY <2>4
    <3> HIDE DEF n
    <3> QED
      BY <1>1, <2>1, <3>1, <3>2, <3>3, SentSettingInv
  <2> QED
    BY <2>2, <2>3, <2>4
<1>8. CASE /\ m.type = "request"
           /\ toAnswer' = toAnswer \cup {m}
           /\ UNCHANGED <<phase, answered, toServer>>
  BY <1>6, <1>8
<1>9. CASE /\ m.type = "notification"
           /\ UNCHANGED <<phase, answered, toAnswer, toServer>>
  BY <1>5, <1>6, <1>9
<1> QED
  BY <1>7, <1>8, <1>9 DEF ClientReceive

(* The setting is sent as it is now.                                       *)
LEMMA AnswerSettingInv ==
  ASSUME TypeInv, SettingInv, ClientAnswer
  PROVE  SettingInv'
<1>1. /\ UNCHANGED serverVars /\ toClient' = toClient
      /\ clientSetting' = clientSetting
      /\ toServer \in Seq(ClientMessage)
      /\ clientSetting \in Setting
      /\ \A m \in toAnswer : m.id \in Nat
  BY ServerRequests DEF ClientAnswer, TypeInv, ExchangeNow, Exchange, ClientTypeOK
<1>2. UNCHANGED <<pc, sendStack, setting>>
  BY <1>1 DEF serverVars
<1>3. PICK m \in toAnswer :
        /\ toAnswer' = toAnswer \ {m}
        /\ \/ /\ m.method = "workspace/configuration"
              /\ \E value \in {clientSetting, "unusable"} :
                   Send(SettingResponse(m.id, value))
           \/ /\ m.method = "workspace/workspaceFolders"
              /\ \E folders \in FolderLists : Send(FoldersResponse(m.id, folders))
              /\ unannounced' = unannounced
           \/ /\ m.method = "client/registerCapability"
              /\ Send(VoidResponse(m.id))
              /\ unannounced' = unannounced
  BY DEF ClientAnswer
<1>4. ASSUME NEW value \in {clientSetting, "unusable"},
             Send(SettingResponse(m.id, value))
      PROVE  SettingInv'
  <2> DEFINE response == SettingResponse(m.id, value)
  <2>1. response \in ClientMessage
    BY <1>1, ClientMessages
  <2>2. response.setting \in {clientSetting, "unusable"} /\ response \in SettingAnswer
    BY <2>1 DEF SettingAnswer, SettingResponse
  <2>3. toServer' = Append(toServer, response)
    BY <1>4 DEF Send
  <2> HIDE DEF response
  <2>4. Arrives(Append(toServer, response), clientSetting, setting)
    BY <1>1, <2>1, <2>2, ArrivesAppend
  <2>5. Arrives(toServer', clientSetting', setting')
    BY <1>1, <1>2, <2>3, <2>4
  <2> QED
    BY <2>5 DEF SettingInv
<1>5. ASSUME NEW response \in ClientMessage, response \notin SettingAnswer,
             Send(response), m.method # "workspace/configuration",
             unannounced' = unannounced
      PROVE  SettingInv'
  <2>1. toServer' = Append(toServer, response)
    BY <1>5 DEF Send
  <2>2. Some(toServer, SettingChanged) => Some(toServer', SettingChanged)
    BY <1>1, <2>1, SomeAppend
  <2>3. SettingAsked => SettingAsked'
    BY <1>1, <1>2, <1>3, <1>5, <2>2 DEF SettingAsked
  <2>4. Arrives(toServer, clientSetting, setting)
          => Arrives(Append(toServer, response), clientSetting, setting)
    BY <1>1, <1>5, ArrivesAppend
  <2>5. Arrives(toServer, clientSetting, setting)
          => Arrives(toServer', clientSetting', setting')
    BY <1>1, <1>2, <2>1, <2>4
  <2> QED
    BY <1>2, <1>5, <2>3, <2>5 DEF SettingInv
<1>6. ASSUME NEW folders \in FolderLists, Send(FoldersResponse(m.id, folders)),
             m.method # "workspace/configuration", unannounced' = unannounced
      PROVE  SettingInv'
  <2> DEFINE response == FoldersResponse(m.id, folders)
  <2>1. response \in ClientMessage /\ response \notin SettingAnswer
    BY <1>1, ClientMessages DEF FoldersResponse, SettingAnswer
  <2>2. Send(response)
    BY <1>6
  <2> HIDE DEF response
  <2> QED
    BY <1>5, <1>6, <2>1, <2>2
<1>7. ASSUME Send(VoidResponse(m.id)),
             m.method # "workspace/configuration", unannounced' = unannounced
      PROVE  SettingInv'
  <2> DEFINE response == VoidResponse(m.id)
  <2>1. response \in ClientMessage /\ response \notin SettingAnswer
    BY <1>1, ClientMessages DEF VoidResponse, SettingAnswer
  <2>2. Send(response)
    BY <1>7
  <2> HIDE DEF response
  <2> QED
    BY <1>5, <1>7, <2>1, <2>2
<1> QED
  BY <1>3, <1>4, <1>6, <1>7

(* SettingInv is inductive, with TypeInv.                                  *)
LEMMA SettingInvInvariant == Spec => []SettingInv
<1>1. Init => SettingInv
  BY DEF Init, SettingInv
<1>2. TypeInv /\ SettingInv /\ [Next]_vars => SettingInv'
  <2> SUFFICES ASSUME TypeInv, SettingInv, [Next]_vars
               PROVE  SettingInv'
    OBVIOUS
  <2>1. CASE Server
    BY <2>1, AskingSettingInv, DispatchSettingInv, WriteSettingInv DEF Server
  <2>2. CASE Client
    BY <2>2, AskSettingInv, ChangeSettingInv, ReceiveSettingInv, AnswerSettingInv
       DEF Client
  <2>3. CASE UNCHANGED vars
    BY <2>3 DEF vars, serverVars, clientVars, SettingInv, SettingAsked
  <2> QED
    BY <2>1, <2>2, <2>3 DEF Next
<1> QED
  BY <1>1, <1>2, TypeInvInvariant, PTL DEF Spec

(* A change of the setting that the client announces arrives at the        *)
(* server, whatever older answers are still to be read.                    *)
THEOREM SettingArrives == Spec => []AnnouncedSettingArrives
BY TypeInvInvariant, SettingInvInvariant, SettingInvMeansArrives, PTL
=============================================================================
