------------------------- MODULE ArxmlParserProofs -------------------------
(***************************************************************************)
(* Proofs about ArxmlParser, for any names, URIs and bounds.               *)
(***************************************************************************)
EXTENDS ArxmlParser, SequenceTheorems, WellFoundedInduction, TLAPS

StackEntry == [depth : uint32_t, elem : Pointer]
OpenElement == [tag : Elements, content : Contents]

-----------------------------------------------------------------------------
(* Lemmas on the operators of the model.                                   *)

(* Multiples are in the order of their factors.                            *)
LEMMA Multiples ==
  ASSUME NEW a \in Nat, NEW b \in Nat, NEW w \in Nat
  PROVE  /\ a * w \in Nat
         /\ a < b => a * w + w <= b * w
         /\ (a + 1) * w = a * w + w
<1>1. a * w \in Nat /\ (a + 1) * w = a * w + w
  BY Z3
<1>2. a < b => a * w + w <= b * w
  BY Z3
<1> QED
  BY <1>1, <1>2

(* A uint32_t is a natural number, and what does not fit in one wraps      *)
(* around.                                                                 *)
LEMMA Wraps ==
  ASSUME NEW n \in Int
  PROVE  /\ uint32_t \subseteq Nat
         /\ n % Uint32 \in uint32_t
         /\ n \in uint32_t => n % Uint32 = n
<1>1. Uint32 \in Nat \ {0}
  <2>1. (MaxTags + 1) * TagWidth \in Nat
    BY ParserAssumption, WidthAssumption, Multiples
  <2> QED
    BY <2>1, WidthAssumption
<1>2. n % Uint32 \in 0..(Uint32 - 1)
  BY <1>1, Z3
<1>3. n \in 0..(Uint32 - 1) => n % Uint32 = n
  BY <1>1, Z3
<1> QED
  BY <1>1, <1>2, <1>3 DEF uint32_t

(* A non-empty set of naturals with an upper bound has a greatest element. *)
LEMMA Greatest ==
  ASSUME NEW n \in Nat, NEW S \in SUBSET (0..n), S # {}
  PROVE  \E k \in S : \A i \in S : i <= k
<1> DEFINE T == {m \in Nat : \E k \in S : m = n - k}
<1> DEFINE R == OpToRel(<, Nat)
<1>1. T \subseteq Nat
  OBVIOUS
<1>2. T # {}
  <2>1. PICK k \in S : k \in 0..n
    OBVIOUS
  <2>2. n - k \in T
    BY <2>1
  <2> QED
    BY <2>2
<1>3. IsWellFoundedOn(R, Nat)
  BY NatLessThanWellFounded
<1>4. \A x, y \in Nat : <<x, y>> \in R <=> x < y
  BY DEF OpToRel
<1>5. PICK m \in T : \A j \in T : ~(<<j, m>> \in R)
  <2> HIDE DEF T, R
  <2> QED
    BY <1>1, <1>2, <1>3, WFMin
<1>6. \A j \in T : ~(j < m)
  <2> HIDE DEF R
  <2> QED
    BY <1>1, <1>4, <1>5
<1>7. PICK k \in S : m = n - k
  BY <1>5
<1>8. ASSUME NEW i \in S
      PROVE  i <= k
  <2>1. n - i \in T
    OBVIOUS
  <2> QED
    BY <1>6, <1>7, <2>1
<1> QED
  BY <1>7, <1>8

(* Popping stops somewhere: Kept is well defined.                          *)
LEMMA KeptProperties ==
  ASSUME NEW stack \in Seq(StackEntry), NEW d \in Nat
  PROVE  /\ Kept(stack, d) \in 0..Len(stack)
         /\ Kept(stack, d) > 0 => stack[Kept(stack, d)].depth <= d
         /\ \A i \in (Kept(stack, d) + 1)..Len(stack) : stack[i].depth > d
<1> DEFINE S == {k \in 0..Len(stack) : k > 0 => stack[k].depth <= d}
<1>1. Len(stack) \in Nat
  BY LenProperties
<1>2. 0 \in S
  BY <1>1
<1>3. PICK k \in S : \A i \in S : i <= k
  <2>1. S \in SUBSET (0..Len(stack)) /\ S # {}
    BY <1>2
  <2> HIDE DEF S
  <2> QED
    BY <1>1, <2>1, Greatest
<1>4. \A i \in (k + 1)..Len(stack) : stack[i].depth > d
  <2> SUFFICES ASSUME NEW i \in (k + 1)..Len(stack)
               PROVE  stack[i].depth > d
    OBVIOUS
  <2>1. i \in 1..Len(stack) /\ i > k
    BY <1>1, <1>3
  <2>2. stack[i] \in StackEntry
    BY <2>1, ElementOfSeq
  <2>3. i \notin S
    BY <1>1, <1>3, <2>1
  <2>4. stack[i].depth \in Nat
    BY <2>2, Wraps DEF StackEntry
  <2> QED
    BY <1>1, <2>1, <2>3, <2>4
<1>5. \E j \in 0..Len(stack) :
        /\ j > 0 => stack[j].depth <= d
        /\ \A i \in (j + 1)..Len(stack) : stack[i].depth > d
  BY <1>3, <1>4
<1> QED
  BY <1>5 DEF Kept

(* What is popped is a prefix of the stack.                                *)
LEMMA PopDeeperProperties ==
  ASSUME NEW stack \in Seq(StackEntry), NEW d \in Nat
  PROVE  /\ PopDeeper(stack, d) \in Seq(StackEntry)
         /\ Len(PopDeeper(stack, d)) = Kept(stack, d)
         /\ \A i \in 1..Kept(stack, d) : PopDeeper(stack, d)[i] = stack[i]
<1>1. Kept(stack, d) \in 0..Len(stack)
  BY KeptProperties
<1>2. Len(stack) \in Nat
  BY LenProperties
<1>3. \A i \in 1..Kept(stack, d) : stack[i] \in StackEntry
  BY <1>1, <1>2, ElementOfSeq
<1> QED
  BY <1>1, <1>2, <1>3, SubSeqProperties DEF PopDeeper

(* Front drops the last element of a sequence and keeps the others, as     *)
(* the closing tag does with the innermost open element.                   *)
LEMMA FrontProperties ==
  ASSUME NEW S, NEW s \in Seq(S), s # <<>>
  PROVE  /\ Front(s) \in Seq(S)
         /\ Len(Front(s)) = Len(s) - 1
         /\ \A i \in 1..(Len(s) - 1) : Front(s)[i] = s[i]
<1> DEFINE n == Len(s) - 1
<1>1. n \in Nat /\ Len(s) = n + 1
  BY EmptySeq
<1>2. \A i \in 1..n : s[i] \in S
  BY <1>1, ElementOfSeq
<1>3. Front(s) = SubSeq(s, 1, n)
  BY DEF Front
<1> HIDE DEF n
<1>4. /\ SubSeq(s, 1, n) \in Seq(S)
      /\ Len(SubSeq(s, 1, n)) = IF 1 <= n THEN n - 1 + 1 ELSE 0
      /\ \A i \in 1..(n - 1 + 1) : SubSeq(s, 1, n)[i] = s[1 + i - 1]
  BY <1>1, <1>2, SubSeqProperties
<1> QED
  BY <1>1, <1>3, <1>4 DEF n

(* SHORT-NAME elements: where addShortname puts one and what it leaves.    *)
LEMMA SlotProperties ==
  ASSUME NEW elem \in ShortnameElement, shortnames \in Seq(ShortnameElement)
  PROVE  /\ SlotOf(elem) \in 1..(Len(shortnames) + 1)
         /\ IsNew(elem) => SlotOf(elem) = Len(shortnames) + 1
         /\ ~IsNew(elem) => /\ SlotOf(elem) \in 1..Len(shortnames)
                            /\ Conflicts(elem, shortnames[SlotOf(elem)])
<1>1. Len(shortnames) \in Nat
  BY LenProperties
<1>2. CASE IsNew(elem)
  BY <1>1, <1>2 DEF SlotOf
<1>3. CASE ~IsNew(elem)
  <2>1. \E p \in 1..Len(shortnames) : Conflicts(elem, shortnames[p])
    BY <1>3 DEF IsNew
  <2> QED
    BY <1>1, <1>3, <2>1 DEF SlotOf
<1> QED
  BY <1>2, <1>3

-----------------------------------------------------------------------------
(* Type correctness.  What a step assigns has its type only because a file *)
(* has more characters than open elements, so that their number fits in    *)
(* depth, a SHORT-NAME that was the last tag is on top of the stack, the   *)
(* stack's pointers point into the storage, and a file is being parsed     *)
(* only once it has an index.                                              *)

DepthCounts ==
  /\ mode # "parsing" => doc = <<>> /\ depthElements = <<>> /\ ~misread
  /\ mode = "parsing" => URIs # <<>>
  /\ mode = "parsing" /\ ~misread => Len(doc) < pos
  /\ currentTag = "shortname" =>
       /\ depthElements # <<>>
       /\ depthElements[Len(depthElements)].depth = depth

StackPoints ==
  \A k \in 1..Len(depthElements) : depthElements[k].elem \in 1..Len(shortnames)

ListsMatch ==
  /\ Len(children) = Len(shortnames)
  /\ Len(ownReferences) = Len(shortnames)

TypeInv == TypeOK /\ DepthCounts /\ StackPoints /\ ListsMatch

(* 0 is a uint32_t.                                                        *)
LEMMA ZeroDepth == 0 \in uint32_t
<1>1. (MaxTags + 1) * TagWidth \in Nat
  BY ParserAssumption, WidthAssumption, Multiples
<1> QED
  BY <1>1, WidthAssumption DEF uint32_t

(* The parser's local variables and an empty storage satisfy TypeInv.      *)
LEMMA InitTypeInv == Init => TypeInv
<1> SUFFICES ASSUME Init
             PROVE  TypeInv
  OBVIOUS
<1>1. \A S : <<>> \in Seq(S) /\ Len(<<>>) = 0
  BY EmptySeq
<1>2. StorageTypeOK
  BY <1>1 DEF Init, StorageInit, StorageTypeOK
<1>3. TypeOK
  BY <1>1, <1>2, ZeroDepth DEF Init, TypeOK, tagType
<1>4. DepthCounts /\ StackPoints /\ ListsMatch
  BY <1>1 DEF Init, StorageInit, DepthCounts, StackPoints, ListsMatch
<1> QED
  BY <1>3, <1>4 DEF TypeInv

(* parseSingleFile keeps TypeInv as it opens a file, empty or not.         *)
LEMMA BeginFileTypeInv ==
  ASSUME TypeInv, NEW uri \in Uri, NEW empty \in BOOLEAN, BeginFile(uri, empty)
  PROVE  TypeInv'
<1>1. /\ URIs \in Seq(Uri) /\ URIs' = Append(URIs, uri)
      /\ newlineOffsets \in Seq(Pointer)
  BY DEF BeginFile, addFileIndex, TypeInv, TypeOK, StorageTypeOK
<1>2. /\ URIs' \in Seq(Uri)
      /\ URIs' # <<>>
      /\ Len(URIs') \in Nat \ {0}
  <2>1. Len(URIs) \in Nat
    BY <1>1, LenProperties
  <2> QED
    BY <1>1, <2>1, AppendProperties
<1>3. newlineOffsets' \in Seq(Pointer)
  <2>1. newlineOffsets' = newlineOffsets \/ newlineOffsets' = Append(newlineOffsets, Len(URIs'))
    BY DEF BeginFile
  <2>2. Len(URIs') \in Pointer
    BY <1>2 DEF Pointer, nullptr
  <2> QED
    BY <1>1, <2>1, <2>2, AppendProperties
<1>4. mode' \in {"idle", "parsing", "undefined"}
  <2>1. mode' = mode \/ mode' = "parsing" \/ mode' = "undefined"
    BY DEF BeginFile
  <2> QED
    BY <2>1 DEF TypeInv, TypeOK
<1>5. TypeOK'
  BY <1>2, <1>3, <1>4, WidthAssumption DEF BeginFile, TypeInv, TypeOK, StorageTypeOK
<1>6. DepthCounts'
  <2>1. doc' = <<>> /\ depthElements' = <<>> /\ ~misread' /\ pos' = TagWidth
    BY DEF BeginFile, TypeInv, DepthCounts
  <2>2. Len(doc') < pos'
    BY <2>1, EmptySeq, WidthAssumption
  <2> QED
    BY <1>2, <2>1, <2>2 DEF BeginFile, TypeInv, DepthCounts
<1>7. StackPoints' /\ ListsMatch'
  BY DEF BeginFile, TypeInv, StackPoints, ListsMatch
<1> QED
  BY <1>5, <1>6, <1>7 DEF TypeInv

(* The end of the loop over a file keeps TypeInv.                          *)
LEMMA EndFileTypeInv ==
  ASSUME TypeInv, EndFile
  PROVE  TypeInv'
<1>1. \A S : <<>> \in Seq(S) /\ Len(<<>>) = 0
  BY EmptySeq
<1>2. TypeOK'
  BY <1>1, ZeroDepth
     DEF EndFile, TypeInv, TypeOK, StorageTypeOK, storageVars, tagType
<1>3. DepthCounts'
  BY <1>1 DEF EndFile, TypeInv, DepthCounts
<1>4. StackPoints' /\ ListsMatch'
  BY <1>1 DEF EndFile, TypeInv, StackPoints, ListsMatch, storageVars
<1> QED
  BY <1>2, <1>3, <1>4 DEF TypeInv

(* A tag moves pos on; what the innermost open element holds is replaced.  *)
LEMMA NextTagType ==
  ASSUME TypeOK, NextTag
  PROVE  pos' \in Nat /\ pos < pos' /\ pos < Uint32
<1>1. MaxTags * TagWidth \in Nat /\ MaxTags * TagWidth < Uint32
  <2>1. /\ MaxTags * TagWidth \in Nat
        /\ (MaxTags + 1) * TagWidth = MaxTags * TagWidth + TagWidth
    BY ParserAssumption, WidthAssumption, Multiples
  <2> QED
    BY <2>1, WidthAssumption
<1>2. pos \in Nat /\ pos <= MaxTags * TagWidth /\ pos' = pos + TagWidth
  BY DEF TypeOK, NextTag
<1> HIDE DEF NextTag
<1> QED
  BY <1>1, <1>2, WidthAssumption

(* The open elements keep their number and, but for what the innermost     *)
(* one holds, what they are.                                               *)
LEMMA HoldsType ==
  ASSUME TypeOK, NEW content \in Contents
  PROVE  Holds(content) \in Seq(OpenElement) /\ Len(Holds(content)) = Len(doc)
<1>1. doc \in Seq(OpenElement)
  BY DEF TypeOK, OpenElement
<1>2. CASE doc = <<>>
  BY <1>1, <1>2 DEF Holds
<1>3. CASE doc # <<>>
  <2>1. Len(doc) \in 1..Len(doc)
    BY <1>1, <1>3, EmptySeq
  <2>2. [doc[Len(doc)] EXCEPT !.content = content] \in OpenElement
    <3>1. doc[Len(doc)] \in OpenElement
      BY <1>1, <2>1, ElementOfSeq
    <3> QED
      BY <3>1 DEF OpenElement
  <2>3. Holds(content) = [doc EXCEPT ![Len(doc)] =
                            [doc[Len(doc)] EXCEPT !.content = content]]
    BY <1>3 DEF Holds
  <2> QED
    BY <1>1, <2>1, <2>2, <2>3, ExceptSeq
<1> QED
  BY <1>2, <1>3

(* Comments, <? ?> and <TAG/> keep TypeInv.                                *)
LEMMA SkipTagTypeInv ==
  ASSUME TypeInv, SkipTag
  PROVE  TypeInv'
<1>1. pos' \in Nat /\ pos < pos'
  BY NextTagType DEF TypeInv, SkipTag
<1>2. TypeOK' /\ StackPoints' /\ ListsMatch'
  BY <1>1 DEF SkipTag, storageVars, TypeInv, TypeOK, StorageTypeOK,
              StackPoints, ListsMatch
<1>3. DepthCounts'
  <2>1. Len(doc) \in Nat /\ pos \in Nat
    BY LenProperties DEF TypeInv, TypeOK
  <2> QED
    BY <1>1, <2>1 DEF SkipTag, storageVars, TypeInv, DepthCounts
<1> QED
  BY <1>2, <1>3 DEF TypeInv

(* A start tag keeps TypeInv: depth grows with the open elements.          *)
LEMMA OpenTagTypeInv ==
  ASSUME TypeInv, NEW tag \in Elements, OpenTag(tag)
  PROVE  TypeInv'
<1>1. pos' \in Nat /\ pos \in Nat /\ pos < pos' /\ pos < Uint32
  BY NextTagType DEF TypeInv, TypeOK, OpenTag
<1>2. doc' \in Seq(OpenElement) /\ Len(doc') = Len(doc) + 1
  <2>1. Holds("more") \in Seq(OpenElement) /\ Len(Holds("more")) = Len(doc)
    BY HoldsType DEF TypeInv, Contents
  <2>2. [tag |-> tag, content |-> "none"] \in OpenElement
    BY DEF OpenElement, Contents
  <2>3. doc' = Append(Holds("more"), [tag |-> tag, content |-> "none"])
    BY DEF OpenTag
  <2> QED
    BY <2>1, <2>2, <2>3, AppendProperties
<1>3. /\ depth' \in uint32_t
      /\ ~misread' => depth' = Len(doc') /\ Len(doc') < pos'
  <2>1. depth \in uint32_t /\ depth' = (depth + 1) % Uint32 /\ misread' = misread
    BY DEF OpenTag, TypeInv, TypeOK
  <2>2. depth' \in uint32_t
    BY <2>1, Wraps
  <2>3. ASSUME ~misread
        PROVE  depth' = Len(doc') /\ Len(doc') < pos'
    <3>1. depth = Len(doc) /\ Len(doc) < pos
      BY <2>3 DEF OpenTag, NextTag, TypeInv, TypeOK, DepthCounts
    <3>2. Len(doc) \in Nat
      BY LenProperties DEF TypeInv, TypeOK
    <3>3. depth + 1 \in uint32_t
      BY <1>1, <3>1, <3>2, WidthAssumption DEF uint32_t
    <3>4. depth' = depth + 1
      BY <2>1, <3>3, Wraps
    <3> QED
      BY <1>1, <1>2, <3>1, <3>2, <3>4
  <2> QED
    BY <2>1, <2>2, <2>3
<1>4. TypeOK'
  BY <1>1, <1>2, <1>3
     DEF OpenTag, SetTag, storageVars, TypeInv, TypeOK, StorageTypeOK,
         OpenElement, tagType
<1>5. DepthCounts'
  BY <1>3 DEF OpenTag, NextTag, SetTag, storageVars, TypeInv, DepthCounts
<1>6. StackPoints' /\ ListsMatch'
  BY DEF OpenTag, storageVars, TypeInv, StackPoints, ListsMatch
<1> QED
  BY <1>4, <1>5, <1>6 DEF TypeInv

(* The stack after </...>: the raised name stays on top with its pointer.  *)
(* Before a misread tag its depth was at least 1, because its own start    *)
(* tag was open.                                                           *)
LEMMA RaiseIdentProperties ==
  ASSUME TypeInv, doc # <<>>, NEW tag
  PROVE  /\ RaiseIdent(tag) \in Seq(StackEntry)
         /\ Len(RaiseIdent(tag)) = Len(depthElements)
         /\ \A k \in 1..Len(depthElements) :
              /\ RaiseIdent(tag)[k].elem = depthElements[k].elem
              /\ ~misread => RaiseIdent(tag)[k].depth <= depthElements[k].depth
<1>1. depthElements \in Seq(StackEntry)
  BY DEF TypeInv, TypeOK, StackEntry
<1>2. \A k \in 1..Len(depthElements) : depthElements[k] \in StackEntry
  BY <1>1, ElementOfSeq
<1>3. \A k \in 1..Len(depthElements) : depthElements[k].depth \in Nat
  BY <1>2, Wraps DEF StackEntry
<1>4. CASE currentTag = "shortname" /\ lastTag = "opening_tag" /\ tag = "IDENT"
  <2> DEFINE n == Len(depthElements)
             d == depthElements[n].depth
             raised == [depthElements[n] EXCEPT !.depth = (@ - 1) % Uint32]
  <2>1. n \in 1..n
    BY <1>1, <1>4, EmptySeq DEF TypeInv, DepthCounts
  <2>2. /\ raised \in StackEntry
        /\ raised.elem = depthElements[n].elem
        /\ raised.depth = (d - 1) % Uint32
    <3>1. depthElements[n] \in StackEntry /\ d \in Nat
      BY <1>2, <1>3, <2>1
    <3>2. (d - 1) % Uint32 \in uint32_t
      <4> HIDE DEF d
      <4> QED
        BY <3>1, Wraps
    <3> QED
      BY <3>1, <3>2 DEF StackEntry
  <2>3. ~misread => raised.depth <= d
    <3> SUFFICES ASSUME ~misread
                 PROVE  raised.depth <= d
      OBVIOUS
    <3>1. d = Len(doc) /\ d \in Nat \ {0}
      <4>1. doc \in Seq(OpenElement)
        BY DEF TypeInv, TypeOK, OpenElement
      <4>2. d = Len(doc)
        BY <1>4 DEF TypeInv, TypeOK, DepthCounts
      <4> QED
        BY <4>1, <4>2, EmptySeq
    <3>2. d \in uint32_t
      BY <1>4 DEF TypeInv, TypeOK, DepthCounts
    <3> HIDE DEF d, raised
    <3>3. d - 1 \in uint32_t
      BY <3>1, <3>2, WidthAssumption DEF uint32_t
    <3>4. (d - 1) % Uint32 = d - 1
      BY <3>1, <3>3, Wraps
    <3> QED
      BY <2>2, <3>1, <3>4
  <2>4. RaiseIdent(tag) = [depthElements EXCEPT ![n] = raised]
    BY <1>4 DEF RaiseIdent
  <2>5. /\ RaiseIdent(tag) \in Seq(StackEntry)
        /\ Len(RaiseIdent(tag)) = n
        /\ \A k \in 1..n :
             RaiseIdent(tag)[k] = IF k = n THEN raised ELSE depthElements[k]
    <3> HIDE DEF n, raised
    <3> QED
      BY <1>1, <2>1, <2>2, <2>4, ExceptSeq DEF n
  <2> HIDE DEF raised
  <2> QED
    BY <1>3, <2>2, <2>3, <2>5
<1>5. CASE ~(currentTag = "shortname" /\ lastTag = "opening_tag" /\ tag = "IDENT")
  <2>1. RaiseIdent(tag) = depthElements
    BY <1>5 DEF RaiseIdent
  <2> QED
    BY <1>1, <1>3, <2>1
<1> QED
  BY <1>4, <1>5

(* A closing tag leaves on the stack a prefix of its pointers.             *)
LEMMA CloseTagStack ==
  ASSUME TypeInv, CloseTag
  PROVE  /\ depth' \in uint32_t
         /\ depth' \in Nat
         /\ ~misread => depth = depth' + 1
         /\ depthElements' \in Seq(StackEntry)
         /\ Len(depthElements') <= Len(depthElements)
         /\ \A k \in 1..Len(depthElements') :
              depthElements'[k].elem = depthElements[k].elem
<1>1. /\ depth' \in uint32_t
      /\ depth' \in Nat
      /\ ~misread => depth = depth' + 1
  <2>1. depth \in uint32_t /\ depth' = (depth - 1) % Uint32
    BY DEF TypeInv, TypeOK, CloseTag
  <2>2. depth' \in uint32_t /\ depth' \in Nat
    BY <2>1, Wraps
  <2>3. ASSUME ~misread
        PROVE  depth = depth' + 1
    <3>1. doc \in Seq(OpenElement) /\ doc # <<>> /\ Len(doc) = depth
      BY <2>3 DEF TypeInv, TypeOK, OpenElement, CloseTag
    <3>2. depth \in Nat \ {0}
      BY <3>1, EmptySeq
    <3>3. depth - 1 \in uint32_t
      BY <2>1, <3>2, WidthAssumption DEF uint32_t
    <3> QED
      BY <2>1, <3>2, <3>3, Wraps
  <2> QED
    BY <2>2, <2>3
<1> DEFINE stack == RaiseIdent(Last(doc).tag)
<1>2. /\ stack \in Seq(StackEntry)
      /\ Len(stack) = Len(depthElements)
      /\ \A k \in 1..Len(depthElements) : stack[k].elem = depthElements[k].elem
  BY RaiseIdentProperties DEF CloseTag
<1>3. depthElements' = PopDeeper(stack, depth')
  BY DEF CloseTag
<1>4. Kept(stack, depth') \in 0..Len(stack)
  <2> HIDE DEF stack
  <2> QED
    BY <1>1, <1>2, KeptProperties
<1>5. Len(depthElements) \in Nat
  BY LenProperties DEF TypeInv, TypeOK
<1> HIDE DEF stack
<1>6. /\ depthElements' \in Seq(StackEntry)
      /\ Len(depthElements') = Kept(stack, depth')
      /\ \A i \in 1..Kept(stack, depth') : depthElements'[i] = stack[i]
  BY <1>1, <1>2, <1>3, PopDeeperProperties
<1> QED
  BY <1>1, <1>2, <1>4, <1>5, <1>6

(* An end tag keeps TypeInv, whichever names it pops or raises.            *)
LEMMA CloseTagTypeInv ==
  ASSUME TypeInv, CloseTag
  PROVE  TypeInv'
<1>1. pos' \in Nat /\ pos \in Nat /\ pos < pos'
  BY NextTagType DEF TypeInv, TypeOK, CloseTag
<1>2. doc' \in Seq(OpenElement) /\ Len(doc') = Len(doc) - 1
  <2>1. doc \in Seq(OpenElement) /\ doc # <<>> /\ doc' = Front(doc)
    BY DEF TypeInv, TypeOK, OpenElement, CloseTag
  <2> QED
    BY <2>1, FrontProperties
<1>3. /\ depth' \in uint32_t
      /\ depth' \in Nat
      /\ ~misread => depth = depth' + 1
      /\ depthElements' \in Seq(StackEntry)
      /\ Len(depthElements') <= Len(depthElements)
      /\ \A k \in 1..Len(depthElements') :
           depthElements'[k].elem = depthElements[k].elem
  BY CloseTagStack
<1>4. Len(doc) \in Nat
  BY LenProperties DEF TypeInv, TypeOK
<1>5. ~misread' => depth' = Len(doc')
  BY <1>2, <1>3, <1>4 DEF CloseTag, TypeInv, TypeOK
<1>6. TypeOK'
  BY <1>1, <1>2, <1>3, <1>5
     DEF CloseTag, SetTag, storageVars, TypeInv, TypeOK, StorageTypeOK,
         OpenElement, StackEntry, tagType
<1>7. DepthCounts'
  BY <1>1, <1>2, <1>4
     DEF CloseTag, NextTag, SetTag, storageVars, TypeInv, DepthCounts
<1>8. StackPoints'
  <2>1. Len(depthElements) \in Nat /\ Len(depthElements') \in Nat
    <3>1. depthElements \in Seq(StackEntry)
      BY DEF TypeInv, TypeOK, StackEntry
    <3> QED
      BY <1>3, <3>1, LenProperties
  <2> QED
    BY <1>3, <2>1 DEF CloseTag, storageVars, TypeInv, StackPoints
<1>9. ListsMatch'
  BY DEF CloseTag, storageVars, TypeInv, ListsMatch
<1> QED
  BY <1>6, <1>7, <1>8, <1>9 DEF TypeInv

(* A SHORT-NAME: the new element, the slot it gets, and the stack.         *)
LEMMA NamesType ==
  ASSUME TypeInv
  PROVE  /\ NamesOf(depthElements) \in Seq(Name)
         /\ Len(NamesOf(depthElements)) = Len(depthElements)
         /\ \A k \in 1..Len(depthElements) :
              NamesOf(depthElements)[k] = shortnames[depthElements[k].elem].name
<1>1. depthElements \in Seq(StackEntry) /\ shortnames \in Seq(ShortnameElement)
  BY DEF TypeInv, TypeOK, StorageTypeOK, StackEntry
<1>2. Len(depthElements) \in Nat
  BY <1>1, LenProperties
<1>3. \A k \in 1..Len(depthElements) :
        shortnames[depthElements[k].elem] \in ShortnameElement
  BY <1>1, ElementOfSeq DEF TypeInv, StackPoints
<1>4. \A k \in 1..Len(depthElements) :
        shortnames[depthElements[k].elem].name \in Name
  BY <1>3 DEF ShortnameElement
<1> QED
  BY <1>2, <1>4, IsASeq DEF NamesOf

(* The named element the parser is in is a stored one, or nullptr.         *)
LEMMA InnermostType ==
  ASSUME TypeInv
  PROVE  /\ Innermost \in 0..Len(shortnames)
         /\ Innermost = 0 <=> depthElements = <<>>
         /\ depthElements # <<>> =>
              Innermost = depthElements[Len(depthElements)].elem
<1>1. depthElements \in Seq(StackEntry) /\ shortnames \in Seq(ShortnameElement)
  BY DEF TypeInv, TypeOK, StorageTypeOK, StackEntry
<1>2. Len(shortnames) \in Nat
  BY <1>1, LenProperties
<1>3. depthElements # <<>> => Len(depthElements) \in 1..Len(depthElements)
  BY <1>1, EmptySeq
<1>4. depthElements # <<>> =>
        depthElements[Len(depthElements)].elem \in 1..Len(shortnames)
  BY <1>3 DEF TypeInv, StackPoints
<1> QED
  BY <1>2, <1>4 DEF Innermost, nullptr, Last

(* What a SHORT-NAME tag fills in is a ShortnameElement.                   *)
LEMMA NewShortnameType ==
  ASSUME TypeInv, NextTag, NEW n \in Name
  PROVE  NewShortname(n) \in ShortnameElement
<1>1. fileIndex \in Pointer
  <2>1. URIs \in Seq(Uri) /\ URIs # <<>>
    BY DEF TypeInv, TypeOK, StorageTypeOK, DepthCounts, NextTag
  <2> QED
    BY <2>1, EmptySeq DEF fileIndex, Pointer, nullptr
<1>2. Innermost \in Nat
  <2>1. Len(shortnames) \in Nat
    BY LenProperties DEF TypeInv, TypeOK, StorageTypeOK
  <2> QED
    BY <2>1, InnermostType
<1>3. NamesOf(depthElements) \in Path
  BY NamesType DEF Path
<1>4. pos \in Nat
  BY DEF TypeInv, TypeOK
<1> QED
  BY <1>1, <1>2, <1>3, <1>4 DEF NewShortname, ShortnameElement

(* Lists of pointers by element: one more pointer, one more element.       *)
LEMMA PushToType ==
  ASSUME NEW lists \in Seq(Seq(Pointer)), NEW p \in 0..Len(lists),
         NEW q \in Pointer
  PROVE  /\ PushTo(lists, p, q) \in Seq(Seq(Pointer))
         /\ Len(PushTo(lists, p, q)) = Len(lists)
         /\ \A i \in 1..Len(lists) :
              PushTo(lists, p, q)[i] = IF i = p THEN Append(lists[p], q) ELSE lists[i]
<1>1. Len(lists) \in Nat
  BY LenProperties
<1>2. CASE p = 0
  BY <1>1, <1>2 DEF PushTo, nullptr
<1>3. CASE p # 0
  <2>1. p \in 1..Len(lists)
    BY <1>1, <1>3
  <2>2. Append(lists[p], q) \in Seq(Pointer)
    <3>1. lists[p] \in Seq(Pointer)
      BY <2>1, ElementOfSeq
    <3> QED
      BY <3>1, AppendProperties
  <2>3. PushTo(lists, p, q) = [lists EXCEPT ![p] = Append(lists[p], q)]
    BY <1>3 DEF PushTo, nullptr
  <2> QED
    BY <2>1, <2>2, <2>3, ExceptSeq
<1> QED
  BY <1>2, <1>3

(* addShortname leaves a container of elements, no smaller than before,    *)
(* and the pointer it returns points into it.                              *)
LEMMA ShortNameStorage ==
  ASSUME TypeInv, NEW n \in Name, ShortName(n)
  PROVE  /\ NewShortname(n) \in ShortnameElement
         /\ shortnames' \in Seq(ShortnameElement)
         /\ Len(shortnames') =
              IF IsNew(NewShortname(n)) THEN Len(shortnames) + 1 ELSE Len(shortnames)
         /\ \A p \in 1..Len(shortnames) : shortnames'[p] = shortnames[p]
         /\ SlotOf(NewShortname(n)) \in 1..Len(shortnames')
         /\ IsNew(NewShortname(n)) =>
              /\ SlotOf(NewShortname(n)) = Len(shortnames')
              /\ shortnames'[Len(shortnames')] = NewShortname(n)
<1> DEFINE elem == NewShortname(n)
<1>1. elem \in ShortnameElement
  BY NewShortnameType DEF ShortName
<1>2. shortnames \in Seq(ShortnameElement)
  BY DEF TypeInv, TypeOK, StorageTypeOK
<1>3. shortnames' = IF IsNew(elem) THEN Append(shortnames, elem) ELSE shortnames
  BY DEF ShortName, addShortname
<1>4. Len(shortnames) \in Nat
  BY <1>2, LenProperties
<1>5. /\ SlotOf(elem) \in 1..(Len(shortnames) + 1)
      /\ IsNew(elem) => SlotOf(elem) = Len(shortnames) + 1
      /\ ~IsNew(elem) => SlotOf(elem) \in 1..Len(shortnames)
  BY <1>1, <1>2, SlotProperties
<1> HIDE DEF elem
<1>6. CASE IsNew(elem)
  <2>1. shortnames' = Append(shortnames, elem)
    BY <1>3, <1>6
  <2>2. /\ shortnames' \in Seq(ShortnameElement)
        /\ Len(shortnames') = Len(shortnames) + 1
        /\ \A p \in 1..Len(shortnames) : shortnames'[p] = shortnames[p]
        /\ shortnames'[Len(shortnames) + 1] = elem
    BY <1>1, <1>2, <2>1, AppendProperties
  <2> QED
    BY <1>1, <1>4, <1>5, <1>6, <2>2 DEF elem
<1>7. CASE ~IsNew(elem)
  <2>1. shortnames' = shortnames
    BY <1>3, <1>7
  <2> QED
    BY <1>1, <1>2, <1>5, <1>7, <2>1 DEF elem
<1> QED
  BY <1>6, <1>7

(* A SHORT-NAME tag pushes the pointer that addShortname returned.         *)
LEMMA ShortNameStack ==
  ASSUME TypeInv, NEW n \in Name, ShortName(n)
  PROVE  /\ depthElements' \in Seq(StackEntry)
         /\ depthElements' # <<>>
         /\ Len(depthElements') = Len(depthElements) + 1
         /\ \A k \in 1..Len(depthElements) : depthElements'[k] = depthElements[k]
         /\ depthElements'[Len(depthElements) + 1] =
              [depth |-> depth, elem |-> SlotOf(NewShortname(n))]
<1> DEFINE top == [depth |-> depth, elem |-> SlotOf(NewShortname(n))]
<1>1. SlotOf(NewShortname(n)) \in Pointer
  <2>1. shortnames' \in Seq(ShortnameElement)
    BY ShortNameStorage
  <2>2. Len(shortnames') \in Nat
    BY <2>1, LenProperties
  <2>3. SlotOf(NewShortname(n)) \in 1..Len(shortnames')
    BY ShortNameStorage
  <2> QED
    BY <2>2, <2>3 DEF Pointer, nullptr
<1>2. top \in StackEntry
  BY <1>1 DEF StackEntry, TypeInv, TypeOK
<1>3. depthElements \in Seq(StackEntry)
  BY DEF TypeInv, TypeOK, StackEntry
<1>4. depthElements' = Append(depthElements, top)
  BY DEF ShortName
<1> HIDE DEF top
<1> QED
  BY <1>2, <1>3, <1>4, AppendProperties DEF top

(* The lists of children and of references grow with the elements.         *)
LEMMA ShortNameLists ==
  ASSUME TypeInv, NEW n \in Name, ShortName(n)
  PROVE  /\ children' \in Seq(Seq(Pointer))
         /\ Len(children') = Len(shortnames')
         /\ \A p \in 1..Len(children) :
              children'[p] = IF p = Innermost
                             THEN Append(children[p], SlotOf(NewShortname(n)))
                             ELSE children[p]
         /\ IsNew(NewShortname(n)) => children'[Len(children')] = <<>>
         /\ ownReferences' \in Seq(Seq(Pointer))
         /\ Len(ownReferences') = Len(shortnames')
         /\ \A p \in 1..Len(ownReferences) : ownReferences'[p] = ownReferences[p]
         /\ IsNew(NewShortname(n)) => ownReferences'[Len(ownReferences')] = <<>>
<1> DEFINE elem == NewShortname(n)
           slot == SlotOf(elem)
           pushed == PushTo(children, Innermost, slot)
<1>1. /\ children \in Seq(Seq(Pointer))
      /\ ownReferences \in Seq(Seq(Pointer))
      /\ Len(children) = Len(shortnames)
      /\ Len(ownReferences) = Len(shortnames)
  BY DEF TypeInv, TypeOK, StorageTypeOK, ListsMatch
<1>2. Len(shortnames) \in Nat /\ Len(shortnames') \in Nat
  <2>1. shortnames' \in Seq(ShortnameElement)
    BY ShortNameStorage
  <2> QED
    BY <1>1, <2>1, LenProperties
<1>3. slot \in Pointer
  BY <1>2, ShortNameStorage DEF Pointer, nullptr
<1>4. Innermost \in 0..Len(children)
  BY <1>1, InnermostType
<1>5. /\ pushed \in Seq(Seq(Pointer))
      /\ Len(pushed) = Len(children)
      /\ \A i \in 1..Len(children) :
           pushed[i] = IF i = Innermost THEN Append(children[i], slot) ELSE children[i]
  <2> HIDE DEF slot
  <2>1. /\ pushed \in Seq(Seq(Pointer))
        /\ Len(pushed) = Len(children)
        /\ \A i \in 1..Len(children) :
             pushed[i] = IF i = Innermost
                         THEN Append(children[Innermost], slot) ELSE children[i]
    BY <1>1, <1>3, <1>4, PushToType
  <2> HIDE DEF pushed
  <2> QED
    BY <2>1
<1>6. /\ children' = IF IsNew(elem) THEN Append(pushed, <<>>) ELSE pushed
      /\ ownReferences' =
           IF IsNew(elem) THEN Append(ownReferences, <<>>) ELSE ownReferences
  BY DEF ShortName
<1>7. Len(shortnames') = IF IsNew(elem) THEN Len(shortnames) + 1 ELSE Len(shortnames)
  BY ShortNameStorage
<1>8. <<>> \in Seq(Pointer)
  BY EmptySeq
<1> HIDE DEF elem, slot, pushed
<1>9. CASE IsNew(elem)
  <2>1. children' = Append(pushed, <<>>) /\ ownReferences' = Append(ownReferences, <<>>)
    BY <1>6, <1>9
  <2>2. /\ children' \in Seq(Seq(Pointer))
        /\ Len(children') = Len(children) + 1
        /\ \A p \in 1..Len(children) : children'[p] = pushed[p]
        /\ children'[Len(children) + 1] = <<>>
    BY <1>5, <1>8, <2>1, AppendProperties
  <2>3. /\ ownReferences' \in Seq(Seq(Pointer))
        /\ Len(ownReferences') = Len(ownReferences) + 1
        /\ \A p \in 1..Len(ownReferences) : ownReferences'[p] = ownReferences[p]
        /\ ownReferences'[Len(ownReferences) + 1] = <<>>
    BY <1>1, <1>8, <2>1, AppendProperties
  <2> QED
    BY <1>1, <1>5, <1>7, <1>9, <2>2, <2>3 DEF elem, slot
<1>10. CASE ~IsNew(elem)
  BY <1>1, <1>5, <1>6, <1>7, <1>10 DEF elem, slot
<1> QED
  BY <1>9, <1>10

(* A SHORT-NAME tag keeps TypeInv.                                         *)
LEMMA ShortNameTypeInv ==
  ASSUME TypeInv, NEW n \in Name, ShortName(n)
  PROVE  TypeInv'
<1>1. pos' \in Nat /\ pos \in Nat /\ pos < pos'
  BY NextTagType DEF TypeInv, TypeOK, ShortName
<1>2. doc' \in Seq(OpenElement) /\ Len(doc') = Len(doc)
  <2>1. \E content \in Contents : doc' = Holds(content)
    BY DEF ShortName, Contents
  <2> QED
    BY <2>1, HoldsType DEF TypeInv
<1>3. /\ shortnames' \in Seq(ShortnameElement)
      /\ Len(shortnames') >= Len(shortnames)
      /\ SlotOf(NewShortname(n)) \in 1..Len(shortnames')
  <2>1. shortnames \in Seq(ShortnameElement)
    BY DEF TypeInv, TypeOK, StorageTypeOK
  <2>2. Len(shortnames) \in Nat
    BY <2>1, LenProperties
  <2> QED
    BY <2>2, ShortNameStorage
<1>4. /\ children' \in Seq(Seq(Pointer))
      /\ ownReferences' \in Seq(Seq(Pointer))
      /\ ListsMatch'
  BY ShortNameLists DEF ListsMatch
<1>5. depthElements' \in Seq(StackEntry)
  BY ShortNameStack
<1>6. TypeOK'
  BY <1>1, <1>2, <1>3, <1>4, <1>5
     DEF ShortName, SetTag, TypeInv, TypeOK, StorageTypeOK, OpenElement,
         StackEntry, tagType
<1>7. DepthCounts'
  <2>1. /\ depthElements' # <<>>
        /\ Len(depthElements') = Len(depthElements) + 1
        /\ depthElements'[Len(depthElements) + 1].depth = depth
    <3>1. depthElements'[Len(depthElements) + 1] =
            [depth |-> depth, elem |-> SlotOf(NewShortname(n))]
      BY ShortNameStack
    <3>2. depthElements'[Len(depthElements) + 1].depth = depth
      BY <3>1
    <3> QED
      BY <3>2, ShortNameStack
  <2>2. Len(doc) \in Nat
    BY LenProperties DEF TypeInv, TypeOK
  <2> QED
    BY <1>1, <1>2, <2>1, <2>2 DEF ShortName, NextTag, SetTag, TypeInv, DepthCounts
<1>8. StackPoints'
  <2>1. Len(shortnames) \in Nat /\ Len(shortnames') \in Nat /\ Len(depthElements) \in Nat
    <3>1. shortnames \in Seq(ShortnameElement) /\ depthElements \in Seq(StackEntry)
      BY DEF TypeInv, TypeOK, StorageTypeOK, StackEntry
    <3> QED
      BY <1>3, <3>1, LenProperties
  <2>2. \A k \in 1..Len(depthElements) : depthElements[k].elem \in 1..Len(shortnames)
    BY DEF TypeInv, StackPoints
  <2>3. ASSUME NEW k \in 1..Len(depthElements')
        PROVE  depthElements'[k].elem \in 1..Len(shortnames')
    <3>1. CASE k \in 1..Len(depthElements)
      <4>1. depthElements'[k] = depthElements[k]
        BY <3>1, ShortNameStack
      <4> QED
        BY <1>3, <2>1, <2>2, <3>1, <4>1
    <3>2. CASE k = Len(depthElements) + 1
      <4>1. depthElements'[Len(depthElements) + 1] =
              [depth |-> depth, elem |-> SlotOf(NewShortname(n))]
        BY ShortNameStack
      <4>2. depthElements'[k].elem = SlotOf(NewShortname(n))
        BY <3>2, <4>1
      <4> QED
        BY <1>3, <4>2
    <3>3. k \in 1..(Len(depthElements) + 1)
      BY ShortNameStack
    <3> QED
      BY <2>1, <3>1, <3>2, <3>3
  <2> QED
    BY <2>3 DEF StackPoints
<1> QED
  BY <1>4, <1>6, <1>7, <1>8 DEF TypeInv

(* Every reference and every misread tag stores a path.                    *)
LEMMA ReferenceStores ==
  /\ \A target \in Target :
       target \in Seq(Name) /\ (Reference(target) => StoreReference(target))
  /\ <<>> \in Seq(Name) /\ (MisreadTag => StoreReference(<<>>))
BY ParserAssumption, EmptySeq DEF Reference, MisreadTag

(* A reference goes to the end of references_ and to the list of its       *)
(* owner, if it has one.                                                   *)
LEMMA ReferenceStorage ==
  ASSUME TypeInv, NEW target \in Seq(Name), StoreReference(target)
  PROVE  /\ references' \in Seq(ReferenceElement)
         /\ Len(references') = Len(references) + 1
         /\ Len(references) \in Nat
         /\ \A r \in 1..Len(references) : references'[r] = references[r]
         /\ references'[Len(references) + 1] =
              [targetPath |-> target, charOffset |-> pos,
               owner |-> Innermost, fileIndex |-> fileIndex]
         /\ ownReferences' \in Seq(Seq(Pointer))
         /\ Len(ownReferences') = Len(ownReferences)
         /\ \A p \in 1..Len(ownReferences) :
              ownReferences'[p] =
                IF p = Innermost
                THEN Append(ownReferences[Innermost], Len(references) + 1)
                ELSE ownReferences[p]
<1> DEFINE elem == [targetPath |-> target, charOffset |-> pos,
                    owner |-> Innermost, fileIndex |-> fileIndex]
<1>1. elem \in ReferenceElement
  <2>1. fileIndex \in Pointer
    <3>1. URIs \in Seq(Uri) /\ URIs # <<>>
      BY DEF TypeInv, TypeOK, StorageTypeOK, DepthCounts, StoreReference,
             NextTag
    <3> QED
      BY <3>1, EmptySeq DEF fileIndex, Pointer, nullptr
  <2>2. Innermost \in Nat
    <3>1. Len(shortnames) \in Nat
      BY LenProperties DEF TypeInv, TypeOK, StorageTypeOK
    <3> QED
      BY <3>1, InnermostType
  <2>3. target \in Path /\ pos \in Nat
    BY DEF Path, TypeInv, TypeOK
  <2> QED
    BY <2>1, <2>2, <2>3 DEF ReferenceElement
<1>2. /\ references \in Seq(ReferenceElement)
      /\ ownReferences \in Seq(Seq(Pointer))
      /\ references' = Append(references, elem)
      /\ ownReferences' = PushTo(ownReferences, Innermost, Len(references'))
  BY DEF TypeInv, TypeOK, StorageTypeOK, StoreReference, addReference
<1> HIDE DEF elem
<1>3. /\ references' \in Seq(ReferenceElement)
      /\ Len(references') = Len(references) + 1
      /\ Len(references) \in Nat
      /\ \A r \in 1..Len(references) : references'[r] = references[r]
      /\ references'[Len(references) + 1] = elem
  BY <1>1, <1>2, AppendProperties, LenProperties
<1>4. Len(references') \in Pointer
  BY <1>3 DEF Pointer, nullptr
<1>5. Innermost \in 0..Len(ownReferences)
  BY InnermostType DEF TypeInv, ListsMatch
<1>6. /\ ownReferences' \in Seq(Seq(Pointer))
      /\ Len(ownReferences') = Len(ownReferences)
      /\ \A p \in 1..Len(ownReferences) :
           ownReferences'[p] =
             IF p = Innermost
             THEN Append(ownReferences[Innermost], Len(references'))
             ELSE ownReferences[p]
  <2> DEFINE q == Len(references')
             pushed == PushTo(ownReferences, Innermost, q)
  <2>1. q \in Pointer
    BY <1>4
  <2> HIDE DEF q
  <2>2. /\ pushed \in Seq(Seq(Pointer))
        /\ Len(pushed) = Len(ownReferences)
        /\ \A p \in 1..Len(ownReferences) :
             pushed[p] = IF p = Innermost
                         THEN Append(ownReferences[Innermost], q)
                         ELSE ownReferences[p]
    BY <1>2, <1>5, <2>1, PushToType
  <2>3. ownReferences' = pushed
    BY <1>2 DEF q
  <2> HIDE DEF pushed
  <2> QED
    BY <2>2, <2>3 DEF q
<1> QED
  BY <1>3, <1>6 DEF elem

(* What a reference and a misread tag store keeps TypeInv, when the open   *)
(* elements do.                                                            *)
LEMMA StoreReferenceTypeInv ==
  ASSUME TypeInv, NEW target \in Seq(Name), StoreReference(target),
         doc' \in Seq(OpenElement), misread' \in BOOLEAN,
         ~misread' => ~misread /\ Len(doc') = Len(doc)
  PROVE  TypeInv'
<1>1. pos' \in Nat /\ pos \in Nat /\ pos < pos' /\ mode = "parsing"
  BY NextTagType DEF TypeInv, TypeOK, StoreReference, NextTag
<1>2. /\ references' \in Seq(ReferenceElement)
      /\ ownReferences' \in Seq(Seq(Pointer))
      /\ Len(ownReferences') = Len(ownReferences)
  BY ReferenceStorage
<1>3. TypeOK'
  BY <1>1, <1>2
     DEF StoreReference, SetTag, TypeInv, TypeOK, StorageTypeOK, OpenElement, tagType
<1>4. DepthCounts'
  <2>1. Len(doc) \in Nat
    BY LenProperties DEF TypeInv, TypeOK
  <2> QED
    BY <1>1, <2>1 DEF StoreReference, SetTag, TypeInv, DepthCounts
<1>5. StackPoints' /\ ListsMatch'
  BY <1>2 DEF StoreReference, TypeInv, StackPoints, ListsMatch
<1> QED
  BY <1>3, <1>4, <1>5 DEF TypeInv

(* A reference keeps TypeInv.                                              *)
LEMMA ReferenceTypeInv ==
  ASSUME TypeInv, NEW target \in Target, Reference(target)
  PROVE  TypeInv'
<1>1. target \in Seq(Name) /\ StoreReference(target)
  BY ReferenceStores
<1>2. doc' \in Seq(OpenElement) /\ Len(doc') = Len(doc)
  BY HoldsType DEF Reference, TypeInv, Contents
<1>3. misread' = misread /\ misread \in BOOLEAN
  BY DEF Reference, TypeInv, TypeOK
<1> QED
  BY <1>1, <1>2, <1>3, StoreReferenceTypeInv

(* Whatever follows a misread tag, the elements that are open behind it    *)
(* are open elements.                                                      *)
LEMMA AfterMisreadType ==
  ASSUME TypeOK
  PROVE  AfterMisread \subseteq Seq(OpenElement)
<1>1. Holds("more") \in Seq(OpenElement)
  BY HoldsType DEF Contents
<1>2. \A elems \in Seq(OpenElement), tag \in Elements :
        Entered(elems, tag) \in Seq(OpenElement)
  <2>1. \A tag \in Elements : [tag |-> tag, content |-> "more"] \in OpenElement
    BY DEF OpenElement, Contents
  <2> QED
    BY <2>1, AppendProperties DEF Entered
<1>3. doc # <<>> => Front(doc) \in Seq(OpenElement)
  BY FrontProperties DEF TypeOK, OpenElement
<1> QED
  BY <1>1, <1>2, <1>3 DEF AfterMisread

(* A misread tag keeps TypeInv: depth is no longer the number of open      *)
(* elements, but nothing else relies on it.                                *)
LEMMA MisreadTagTypeInv ==
  ASSUME TypeInv, MisreadTag
  PROVE  TypeInv'
<1>1. <<>> \in Seq(Name) /\ StoreReference(<<>>)
  BY ReferenceStores
<1>2. doc' \in Seq(OpenElement) /\ misread' = TRUE
  BY AfterMisreadType DEF MisreadTag, TypeInv
<1> QED
  BY <1>1, <1>2, StoreReferenceTypeInv

(* A step of the environment alone keeps TypeInv.                          *)
LEMMA StutterTypeInv ==
  ASSUME TypeInv, UNCHANGED vars
  PROVE  TypeInv'
BY DEF vars, storageVars, parserVars, TypeInv, TypeOK, StorageTypeOK,
       DepthCounts, StackPoints, ListsMatch, fileIndex

(* Every step of the parser keeps TypeInv.                                 *)
LEMMA NextTypeInv == TypeInv /\ [Next]_vars => TypeInv'
<1> SUFFICES ASSUME TypeInv, [Next]_vars
             PROVE  TypeInv'
  OBVIOUS
<1>1. ASSUME NEW uri \in Uri, BeginFile(uri, FALSE)
      PROVE  TypeInv'
  BY <1>1, BeginFileTypeInv
<1>2. ASSUME NEW uri \in Uri, BeginFile(uri, TRUE)
      PROVE  TypeInv'
  BY <1>2, BeginFileTypeInv
<1>3. CASE EndFile
  BY <1>3, EndFileTypeInv
<1>4. CASE SkipTag
  BY <1>4, SkipTagTypeInv
<1>5. ASSUME NEW tag \in Elements, OpenTag(tag)
      PROVE  TypeInv'
  BY <1>5, OpenTagTypeInv
<1>6. CASE CloseTag
  BY <1>6, CloseTagTypeInv
<1>7. ASSUME NEW n \in Name, ShortName(n)
      PROVE  TypeInv'
  BY <1>7, ShortNameTypeInv
<1>8. ASSUME NEW target \in Target, Reference(target)
      PROVE  TypeInv'
  BY <1>8, ReferenceTypeInv
<1>9. CASE MisreadTag
  BY <1>9, MisreadTagTypeInv
<1>10. CASE UNCHANGED vars
  BY <1>10, StutterTypeInv
<1> QED
  BY <1>1, <1>2, <1>3, <1>4, <1>5, <1>6, <1>7, <1>8, <1>9, <1>10 DEF Next

(* TypeInv holds at every tag of every file.                               *)
LEMMA TypeInvInvariant == Spec => []TypeInv
BY InitTypeInv, NextTypeInv, PTL DEF Spec

(* The parser never makes an ill-typed step: the depth counter counts the  *)
(* open elements and does not wrap around, in each file up to the first    *)
(* tag that the search for DEST misreads; and in any file an <IDENT> is    *)
(* never raised on an empty stack, and no pointer is null where it is      *)
(* followed.                                                               *)
THEOREM TypeCorrect == Spec => []TypeOK
<1>1. TypeInv => TypeOK
  BY DEF TypeInv
<1> QED
  BY <1>1, TypeInvInvariant, PTL

-----------------------------------------------------------------------------
(* The chain of parents.  ParentChain alone is not inductive: a new        *)
(* element takes its path from the names on the stack and its parent from  *)
(* the top of it, so the stack has to hold elements of this file, each     *)
(* with the names below it as its path.  A merged element keeps its old    *)
(* path; it fits because the two agree in the full path, and they do so    *)
(* because they cannot agree in the offset, which is behind the parser.    *)

InScope ==
  \A k \in 1..Len(depthElements) :
    LET elem == shortnames[depthElements[k].elem]
    IN /\ elem.fileIndex = fileIndex
       /\ Len(elem.path) = k - 1
       /\ \A j \in 1..(k - 1) :
            elem.path[j] = shortnames[depthElements[j].elem].name

BehindPos ==
  \A p \in 1..Len(shortnames) :
    /\ shortnames[p].fileIndex <= fileIndex
    /\ shortnames[p].fileIndex = fileIndex => shortnames[p].charOffset < pos

ScopeInv == InScope /\ BehindPos /\ ParentChain

(* The parts of the elements on the stack and in the container.            *)
LEMMA ElementTypes ==
  ASSUME TypeInv
  PROVE  /\ Len(shortnames) \in Nat
         /\ Len(depthElements) \in Nat
         /\ fileIndex \in Nat
         /\ \A p \in 1..Len(shortnames) :
              /\ shortnames[p].name \in Name
              /\ shortnames[p].path \in Seq(Name)
              /\ shortnames[p].charOffset \in Nat
              /\ shortnames[p].fileIndex \in Nat
              /\ shortnames[p].parent \in Nat
         /\ \A k \in 1..Len(depthElements) :
              depthElements[k].elem \in 1..Len(shortnames)
<1>1. /\ shortnames \in Seq(ShortnameElement)
      /\ depthElements \in Seq(StackEntry)
      /\ URIs \in Seq(Uri)
  BY DEF TypeInv, TypeOK, StorageTypeOK, StackEntry
<1>2. Len(shortnames) \in Nat /\ Len(depthElements) \in Nat /\ Len(URIs) \in Nat
  BY <1>1, LenProperties
<1>3. \A p \in 1..Len(shortnames) : shortnames[p] \in ShortnameElement
  BY <1>1, ElementOfSeq
<1> QED
  BY <1>2, <1>3 DEF ShortnameElement, Path, Pointer, fileIndex, TypeInv, StackPoints

(* The names on the stack are the full path of the element on top of it.   *)
LEMMA PathOfInnermost ==
  ASSUME TypeInv, InScope, depthElements # <<>>
  PROVE  /\ Innermost \in 1..Len(shortnames)
         /\ shortnames[Innermost].fileIndex = fileIndex
         /\ NamesOf(depthElements) = getFullPath(shortnames[Innermost])
<1> DEFINE n == Len(depthElements)
           top == shortnames[Innermost]
           names == NamesOf(depthElements)
<1>1. n \in Nat \ {0}
  BY EmptySeq DEF TypeInv, TypeOK
<1>2. Innermost = depthElements[n].elem /\ Innermost \in 1..Len(shortnames)
  BY <1>1, InnermostType, ElementTypes
<1>3. /\ names \in Seq(Name)
      /\ Len(names) = n
      /\ \A k \in 1..n : names[k] = shortnames[depthElements[k].elem].name
  BY NamesType
<1>4. /\ top.fileIndex = fileIndex
      /\ Len(top.path) = n - 1
      /\ \A j \in 1..(n - 1) :
           top.path[j] = shortnames[depthElements[j].elem].name
  BY <1>1, <1>2 DEF InScope
<1>5. top.path \in Seq(Name) /\ top.name \in Name
  BY <1>2, ElementTypes
<1>6. top.name = names[n]
  BY <1>1, <1>2, <1>3
<1> HIDE DEF n, top, names
<1>7. /\ Append(top.path, top.name) \in Seq(Name)
      /\ Len(Append(top.path, top.name)) = Len(top.path) + 1
      /\ \A i \in 1..Len(top.path) : Append(top.path, top.name)[i] = top.path[i]
      /\ Append(top.path, top.name)[Len(top.path) + 1] = top.name
  BY <1>5, AppendProperties
<1>8. \A i \in 1..n : names[i] = Append(top.path, top.name)[i]
  BY <1>1, <1>3, <1>4, <1>6, <1>7
<1>9. names = Append(top.path, top.name)
  BY <1>1, <1>3, <1>4, <1>7, <1>8, SeqEqual
<1> QED
  BY <1>2, <1>4, <1>9 DEF getFullPath, names, top

(* The element a SHORT-NAME stands for, new or merged, is one of this file *)
(* whose path is the names on the stack.                                   *)
LEMMA SlotInScope ==
  ASSUME TypeInv, BehindPos, NEW n \in Name, ShortName(n)
  PROVE  LET elem == shortnames'[SlotOf(NewShortname(n))]
         IN /\ elem.fileIndex = fileIndex
            /\ elem.path = NamesOf(depthElements)
            /\ elem.name = n
<1> DEFINE new == NewShortname(n)
           slot == SlotOf(new)
<1>1. /\ new.fileIndex = fileIndex
      /\ new.path = NamesOf(depthElements)
      /\ new.name = n
      /\ new.charOffset = pos
  BY DEF NewShortname
<1>2. CASE IsNew(new)
  <2>1. shortnames'[slot] = new
    BY <1>2, ShortNameStorage
  <2> HIDE DEF new, slot
  <2> QED
    BY <1>1, <2>1 DEF slot, new
<1>3. CASE ~IsNew(new)
  <2> DEFINE old == shortnames[slot]
  <2>1. slot \in 1..Len(shortnames) /\ Conflicts(new, old)
    <3>1. new \in ShortnameElement
      BY ShortNameStorage
    <3>2. shortnames \in Seq(ShortnameElement)
      BY DEF TypeInv, TypeOK, StorageTypeOK
    <3> HIDE DEF new
    <3> QED
      BY <1>3, <3>1, <3>2, SlotProperties
  <2>2. shortnames'[slot] = old
    BY <2>1, ShortNameStorage
  <2>3. /\ old.fileIndex \in Nat /\ old.charOffset \in Nat
        /\ old.path \in Seq(Name) /\ old.name \in Name
    BY <2>1, ElementTypes
  <2>4. old.fileIndex = fileIndex /\ old.charOffset < pos
    BY <1>1, <2>1 DEF Conflicts, BehindPos
  <2>5. getFullPath(new) = getFullPath(old)
    <3>1. pos \in Nat
      BY DEF TypeInv, TypeOK
    <3> QED
      BY <1>1, <2>1, <2>3, <2>4, <3>1 DEF Conflicts
  <2>6. Append(NamesOf(depthElements), n) = Append(old.path, old.name)
    BY <1>1, <2>5 DEF getFullPath
  <2>7. old.path = NamesOf(depthElements) /\ old.name = n
    <3>1. NamesOf(depthElements) \in Seq(Name)
      BY NamesType
    <3> QED
      BY <2>3, <2>6, <3>1, AppendInjective
  <2> HIDE DEF old, slot, new
  <2> QED
    BY <2>2, <2>4, <2>7 DEF slot, new
<1> QED
  BY <1>2, <1>3

(* Steps that add no element and at most pop the stack keep ScopeInv.      *)
LEMMA NoElementScopeInv ==
  ASSUME TypeInv, ScopeInv,
         shortnames' = shortnames, fileIndex' = fileIndex,
         pos' \in Nat, pos <= pos',
         Len(depthElements') \in 0..Len(depthElements),
         \A k \in 1..Len(depthElements') :
           depthElements'[k].elem = depthElements[k].elem
  PROVE  ScopeInv'
<1>1. Len(depthElements) \in Nat
  BY ElementTypes
<1>2. InScope'
  <2>1. ASSUME NEW k \in 1..Len(depthElements')
        PROVE  /\ shortnames'[depthElements'[k].elem].fileIndex = fileIndex'
               /\ Len(shortnames'[depthElements'[k].elem].path) = k - 1
               /\ \A j \in 1..(k - 1) :
                    shortnames'[depthElements'[k].elem].path[j]
                      = shortnames'[depthElements'[j].elem].name
    <3>1. k \in 1..Len(depthElements)
      BY <1>1
    <3>2. \A j \in 1..(k - 1) : depthElements'[j].elem = depthElements[j].elem
      BY <1>1
    <3>3. depthElements'[k].elem = depthElements[k].elem
      OBVIOUS
    <3>4. /\ shortnames[depthElements[k].elem].fileIndex = fileIndex
          /\ Len(shortnames[depthElements[k].elem].path) = k - 1
          /\ \A j \in 1..(k - 1) :
               shortnames[depthElements[k].elem].path[j]
                 = shortnames[depthElements[j].elem].name
      BY <3>1 DEF ScopeInv, InScope
    <3> QED
      BY <3>2, <3>3, <3>4
  <2> QED
    BY <2>1 DEF InScope
<1>3. BehindPos'
  <2>1. \A p \in 1..Len(shortnames) : shortnames[p].charOffset \in Nat
    BY ElementTypes
  <2>2. pos \in Nat
    BY DEF TypeInv, TypeOK
  <2> QED
    BY <2>1, <2>2 DEF ScopeInv, BehindPos
<1>4. ParentChain'
  BY DEF ScopeInv, ParentChain, getFullPath
<1> QED
  BY <1>2, <1>3, <1>4 DEF ScopeInv

(* A new file starts with no name in scope, and the elements of earlier    *)
(* files keep their parents.                                               *)
LEMMA BeginFileScopeInv ==
  ASSUME TypeInv, ScopeInv, NEW uri \in Uri, NEW empty, BeginFile(uri, empty)
  PROVE  ScopeInv'
<1>1. shortnames' = shortnames /\ depthElements' = depthElements
  BY DEF BeginFile
<1>2. Len(depthElements') = 0
  BY <1>1 DEF BeginFile, TypeInv, DepthCounts
<1>3. fileIndex' = fileIndex + 1
  BY AppendProperties
     DEF BeginFile, addFileIndex, TypeInv, TypeOK, StorageTypeOK, fileIndex
<1>4. InScope'
  BY <1>2 DEF InScope
<1>5. BehindPos'
  <2>1. /\ fileIndex \in Nat
        /\ \A p \in 1..Len(shortnames) : shortnames[p].fileIndex \in Nat
    BY ElementTypes
  <2> QED
    BY <1>1, <1>3, <2>1 DEF ScopeInv, BehindPos
<1>6. ParentChain'
  BY <1>1 DEF ScopeInv, ParentChain, getFullPath
<1> QED
  BY <1>4, <1>5, <1>6 DEF ScopeInv

(* A SHORT-NAME tag keeps ScopeInv, be its element new or merged.          *)
LEMMA ShortNameScopeInv ==
  ASSUME TypeInv, ScopeInv, NEW n \in Name, ShortName(n)
  PROVE  ScopeInv'
<1> DEFINE new == NewShortname(n)
           slot == SlotOf(new)
           top == Len(depthElements) + 1
<1>1. /\ Len(shortnames) \in Nat
      /\ Len(depthElements) \in Nat
      /\ \A k \in 1..Len(depthElements) :
           depthElements[k].elem \in 1..Len(shortnames)
  BY ElementTypes
<1>2. \A p \in 1..Len(shortnames) : shortnames'[p] = shortnames[p]
  BY ShortNameStorage
<1>3. /\ fileIndex' = fileIndex
      /\ pos' = pos + TagWidth
  BY DEF ShortName, NextTag, fileIndex
<1>4. /\ Len(depthElements') = top
      /\ \A k \in 1..Len(depthElements) : depthElements'[k] = depthElements[k]
      /\ depthElements'[top].elem = slot
  <2>1. depthElements'[top] = [depth |-> depth, elem |-> slot]
    BY ShortNameStack
  <2>2. depthElements'[top].elem = slot
    BY <2>1
  <2> QED
    BY <2>2, ShortNameStack
<1>5. /\ shortnames'[slot].fileIndex = fileIndex
      /\ shortnames'[slot].path = NamesOf(depthElements)
  BY SlotInScope DEF ScopeInv
<1>6. \A k \in 1..Len(depthElements) :
        shortnames'[depthElements'[k].elem] = shortnames[depthElements[k].elem]
  BY <1>1, <1>2, <1>4
<1>7. InScope'
  <2> HIDE DEF new, slot
  <2>1. ASSUME NEW k \in 1..top
        PROVE  /\ shortnames'[depthElements'[k].elem].fileIndex = fileIndex
               /\ Len(shortnames'[depthElements'[k].elem].path) = k - 1
               /\ \A j \in 1..(k - 1) :
                    shortnames'[depthElements'[k].elem].path[j]
                      = shortnames'[depthElements'[j].elem].name
    <3>1. \A j \in 1..(k - 1) : j \in 1..Len(depthElements)
      BY <1>1
    <3>2. CASE k \in 1..Len(depthElements)
      BY <1>6, <3>1, <3>2 DEF ScopeInv, InScope
    <3>3. CASE k = top
      <4>1. /\ Len(NamesOf(depthElements)) = k - 1
            /\ \A j \in 1..(k - 1) : NamesOf(depthElements)[j]
                                       = shortnames[depthElements[j].elem].name
        BY <1>1, <3>3, NamesType
      <4>2. depthElements'[k].elem = slot
        BY <1>4, <3>3
      <4> QED
        BY <1>5, <1>6, <3>1, <4>1, <4>2
    <3> QED
      BY <1>1, <3>2, <3>3
  <2> HIDE DEF top
  <2> QED
    BY <1>3, <1>4, <2>1 DEF InScope
<1>8. \A p \in 1..Len(shortnames') :
        \/ p \in 1..Len(shortnames) /\ shortnames'[p] = shortnames[p]
        \/ p = Len(shortnames) + 1 /\ shortnames'[p] = new
  <2> HIDE DEF new
  <2> QED
    BY <1>1, <1>2, ShortNameStorage DEF new
<1>9. BehindPos'
  <2>1. /\ new.fileIndex = fileIndex
        /\ new.charOffset = pos
    BY DEF NewShortname
  <2>2. \A p \in 1..Len(shortnames) : shortnames[p].charOffset \in Nat
    BY ElementTypes
  <2>3. pos \in Nat /\ TagWidth \in Nat \ {0} /\ fileIndex \in Nat
    BY ElementTypes, WidthAssumption DEF TypeInv, TypeOK
  <2> HIDE DEF new
  <2>4. ASSUME NEW p \in 1..Len(shortnames')
        PROVE  /\ shortnames'[p].fileIndex <= fileIndex
               /\ shortnames'[p].fileIndex = fileIndex
                    => shortnames'[p].charOffset < pos + TagWidth
    <3>1. CASE p \in 1..Len(shortnames) /\ shortnames'[p] = shortnames[p]
      BY <2>2, <2>3, <3>1 DEF ScopeInv, BehindPos
    <3>2. CASE shortnames'[p] = new
      BY <2>1, <2>3, <3>2
    <3> QED
      BY <1>8, <3>1, <3>2
  <2> QED
    BY <1>3, <2>4 DEF BehindPos
<1>10. ParentChain'
  <2> DEFINE Chained(p) ==
        /\ shortnames'[p].parent = nullptr <=> shortnames'[p].path = <<>>
        /\ shortnames'[p].parent # nullptr =>
             /\ shortnames'[p].parent \in 1..(p - 1)
             /\ shortnames'[shortnames'[p].parent].fileIndex = shortnames'[p].fileIndex
             /\ shortnames'[p].path
                  = Append(shortnames'[shortnames'[p].parent].path,
                           shortnames'[shortnames'[p].parent].name)
  <2>1. ASSUME NEW p \in 1..Len(shortnames), shortnames'[p] = shortnames[p]
        PROVE  Chained(p)
    <3>1. /\ shortnames[p].parent = nullptr <=> shortnames[p].path = <<>>
          /\ shortnames[p].parent # nullptr =>
               /\ shortnames[p].parent \in 1..(p - 1)
               /\ shortnames[shortnames[p].parent].fileIndex = shortnames[p].fileIndex
               /\ shortnames[p].path = Append(shortnames[shortnames[p].parent].path,
                                              shortnames[shortnames[p].parent].name)
      BY DEF ScopeInv, ParentChain, getFullPath
    <3>2. shortnames[p].parent # nullptr =>
            shortnames'[shortnames[p].parent] = shortnames[shortnames[p].parent]
      BY <1>1, <1>2, <3>1
    <3> QED
      BY <2>1, <3>1, <3>2
  <2>2. ASSUME NEW p, p = Len(shortnames) + 1, shortnames'[p] = new
        PROVE  Chained(p)
    <3>1. /\ new.parent = Innermost
          /\ new.path = NamesOf(depthElements)
          /\ new.fileIndex = fileIndex
      BY DEF NewShortname
    <3> HIDE DEF new
    <3>2. CASE depthElements = <<>>
      <4>1. Innermost = nullptr
        BY <3>2 DEF Innermost
      <4>2. NamesOf(depthElements) = <<>>
        BY <3>2, NamesType, EmptySeq
      <4> QED
        BY <2>2, <3>1, <4>1, <4>2
    <3>3. CASE depthElements # <<>>
      <4>1. /\ Innermost \in 1..Len(shortnames)
            /\ shortnames[Innermost].fileIndex = fileIndex
            /\ NamesOf(depthElements)
                 = Append(shortnames[Innermost].path, shortnames[Innermost].name)
        BY <3>3, PathOfInnermost DEF ScopeInv, getFullPath
      <4>2. NamesOf(depthElements) # <<>>
        BY <1>1, <3>3, NamesType, EmptySeq DEF TypeInv, TypeOK
      <4>3. shortnames'[Innermost] = shortnames[Innermost]
        BY <1>2, <4>1
      <4>4. Innermost # nullptr /\ Innermost \in 1..(p - 1)
        BY <1>1, <2>2, <4>1 DEF nullptr
      <4> QED
        BY <2>2, <3>1, <4>1, <4>2, <4>3, <4>4
    <3> QED
      BY <3>2, <3>3
  <2>3. \A p \in 1..Len(shortnames') : Chained(p)
    <3> HIDE DEF Chained, new
    <3> QED
      BY <1>8, <2>1, <2>2
  <2> QED
    BY <2>3 DEF ParentChain, getFullPath, nullptr
<1> QED
  BY <1>7, <1>9, <1>10 DEF ScopeInv

(* ScopeInv holds at every tag of every file.                              *)
LEMMA ScopeInvInvariant == Spec => []ScopeInv
<1>1. Init => ScopeInv
  <2>1. Len(<<>>) = 0
    BY EmptySeq
  <2> QED
    BY <2>1 DEF Init, StorageInit, ScopeInv, InScope, BehindPos, ParentChain
<1>2. TypeInv /\ ScopeInv /\ [Next]_vars => ScopeInv'
  <2> SUFFICES ASSUME TypeInv, ScopeInv, [Next]_vars
               PROVE  ScopeInv'
    OBVIOUS
  <2>1. /\ Len(depthElements) \in Nat
        /\ pos \in Nat
    BY ElementTypes DEF TypeInv, TypeOK
  <2>2. ASSUME NEW uri \in Uri, NEW empty \in BOOLEAN, BeginFile(uri, empty)
        PROVE  ScopeInv'
    BY <2>2, BeginFileScopeInv
  <2>3. CASE EndFile
    <3>1. /\ shortnames' = shortnames /\ fileIndex' = fileIndex /\ pos' = pos
          /\ depthElements' = <<>>
      BY <2>3 DEF EndFile, storageVars, fileIndex
    <3>2. Len(depthElements') = 0
      BY <3>1, EmptySeq
    <3> QED
      BY <2>1, <3>1, <3>2, NoElementScopeInv
  <2>4. ASSUME NextTag, depthElements' = depthElements,
               shortnames' = shortnames, URIs' = URIs
        PROVE  ScopeInv'
    <3>1. fileIndex' = fileIndex /\ pos' \in Nat /\ pos < pos'
      BY <2>4, NextTagType DEF TypeInv, fileIndex
    <3> QED
      BY <2>1, <2>4, <3>1, NoElementScopeInv
  <2>5. CASE SkipTag
    BY <2>4, <2>5 DEF SkipTag, storageVars
  <2>6. ASSUME NEW tag \in Elements, OpenTag(tag)
        PROVE  ScopeInv'
    BY <2>4, <2>6 DEF OpenTag, storageVars
  <2>7. ASSUME NEW target \in Target, Reference(target)
        PROVE  ScopeInv'
    BY <2>4, <2>7 DEF Reference, StoreReference
  <2>8. CASE CloseTag
    <3>1. shortnames' = shortnames /\ URIs' = URIs /\ NextTag
      BY <2>8 DEF CloseTag, storageVars
    <3>2. fileIndex' = fileIndex /\ pos' \in Nat /\ pos < pos'
      BY <3>1, NextTagType DEF TypeInv, fileIndex
    <3>3. /\ Len(depthElements') <= Len(depthElements)
          /\ depthElements' \in Seq(StackEntry)
          /\ \A k \in 1..Len(depthElements') :
               depthElements'[k].elem = depthElements[k].elem
      BY <2>8, CloseTagStack
    <3>4. Len(depthElements') \in 0..Len(depthElements)
      BY <2>1, <3>3, LenProperties
    <3> QED
      BY <2>1, <3>1, <3>2, <3>3, <3>4, NoElementScopeInv
  <2>9. ASSUME NEW n \in Name, ShortName(n)
        PROVE  ScopeInv'
    BY <2>9, ShortNameScopeInv
  <2>10. CASE MisreadTag
    BY <2>4, <2>10 DEF MisreadTag, StoreReference
  <2>11. CASE UNCHANGED vars
    <3>1. /\ shortnames' = shortnames /\ fileIndex' = fileIndex /\ pos' = pos
          /\ depthElements' = depthElements
      BY <2>11 DEF vars, storageVars, parserVars, fileIndex
    <3> QED
      BY <2>1, <3>1, NoElementScopeInv
  <2> QED
    BY <2>2, <2>3, <2>5, <2>6, <2>7, <2>8, <2>9, <2>10, <2>11 DEF Next
<1> QED
  BY <1>1, <1>2, TypeInvInvariant, PTL DEF Spec

(* Climbing parents from an element yields the elements of its path, one   *)
(* name less each time, all in its own file.                               *)
THEOREM ParentsFollowPaths == Spec => []ParentChain
<1>1. ScopeInv => ParentChain
  BY DEF ScopeInv
<1> QED
  BY <1>1, ScopeInvInvariant, PTL
=============================================================================
