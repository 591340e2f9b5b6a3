------------------------- MODULE ArxmlScopesProofs -------------------------
(***************************************************************************)
(* The proof that ArxmlParser implements ArxmlScopes, for any names, URIs  *)
(* and bounds: each tag changes the depth counter and the stack of         *)
(* pointers as the lexical scope of SHORT-NAMEs has it, up to the first    *)
(* tag of a file that the search for DEST misreads.                        *)
(***************************************************************************)
EXTENDS ArxmlListsProofs

-----------------------------------------------------------------------------
(* The depth counter and the last two tags stand for what ArxmlScopes      *)
(* knows of the open elements: no name is in scope deeper than the parser  *)
(* is, and the last two tags tell what the innermost element has held.     *)

TopInScope ==
  depthElements # <<>> => depthElements[Len(depthElements)].depth <= depth

TagsRemembered ==
  /\ \A i \in 1..(Len(doc) - 1) : doc[i].content = "more"
  /\ doc # <<>> =>
       /\ doc[Len(doc)].content = "none" <=> currentTag = "opening_tag"
       /\ doc[Len(doc)].content = "shortname"
            <=> currentTag = "shortname" /\ lastTag = "opening_tag"

InStep == TopInScope /\ TagsRemembered

(* A misread tag puts an end to it in its file.                            *)
TagInv == ~misread => InStep

(* A tag changes what the innermost open element has held, and no more.    *)
LEMMA HoldsContent ==
  ASSUME TypeInv, NEW content \in Contents
  PROVE  /\ Holds(content) \in Seq(OpenElement)
         /\ Len(Holds(content)) = Len(doc)
         /\ \A i \in 1..Len(doc) :
              /\ Holds(content)[i].tag = doc[i].tag
              /\ Holds(content)[i].content =
                   IF i = Len(doc) THEN content ELSE doc[i].content
<1>1. doc \in Seq(OpenElement) /\ Len(doc) \in Nat
  BY LenProperties DEF TypeInv, TypeOK, OpenElement
<1>2. Holds(content) \in Seq(OpenElement) /\ Len(Holds(content)) = Len(doc)
  BY HoldsType DEF TypeInv
<1>3. CASE doc = <<>>
  BY <1>2, <1>3, EmptySeq
<1>4. CASE doc # <<>>
  <2> DEFINE last == [doc[Len(doc)] EXCEPT !.content = content]
  <2>1. Len(doc) \in 1..Len(doc)
    BY <1>1, <1>4, EmptySeq
  <2>2. doc[Len(doc)] \in OpenElement
    BY <1>1, <2>1, ElementOfSeq
  <2>3. /\ last \in OpenElement
        /\ last.content = content
        /\ last.tag = doc[Len(doc)].tag
    BY <2>2 DEF OpenElement
  <2>4. Holds(content) = [doc EXCEPT ![Len(doc)] = last]
    BY <1>4 DEF Holds
  <2> HIDE DEF last
  <2>5. \A i \in 1..Len(doc) :
          Holds(content)[i] = IF i = Len(doc) THEN last ELSE doc[i]
    BY <1>1, <2>1, <2>3, <2>4, ExceptSeq
  <2> QED
    BY <1>2, <2>3, <2>5
<1> QED
  BY <1>3, <1>4

(* A file has more characters than open elements, so a start tag does not  *)
(* wrap depth around.                                                      *)
LEMMA OpenTagDepth ==
  ASSUME TypeInv, ~misread, NEW tag \in Elements, OpenTag(tag)
  PROVE  depth \in Nat /\ depth = Len(doc) /\ depth' = depth + 1
<1>1. depth \in Nat /\ depth = Len(doc)
  BY LenProperties DEF TypeInv, TypeOK
<1>2. depth < pos /\ pos < Uint32 /\ pos \in Nat /\ Uint32 \in Nat
  BY <1>1, NextTagType, WidthAssumption
     DEF OpenTag, NextTag, TypeInv, TypeOK, DepthCounts
<1>3. depth + 1 \in uint32_t
  BY <1>1, <1>2 DEF uint32_t
<1>4. depth' = (depth + 1) % Uint32
  BY DEF OpenTag
<1> QED
  BY <1>1, <1>3, <1>4, Wraps

(* A start tag.                                                            *)
LEMMA OpenTagInStep ==
  ASSUME TypeInv, InStep, ~misread, NEW tag \in Elements, OpenTag(tag)
  PROVE  InStep'
<1>1. /\ Len(doc) \in Nat /\ depth \in Nat
      /\ depth' = depth + 1
      /\ Len(depthElements) \in Nat
  BY LenProperties, OpenTagDepth DEF TypeInv, TypeOK
<1>2. TopInScope'
  <2>1. depthElements # <<>> =>
          depthElements[Len(depthElements)].depth \in Nat
    <3>1. depthElements \in Seq(StackEntry)
      BY DEF TypeInv, TypeOK, StackEntry
    <3>2. depthElements # <<>> => Len(depthElements) \in 1..Len(depthElements)
      BY <3>1, EmptySeq
    <3>3. depthElements # <<>> =>
            depthElements[Len(depthElements)] \in StackEntry
      BY <3>1, <3>2, ElementOfSeq
    <3> QED
      BY <3>3, Wraps DEF StackEntry
  <2> QED
    BY <1>1, <2>1 DEF OpenTag, InStep, TopInScope
<1>3. TagsRemembered'
  <2> DEFINE new == [tag |-> tag, content |-> "none"]
  <2>1. /\ Holds("more") \in Seq(OpenElement)
        /\ Len(Holds("more")) = Len(doc)
        /\ \A i \in 1..Len(doc) : Holds("more")[i].content =
             IF i = Len(doc) THEN "more" ELSE doc[i].content
    BY HoldsContent DEF Contents
  <2>2. doc' = Append(Holds("more"), new) /\ new \in OpenElement
    BY DEF OpenTag, OpenElement, Contents
  <2>3. new.content = "none"
    OBVIOUS
  <2> HIDE DEF new
  <2>4. /\ Len(doc') = Len(doc) + 1
        /\ \A i \in 1..Len(doc) : doc'[i] = Holds("more")[i]
        /\ doc'[Len(doc) + 1].content = "none"
    BY <2>1, <2>2, <2>3, AppendProperties
  <2>5. currentTag' = "opening_tag"
    BY DEF OpenTag, SetTag
  <2>6. ASSUME NEW i \in 1..Len(doc)
        PROVE  doc'[i].content = "more"
    <3>1. i # Len(doc) => i \in 1..(Len(doc) - 1)
      BY <1>1
    <3> QED
      BY <2>1, <2>4, <3>1 DEF InStep, TagsRemembered
  <2> QED
    BY <1>1, <2>4, <2>5, <2>6 DEF TagsRemembered
<1> QED
  BY <1>2, <1>3 DEF InStep

(* An end tag leaves an element that has held an element.                  *)
LEMMA CloseTagInStep ==
  ASSUME TypeInv, InStep, ~misread, CloseTag
  PROVE  InStep'
<1>1. doc \in Seq(OpenElement) /\ doc # <<>> /\ Len(doc) \in Nat \ {0}
  BY EmptySeq DEF TypeInv, TypeOK, OpenElement, CloseTag
<1>2. TopInScope'
  <2> DEFINE stack == RaiseIdent(Last(doc).tag)
             k == Kept(stack, depth')
  <2>1. stack \in Seq(StackEntry) /\ depth' \in Nat
    BY <1>1, RaiseIdentProperties, CloseTagStack
  <2>2. depthElements' = PopDeeper(stack, depth')
    BY DEF CloseTag
  <2> HIDE DEF stack
  <2>3. /\ k \in Nat
        /\ k > 0 => stack[k].depth <= depth'
    <3>1. Len(stack) \in Nat
      BY <2>1, LenProperties
    <3> QED
      BY <2>1, <3>1, KeptProperties
  <2>4. /\ depthElements' \in Seq(StackEntry)
        /\ Len(depthElements') = k
        /\ \A i \in 1..k : depthElements'[i] = stack[i]
    BY <2>1, <2>2, PopDeeperProperties
  <2>5. depthElements' # <<>> => k > 0
    BY <2>4, EmptySeq
  <2> HIDE DEF k
  <2> QED
    BY <2>3, <2>4, <2>5 DEF TopInScope
<1>3. TagsRemembered'
  <2>1. /\ Len(doc') = Len(doc) - 1
        /\ \A i \in 1..(Len(doc) - 1) : doc'[i] = doc[i]
    BY <1>1, FrontProperties DEF CloseTag
  <2>2. currentTag' = "closing_tag"
    BY DEF CloseTag, SetTag
  <2>3. \A i \in 1..(Len(doc) - 1) : doc'[i].content = "more"
    BY <2>1 DEF InStep, TagsRemembered
  <2>4. doc' # <<>> => Len(doc') \in 1..(Len(doc) - 1)
    <3>1. doc' \in Seq(OpenElement)
      BY <1>1, FrontProperties DEF CloseTag
    <3> QED
      BY <1>1, <2>1, <3>1, EmptySeq
  <2>5. \A i \in 1..(Len(doc') - 1) : i \in 1..(Len(doc) - 1)
    BY <1>1, <2>1
  <2> QED
    BY <2>2, <2>3, <2>4, <2>5 DEF TagsRemembered
<1> QED
  BY <1>2, <1>3 DEF InStep

(* A SHORT-NAME or a reference.                                            *)
LEMMA HoldsTagsRemembered ==
  ASSUME TypeInv, InStep, NEW content \in Contents, doc' = Holds(content),
         content # "none", currentTag' # "opening_tag",
         doc # <<>> =>
           (content = "shortname"
              <=> currentTag' = "shortname" /\ lastTag' = "opening_tag")
  PROVE  TagsRemembered'
<1>1. /\ doc' \in Seq(OpenElement)
      /\ Len(doc') = Len(doc)
      /\ \A i \in 1..Len(doc) : doc'[i].content =
           IF i = Len(doc) THEN content ELSE doc[i].content
  BY HoldsContent
<1>2. doc \in Seq(OpenElement) /\ Len(doc) \in Nat
  BY LenProperties DEF TypeInv, TypeOK, OpenElement
<1>3. doc' # <<>> => doc # <<>> /\ Len(doc) \in 1..Len(doc)
  BY <1>1, <1>2, EmptySeq
<1> QED
  BY <1>1, <1>2, <1>3 DEF InStep, TagsRemembered

(* A SHORT-NAME is the first tag of an element when a start tag came last. *)
LEMMA ShortNameInStep ==
  ASSUME TypeInv, InStep, NEW n \in Name, ShortName(n)
  PROVE  InStep'
<1>1. TopInScope'
  <2>1. /\ Len(depthElements') = Len(depthElements) + 1
        /\ depthElements'[Len(depthElements) + 1] =
             [depth |-> depth, elem |-> SlotOf(NewShortname(n))]
    BY ShortNameStack
  <2>2. depthElements'[Len(depthElements')].depth = depth
    BY <2>1
  <2>3. depth \in Nat
    BY Wraps DEF TypeInv, TypeOK
  <2> QED
    BY <2>2, <2>3 DEF ShortName, TopInScope
<1>2. TagsRemembered'
  <2> DEFINE content == IF doc # <<>> /\ Last(doc).content = "none"
                        THEN "shortname" ELSE "more"
  <2>1. content \in Contents /\ content # "none" /\ doc' = Holds(content)
    BY DEF ShortName, Contents
  <2>2. currentTag' = "shortname" /\ lastTag' = currentTag
    BY DEF ShortName, SetTag
  <2>3. doc # <<>> => (content = "shortname" <=> currentTag = "opening_tag")
    BY DEF InStep, TagsRemembered, Last
  <2> HIDE DEF content
  <2> QED
    BY <2>1, <2>2, <2>3, HoldsTagsRemembered
<1> QED
  BY <1>1, <1>2 DEF InStep

(* TagInv holds at every tag of every file.                                *)
LEMMA TagInvInvariant == Spec => []TagInv
<1>1. Init => TagInv
  <2>1. Len(<<>>) = 0
    BY EmptySeq
  <2> QED
    BY <2>1 DEF Init, TagInv, InStep, TopInScope, TagsRemembered
<1>2. TypeInv /\ TagInv /\ [Next]_vars => TagInv'
  <2> SUFFICES ASSUME TypeInv, TagInv, [Next]_vars, ~misread'
               PROVE  InStep'
    BY DEF TagInv
  <2>1. ASSUME NEW tag \in Elements, OpenTag(tag)
        PROVE  InStep'
    BY <2>1, OpenTagInStep DEF OpenTag, TagInv
  <2>2. CASE CloseTag
    BY <2>2, CloseTagInStep DEF CloseTag, TagInv
  <2>3. ASSUME NEW n \in Name, ShortName(n)
        PROVE  InStep'
    BY <2>3, ShortNameInStep DEF ShortName, TagInv
  <2>4. ASSUME NEW target \in Target, Reference(target)
        PROVE  InStep'
    <3>1. InStep
      BY <2>4 DEF Reference, TagInv
    <3>2. TopInScope'
      BY <2>4, <3>1 DEF Reference, StoreReference, InStep, TopInScope
    <3>3. TagsRemembered'
      <4>1. doc' = Holds("more") /\ currentTag' = "reference"
        BY <2>4 DEF Reference, StoreReference, SetTag
      <4> QED
        BY <3>1, <4>1, HoldsTagsRemembered DEF Contents
    <3> QED
      BY <3>2, <3>3 DEF InStep
  <2>5. CASE MisreadTag
    BY <2>5 DEF MisreadTag
  <2>6. CASE EndFile
    <3>1. doc' = <<>> /\ depthElements' = <<>> /\ Len(<<>>) = 0
      BY <2>6, EmptySeq DEF EndFile
    <3> QED
      BY <3>1 DEF InStep, TopInScope, TagsRemembered
  <2>7. CASE \/ \E uri \in Uri, empty \in BOOLEAN : BeginFile(uri, empty)
             \/ SkipTag
             \/ UNCHANGED vars
    <3>1. UNCHANGED <<doc, misread, depth, depthElements, lastTag, currentTag>>
      BY <2>7 DEF BeginFile, SkipTag, vars, parserVars
    <3> QED
      BY <3>1 DEF TagInv, InStep, TopInScope, TagsRemembered
  <2> QED
    BY <2>1, <2>2, <2>3, <2>4, <2>5, <2>6, <2>7 DEF Next
<1> QED
  BY <1>1, <1>2, TypeInvInvariant, PTL DEF Spec

-----------------------------------------------------------------------------
(* What is popped.                                                         *)

(* There is just one place where popping stops.                            *)
LEMMA KeptUnique ==
  ASSUME NEW stack \in Seq(StackEntry), NEW d \in Nat, NEW k \in 0..Len(stack),
         k > 0 => stack[k].depth <= d,
         \A i \in (k + 1)..Len(stack) : stack[i].depth > d
  PROVE  Kept(stack, d) = k
<1> DEFINE kept == Kept(stack, d)
<1>1. Len(stack) \in Nat
  BY LenProperties
<1>2. /\ kept \in 0..Len(stack)
      /\ kept > 0 => stack[kept].depth <= d
      /\ \A i \in (kept + 1)..Len(stack) : stack[i].depth > d
  BY KeptProperties
<1>3. \A i \in 1..Len(stack) : stack[i].depth \in Nat
  <2>1. \A i \in 1..Len(stack) : stack[i] \in StackEntry
    BY ElementOfSeq
  <2> QED
    BY <2>1, Wraps DEF StackEntry
<1> HIDE DEF kept
<1>4. ~(kept < k)
  <2> SUFFICES ASSUME kept < k
               PROVE  FALSE
    OBVIOUS
  <2>1. k \in (kept + 1)..Len(stack) /\ k \in 1..Len(stack) /\ k > 0
    BY <1>1, <1>2
  <2> QED
    BY <1>2, <1>3, <2>1
<1>5. ~(k < kept)
  <2> SUFFICES ASSUME k < kept
               PROVE  FALSE
    OBVIOUS
  <2>1. kept \in (k + 1)..Len(stack) /\ kept \in 1..Len(stack) /\ kept > 0
    BY <1>1, <1>2
  <2> QED
    BY <1>2, <1>3, <2>1
<1> QED
  BY <1>1, <1>2, <1>4, <1>5 DEF kept

(* The names left when the elements deeper than d are popped.              *)
LEMMA NamesPopped ==
  ASSUME TypeInv, NEW d \in Nat
  PROVE  LET k == Kept(depthElements, d)
             names == NamesOf(PopDeeper(depthElements, d))
         IN /\ k \in 0..Len(depthElements)
            /\ names \in Seq(Name)
            /\ Len(names) = k
            /\ \A i \in 1..k : names[i] = shortnames[depthElements[i].elem].name
<1> DEFINE k == Kept(depthElements, d)
           rest == PopDeeper(depthElements, d)
<1>1. depthElements \in Seq(StackEntry)
  BY DEF TypeInv, TypeOK, StackEntry
<1>2. k \in 0..Len(depthElements) /\ k \in Nat
  <2>1. Len(depthElements) \in Nat
    BY <1>1, LenProperties
  <2> QED
    BY <1>1, <2>1, KeptProperties
<1>3. /\ Len(rest) = k
      /\ \A i \in 1..k : rest[i] = depthElements[i]
  BY <1>1, PopDeeperProperties
<1>4. \A i \in 1..k : /\ depthElements[i].elem \in 1..Len(shortnames)
                      /\ shortnames[depthElements[i].elem].name \in Name
  BY <1>2, ElementTypes
<1> HIDE DEF k, rest
<1>5. \A i \in 1..k : shortnames[rest[i].elem].name \in Name
  BY <1>3, <1>4
<1>6. /\ NamesOf(rest) \in Seq(Name)
      /\ Len(NamesOf(rest)) = k
      /\ \A i \in 1..k : NamesOf(rest)[i] = shortnames[rest[i].elem].name
  BY <1>2, <1>3, <1>5, IsASeq DEF NamesOf
<1> QED
  BY <1>2, <1>3, <1>6 DEF k, rest

(* No name is lost that is not deeper than the parser.                     *)
LEMMA NothingPopped ==
  ASSUME TypeInv, InStep
  PROVE  PopDeeper(depthElements, depth) = depthElements
<1>1. depthElements \in Seq(StackEntry) /\ depth \in Nat
  BY Wraps DEF TypeInv, TypeOK, StackEntry
<1> DEFINE n == Len(depthElements)
<1>2. n \in Nat /\ (n > 0 => depthElements # <<>>)
  BY <1>1, LenProperties, EmptySeq
<1>3. Kept(depthElements, depth) = n
  <2>1. n > 0 => depthElements[n].depth <= depth
    BY <1>2 DEF InStep, TopInScope
  <2>2. \A i \in (n + 1)..n : depthElements[i].depth > depth
    BY <1>2
  <2> HIDE DEF n
  <2>3. n = Len(depthElements)
    BY DEF n
  <2> QED
    BY <1>1, <1>2, <2>1, <2>2, <2>3, KeptUnique
<1>4. /\ PopDeeper(depthElements, depth) \in Seq(StackEntry)
      /\ Len(PopDeeper(depthElements, depth)) = n
      /\ \A i \in 1..n : PopDeeper(depthElements, depth)[i] = depthElements[i]
  BY <1>1, <1>3, PopDeeperProperties
<1> QED
  BY <1>1, <1>4, SeqEqual

(* The names in scope at the start of an open element stay as they are     *)
(* while the entries of the stack that were there stay.                    *)
LEMMA SameNames ==
  ASSUME TypeInv, TypeInv', NEW d \in Nat,
         Kept(depthElements', d) = Kept(depthElements, d),
         \A i \in 1..Kept(depthElements, d) :
           shortnames'[depthElements'[i].elem].name
             = shortnames[depthElements[i].elem].name
  PROVE  NamesOf(PopDeeper(depthElements, d))'
           = NamesOf(PopDeeper(depthElements, d))
<1> DEFINE k == Kept(depthElements, d)
           names == NamesOf(PopDeeper(depthElements, d))
<1>1. /\ names \in Seq(Name)
      /\ Len(names) = k
      /\ \A i \in 1..k : names[i] = shortnames[depthElements[i].elem].name
  BY NamesPopped
<1>2. (/\ names \in Seq(Name)
       /\ Len(names) = k
       /\ \A i \in 1..k : names[i] = shortnames[depthElements[i].elem].name)'
  BY NamesPopped, PTL
<1>3. k' = k
  OBVIOUS
<1> HIDE DEF k
<1> SUFFICES names' = names
  OBVIOUS
<1>4. \A i \in 1..k : names'[i] = names[i]
  <2>1. \A i \in 1..k : shortnames'[depthElements'[i].elem].name
                          = shortnames[depthElements[i].elem].name
    BY DEF k
  <2> HIDE DEF names
  <2> QED
    BY <1>1, <1>2, <1>3, <2>1
<1> HIDE DEF names
<1> QED
  BY <1>1, <1>2, <1>3, <1>4, SeqEqual

-----------------------------------------------------------------------------
(* The open elements as ArxmlScopes sees them.                             *)

ScopedElement == [tag : Elements, content : Contents, outer : Seq(Name)]

(* One for each open element, with the names that were in scope at its     *)
(* start tag: those of the entries that are not deeper.                    *)
LEMMA OpenScopesProperties ==
  ASSUME TypeInv
  PROVE  /\ OpenScopes \in Seq(ScopedElement)
         /\ Len(OpenScopes) = Len(doc)
         /\ \A i \in 1..Len(doc) : OpenScopes[i] =
              [tag |-> doc[i].tag, content |-> doc[i].content,
               outer |-> NamesOf(PopDeeper(depthElements, i - 1))]
<1> DEFINE scoped(i) ==
      [tag |-> doc[i].tag, content |-> doc[i].content,
       outer |-> NamesOf(PopDeeper(depthElements, i - 1))]
<1>1. doc \in Seq(OpenElement) /\ Len(doc) \in Nat
  BY LenProperties DEF TypeInv, TypeOK, OpenElement
<1>2. ASSUME NEW i \in 1..Len(doc)
      PROVE  scoped(i) \in ScopedElement
  <2>1. doc[i] \in OpenElement
    BY <1>1, ElementOfSeq
  <2>2. i - 1 \in Nat
    BY <1>1
  <2>3. NamesOf(PopDeeper(depthElements, i - 1)) \in Seq(Name)
    BY <2>2, NamesPopped
  <2> QED
    BY <2>1, <2>3 DEF OpenElement, ScopedElement
<1>3. OpenScopes = [i \in 1..Len(doc) |-> scoped(i)]
  BY DEF OpenScopes
<1> HIDE DEF scoped
<1>4. /\ OpenScopes \in Seq(ScopedElement)
      /\ Len(OpenScopes) = Len(doc)
      /\ \A i \in 1..Len(doc) : OpenScopes[i] = scoped(i)
  BY <1>1, <1>2, <1>3, IsASeq
<1> QED
  BY <1>4 DEF scoped

(* Noting a tag in the innermost open element is what Holds does.          *)
LEMMA NoteProperties ==
  ASSUME TypeInv, NEW content \in Contents
  PROVE  /\ Scopes!Note(OpenScopes, content) \in Seq(ScopedElement)
         /\ Len(Scopes!Note(OpenScopes, content)) = Len(doc)
         /\ \A i \in 1..Len(doc) : Scopes!Note(OpenScopes, content)[i] =
              [tag |-> Holds(content)[i].tag,
               content |-> Holds(content)[i].content,
               outer |-> NamesOf(PopDeeper(depthElements, i - 1))]
<1> DEFINE n == Len(doc)
           noted == Scopes!Note(OpenScopes, content)
           outer(i) == NamesOf(PopDeeper(depthElements, i - 1))
<1>1. doc \in Seq(OpenElement) /\ n \in Nat
  BY LenProperties DEF TypeInv, TypeOK, OpenElement
<1>2. /\ OpenScopes \in Seq(ScopedElement)
      /\ Len(OpenScopes) = n
      /\ \A i \in 1..n : OpenScopes[i] =
           [tag |-> doc[i].tag, content |-> doc[i].content, outer |-> outer(i)]
  BY OpenScopesProperties
<1>3. \A i \in 1..n :
        /\ Holds(content)[i].tag = doc[i].tag
        /\ Holds(content)[i].content =
             IF i = n THEN content ELSE doc[i].content
  BY HoldsContent
<1> HIDE DEF outer
<1>4. CASE OpenScopes = <<>>
  <2>1. n = 0
    BY <1>2, <1>4, EmptySeq
  <2>2. noted = OpenScopes
    BY <1>4 DEF Scopes!Note
  <2> HIDE DEF noted, n
  <2>3. \A i \in 1..n : FALSE
    BY <2>1
  <2> QED
    BY <1>2, <2>2, <2>3 DEF noted, n
<1>5. CASE OpenScopes # <<>>
  <2> DEFINE last == [OpenScopes[n] EXCEPT !.content = content]
  <2>1. n \in 1..n
    BY <1>1, <1>2, <1>5, EmptySeq
  <2>2. OpenScopes[n] \in ScopedElement
    BY <1>2, <2>1, ElementOfSeq
  <2>3. /\ last \in ScopedElement
        /\ last = [tag |-> doc[n].tag, content |-> content, outer |-> outer(n)]
    <3> DEFINE e == OpenScopes[n]
    <3>1. e = [tag |-> doc[n].tag, content |-> doc[n].content, outer |-> outer(n)]
      BY <1>2, <2>1
    <3>2. e \in ScopedElement
      BY <2>2
    <3>3. last = [e EXCEPT !.content = content]
      OBVIOUS
    <3> HIDE DEF e, last
    <3>4. last \in ScopedElement
      BY <3>2, <3>3 DEF ScopedElement
    <3>5. last = [tag |-> doc[n].tag, content |-> content, outer |-> outer(n)]
      BY <3>1, <3>3
    <3> QED
      BY <3>4, <3>5
  <2>4. noted = [OpenScopes EXCEPT ![n] = last]
    BY <1>2, <1>5 DEF Scopes!Note
  <2> HIDE DEF last, noted
  <2>5. /\ noted \in Seq(ScopedElement)
        /\ Len(noted) = n
        /\ \A i \in 1..n : noted[i] = IF i = n THEN last ELSE OpenScopes[i]
    BY <1>2, <2>1, <2>3, <2>4, ExceptSeq
  <2>6. \A i \in 1..n : noted[i] =
          [tag |-> Holds(content)[i].tag, content |-> Holds(content)[i].content,
           outer |-> outer(i)]
    BY <1>2, <1>3, <2>3, <2>5
  <2> QED
    BY <2>5, <2>6 DEF noted, outer
<1> QED
  BY <1>4, <1>5

(* So the two agree while the names in scope of open elements stay.        *)
LEMMA HoldsIsNote ==
  ASSUME TypeInv, TypeInv', NEW content \in Contents, doc' = Holds(content),
         \A i \in 1..Len(doc) :
           NamesOf(PopDeeper(depthElements, i - 1))'
             = NamesOf(PopDeeper(depthElements, i - 1))
  PROVE  OpenScopes' = Scopes!Note(OpenScopes, content)
<1> DEFINE n == Len(doc)
           noted == Scopes!Note(OpenScopes, content)
           outer(i) == NamesOf(PopDeeper(depthElements, i - 1))
<1>1. /\ noted \in Seq(ScopedElement)
      /\ Len(noted) = n
      /\ \A i \in 1..n : noted[i] =
           [tag |-> doc'[i].tag, content |-> doc'[i].content, outer |-> outer(i)]
  BY NoteProperties
<1>2. (/\ OpenScopes \in Seq(ScopedElement)
       /\ Len(OpenScopes) = n
       /\ \A i \in 1..n : OpenScopes[i] =
            [tag |-> doc[i].tag, content |-> doc[i].content, outer |-> outer(i)])'
  BY OpenScopesProperties, PTL
<1>3. n' = n
  BY HoldsContent
<1>4. \A i \in 1..n : outer(i)' = outer(i)
  OBVIOUS
<1> HIDE DEF n, noted, outer
<1>5. \A i \in 1..n : OpenScopes'[i] = noted[i]
  BY <1>1, <1>2, <1>3, <1>4
<1> SUFFICES OpenScopes' = noted
  BY DEF noted
<1> QED
  BY <1>1, <1>2, <1>3, <1>5, SeqEqual

-----------------------------------------------------------------------------
(* End tags.                                                               *)

Raises(tag) ==
  currentTag = "shortname" /\ lastTag = "opening_tag" /\ tag = "IDENT"

(* </IDENT> raises the entry on top of the stack to just outside of it.    *)
LEMMA RaisedStack ==
  ASSUME TypeInv, ~misread, doc # <<>>, NEW tag
  PROVE  /\ \A k \in 1..Len(depthElements) :
              \/ RaiseIdent(tag)[k].depth = depthElements[k].depth
              \/ RaiseIdent(tag)[k].depth = depth - 1
         /\ Raises(tag) =>
              /\ Len(depthElements) \in 1..Len(depthElements)
              /\ RaiseIdent(tag)[Len(depthElements)].depth = depth - 1
         /\ ~Raises(tag) => RaiseIdent(tag) = depthElements
<1> DEFINE n == Len(depthElements)
<1>1. depthElements \in Seq(StackEntry)
  BY DEF TypeInv, TypeOK, StackEntry
<1>2. CASE Raises(tag)
  <2> DEFINE raised == [depthElements[n] EXCEPT !.depth = (@ - 1) % Uint32]
  <2>1. n \in 1..n /\ depthElements[n].depth = depth
    BY <1>1, <1>2, EmptySeq DEF TypeInv, DepthCounts, Raises
  <2>2. depthElements[n] \in StackEntry
    BY <1>1, <2>1, ElementOfSeq
  <2>3. raised.depth = depth - 1
    <3>1. depth \in uint32_t /\ depth \in Nat \ {0} /\ depth - 1 \in uint32_t
      <4>1. depth \in uint32_t /\ depth = Len(doc) /\ doc \in Seq(OpenElement)
        BY DEF TypeInv, TypeOK, OpenElement
      <4>2. depth \in Nat \ {0}
        BY <4>1, EmptySeq
      <4>3. Uint32 \in Nat
        BY WidthAssumption
      <4> QED
        BY <4>1, <4>2, <4>3 DEF uint32_t
    <3>2. (depth - 1) % Uint32 = depth - 1
      BY <3>1, Wraps
    <3>3. raised.depth = (depthElements[n].depth - 1) % Uint32
      BY <2>2 DEF StackEntry
    <3> QED
      BY <2>1, <3>2, <3>3
  <2>4. RaiseIdent(tag) = [depthElements EXCEPT ![n] = raised]
    BY <1>2 DEF RaiseIdent, Raises
  <2> HIDE DEF raised
  <2>5. DOMAIN depthElements = 1..n
    BY <1>1, LenProperties
  <2>6. \A k \in 1..n :
          RaiseIdent(tag)[k] = IF k = n THEN raised ELSE depthElements[k]
    BY <2>4, <2>5
  <2> QED
    BY <1>2, <2>1, <2>3, <2>6
<1>3. CASE ~Raises(tag)
  BY <1>3 DEF RaiseIdent, Raises
<1> QED
  BY <1>2, <1>3

(* Arithmetic.                                                             *)
LEMMA Predecessor ==
  ASSUME NEW m, NEW n \in Nat, m = n + 1
  PROVE  m - 1 = n
OBVIOUS

(* What was in scope at the start tags of the elements that stay open is   *)
(* in scope at them after the end tag, be a name raised or not.            *)
LEMMA CloseTagKeeps ==
  ASSUME TypeInv, ~misread, CloseTag, NEW d \in Nat, d < depth'
  PROVE  /\ Kept(depthElements', d) = Kept(depthElements, d)
         /\ Kept(depthElements, d) <= Len(depthElements')
<1> DEFINE stack == RaiseIdent(Last(doc).tag)
           n == Len(depthElements)
           k == Kept(depthElements, d)
           m == Kept(stack, depth')
<1>1. /\ depth' \in Nat /\ depth = depth' + 1
      /\ doc # <<>>
      /\ depthElements \in Seq(StackEntry)
      /\ depthElements' \in Seq(StackEntry)
  BY CloseTagStack DEF CloseTag, TypeInv, TypeOK, StackEntry
<1>2. /\ stack \in Seq(StackEntry)
      /\ Len(stack) = n
      /\ \A i \in 1..n : stack[i].depth <= depthElements[i].depth
      /\ \A i \in 1..n : \/ stack[i].depth = depthElements[i].depth
                         \/ stack[i].depth = depth'
  <2>1. /\ stack \in Seq(StackEntry)
        /\ Len(stack) = n
        /\ \A i \in 1..n : stack[i].depth <= depthElements[i].depth
    BY <1>1, RaiseIdentProperties
  <2>2. \A i \in 1..n : \/ stack[i].depth = depthElements[i].depth
                        \/ stack[i].depth = depth - 1
    BY <1>1, RaisedStack
  <2>3. depth - 1 = depth'
    BY <1>1, Predecessor
  <2> HIDE DEF stack, n
  <2> QED
    BY <2>1, <2>2, <2>3
<1>3. depthElements' = PopDeeper(stack, depth')
  BY DEF CloseTag
<1> HIDE DEF stack
<1>4. n \in Nat
  BY <1>1, LenProperties
<1>5. /\ k \in 0..n
      /\ k > 0 => depthElements[k].depth <= d
      /\ \A i \in (k + 1)..n : depthElements[i].depth > d
  BY <1>1, KeptProperties
<1>6. /\ m \in 0..n
      /\ \A i \in (m + 1)..n : stack[i].depth > depth'
  BY <1>1, <1>2, KeptProperties
<1>7. /\ Len(depthElements') = m
      /\ \A i \in 1..m : depthElements'[i] = stack[i]
  BY <1>1, <1>2, <1>3, PopDeeperProperties
<1>8. \A i \in 1..n : stack[i].depth \in Nat /\ depthElements[i].depth \in Nat
  <2>1. \A i \in 1..n : stack[i] \in StackEntry /\ depthElements[i] \in StackEntry
    BY <1>1, <1>2, ElementOfSeq
  <2> QED
    BY <2>1, Wraps DEF StackEntry
<1> HIDE DEF n, k, m
<1>9. k > 0 => stack[k].depth <= d
  BY <1>2, <1>4, <1>5, <1>8
<1>10. k <= m
  <2> SUFFICES ASSUME ~(k <= m)
               PROVE  FALSE
    OBVIOUS
  <2>1. k \in (m + 1)..n /\ k > 0 /\ k \in 1..n
    BY <1>4, <1>5, <1>6
  <2> QED
    BY <1>1, <1>6, <1>8, <1>9, <2>1
<1>11. k > 0 => depthElements'[k].depth <= d
  <2>1. k > 0 => k \in 1..m
    BY <1>4, <1>5, <1>6, <1>10
  <2> QED
    BY <1>7, <1>9, <2>1
<1>12. ASSUME NEW i \in (k + 1)..m
       PROVE  depthElements'[i].depth > d
  <2>1. i \in 1..m /\ i \in 1..n /\ i \in (k + 1)..n
    BY <1>4, <1>5, <1>6
  <2>2. depthElements'[i] = stack[i]
    BY <1>7, <2>1
  <2>3. depthElements[i].depth > d
    BY <1>5, <2>1
  <2>4. stack[i].depth = depthElements[i].depth \/ stack[i].depth = depth'
    BY <1>2, <2>1
  <2> QED
    BY <1>1, <2>2, <2>3, <2>4
<1>13. Kept(depthElements', d) = k
  <2>1. k \in 0..Len(depthElements')
    BY <1>4, <1>5, <1>6, <1>7, <1>10
  <2> QED
    BY <1>1, <1>7, <1>11, <1>12, <2>1, KeptUnique
<1> QED
  BY <1>7, <1>10, <1>13 DEF k

(* An end tag brings back the scope that the start tag saw; that of an     *)
(* <IDENT> which held a SHORT-NAME alone leaves the name in scope.         *)
LEMMA CloseTagScope ==
  ASSUME TypeInv, InStep, ~misread, CloseTag
  PROVE  NamesOf(depthElements)' =
           IF Last(doc).tag = "IDENT" /\ Last(doc).content = "shortname"
           THEN NamesOf(depthElements)
           ELSE NamesOf(PopDeeper(depthElements, Len(doc) - 1))
<1> DEFINE tag == Last(doc).tag
           stack == RaiseIdent(tag)
           n == Len(depthElements)
<1>1. /\ depth' \in Nat /\ depth = depth' + 1
      /\ doc # <<>> /\ Len(doc) - 1 = depth'
      /\ depthElements \in Seq(StackEntry)
      /\ shortnames' = shortnames
  BY CloseTagStack
     DEF CloseTag, TypeInv, TypeOK, StackEntry, DepthCounts, storageVars
<1>2. depthElements' = PopDeeper(stack, depth')
  BY DEF CloseTag
<1>3. Raises(tag) <=> tag = "IDENT" /\ Last(doc).content = "shortname"
  BY <1>1 DEF Raises, InStep, TagsRemembered, Last
<1>4. CASE Raises(tag)
  <2>1. /\ stack \in Seq(StackEntry)
        /\ Len(stack) = n
        /\ \A k \in 1..n : stack[k].elem = depthElements[k].elem
    BY <1>1, RaiseIdentProperties
  <2>2. n \in 1..n /\ stack[n].depth = depth'
    <3>1. n \in 1..n /\ stack[n].depth = depth - 1
      BY <1>1, <1>4, RaisedStack
    <3> HIDE DEF n, stack
    <3> QED
      BY <1>1, <3>1
  <2> HIDE DEF stack, n
  <2>3. Kept(stack, depth') = n
    <3>1. n \in Nat
      BY <2>1, LenProperties
    <3>2. /\ n \in 0..Len(stack)
          /\ stack[n].depth <= depth'
          /\ \A i \in (n + 1)..Len(stack) : stack[i].depth > depth'
      BY <1>1, <2>1, <2>2, <3>1
    <3> QED
      BY <1>1, <2>1, <3>2, KeptUnique
  <2>4. /\ Len(depthElements') = n
        /\ \A k \in 1..n : depthElements'[k] = stack[k]
    <3>1. depth' \in Nat /\ stack \in Seq(StackEntry)
      BY <1>1, <2>1
    <3>2. depthElements' = PopDeeper(stack, depth')
      BY <1>2 DEF stack
    <3>3. /\ Len(PopDeeper(stack, depth')) = Kept(stack, depth')
          /\ \A k \in 1..Kept(stack, depth') :
               PopDeeper(stack, depth')[k] = stack[k]
      BY <3>1, PopDeeperProperties
    <3> QED
      BY <2>3, <3>2, <3>3
  <2>5. \A k \in 1..n : depthElements'[k].elem = depthElements[k].elem
    BY <2>1, <2>4
  <2>6. NamesOf(depthElements)' = NamesOf(depthElements)
    BY <1>1, <2>4, <2>5 DEF NamesOf, n
  <2> QED
    BY <1>3, <1>4, <2>6
<1>5. CASE ~Raises(tag)
  <2>1. depthElements' = PopDeeper(depthElements, depth')
    BY <1>1, <1>2, <1>5, RaisedStack
  <2>2. NamesOf(depthElements)' = NamesOf(PopDeeper(depthElements, depth'))
    BY <1>1, <2>1 DEF NamesOf
  <2> QED
    BY <1>1, <1>3, <1>5, <2>2
<1> QED
  BY <1>4, <1>5

-----------------------------------------------------------------------------
(* Each step of the parser is a step of ArxmlScopes or none.               *)

(* The owners of references as ArxmlScopes sees them.                      *)
OwnerPath(r) ==
  <<references[r].fileIndex,
    IF references[r].owner = nullptr THEN <<>>
    ELSE getFullPath(shortnames[references[r].owner])>>

ScopedPath == Nat \X Seq(Name)

(* One path for each reference.                                            *)
LEMMA OwnerPathsProperties ==
  ASSUME TypeInv, OwnersInv
  PROVE  /\ OwnerPaths \in Seq(ScopedPath)
         /\ Len(OwnerPaths) = Len(references)
         /\ \A r \in 1..Len(references) : OwnerPaths[r] = OwnerPath(r)
<1>1. Len(references) \in Nat
  BY ReferenceTypes
<1>2. ASSUME NEW r \in 1..Len(references)
      PROVE  OwnerPath(r) \in ScopedPath
  <2> DEFINE p == references[r].owner
  <2>1. references[r].fileIndex \in Nat
    BY ReferenceTypes DEF Pointer
  <2>2. p # nullptr => p \in 1..Len(shortnames)
    BY DEF OwnersInv, OwnersAgree
  <2>3. p # nullptr => getFullPath(shortnames[p]) \in Seq(Name)
    <3>1. p # nullptr => /\ shortnames[p].name \in Name
                         /\ shortnames[p].path \in Seq(Name)
      BY <2>2, ElementTypes
    <3> QED
      BY <3>1, AppendProperties DEF getFullPath
  <2>4. <<>> \in Seq(Name)
    BY EmptySeq
  <2> QED
    BY <2>1, <2>3, <2>4 DEF OwnerPath, ScopedPath
<1>3. OwnerPaths = [r \in 1..Len(references) |-> OwnerPath(r)]
  BY DEF OwnerPaths, OwnerPath
<1> QED
  BY <1>1, <1>2, <1>3, IsASeq

(* Tags that add no element change nothing of these.                       *)
LEMMA StorageUnchanged ==
  ASSUME UNCHANGED storageVars
  PROVE  UNCHANGED <<fileIndex, DefinedPaths, OwnerPaths>>
BY DEF storageVars, fileIndex, DefinedPaths, OwnerPaths, getFullPath

(* Initially no scope is open and nothing is defined.                      *)
LEMMA InitImplements ==
  ASSUME Init
  PROVE  Scopes!Init
<1>1. TypeInv
  BY InitTypeInv
<1>2. Len(<<>>) = 0
  BY EmptySeq
<1>3. fileIndex = 0
  BY <1>2 DEF Init, StorageInit, fileIndex
<1>4. OpenScopes = <<>>
  <2>1. OpenScopes \in Seq(ScopedElement) /\ Len(OpenScopes) = 0
    BY <1>1, <1>2, OpenScopesProperties DEF Init
  <2> QED
    BY <2>1, EmptySeq
<1>5. NamesOf(depthElements) = <<>>
  <2>1. NamesOf(depthElements) \in Seq(Name) /\ Len(NamesOf(depthElements)) = 0
    BY <1>1, <1>2, NamesType DEF Init
  <2> QED
    BY <2>1, EmptySeq
<1>6. DefinedPaths = {}
  BY <1>2 DEF Init, StorageInit, DefinedPaths
<1>7. OwnerPaths = <<>>
  <2>1. OwnersInv
    BY <1>2 DEF Init, StorageInit, OwnersInv, OwnReferencesStored,
           OwnReferencesInOrder, OwnersAgree
  <2>2. OwnerPaths \in Seq(ScopedPath) /\ Len(OwnerPaths) = 0
    BY <1>1, <1>2, <2>1, OwnerPathsProperties DEF Init, StorageInit
  <2> QED
    BY <2>2, EmptySeq
<1> QED
  BY <1>3, <1>4, <1>5, <1>6, <1>7 DEF Init, Scopes!Init

(* A file is opened, be it empty or not.                                   *)
LEMMA BeginFileImplements ==
  ASSUME TypeInv, NEW uri \in Uri, NEW empty, BeginFile(uri, empty)
  PROVE  Scopes!Begin
<1>1. fileIndex' = fileIndex + 1
  <2>1. URIs \in Seq(Uri) /\ URIs' = Append(URIs, uri)
    BY DEF BeginFile, addFileIndex, TypeInv, TypeOK, StorageTypeOK
  <2> QED
    BY <2>1, AppendProperties DEF fileIndex
<1>2. ~(mode = "parsing")
  BY DEF BeginFile
<1>3. UNCHANGED <<shortnames, references, doc, misread, depthElements>>
  BY DEF BeginFile
<1>4. UNCHANGED <<OpenScopes, NamesOf(depthElements), DefinedPaths, OwnerPaths>>
  BY <1>3 DEF OpenScopes, NamesOf, PopDeeper, Kept, DefinedPaths, OwnerPaths,
              getFullPath
<1> QED
  BY <1>1, <1>2, <1>3, <1>4 DEF Scopes!Begin

(* The end of a file ends every scope.                                     *)
LEMMA EndFileImplements ==
  ASSUME TypeInv, TypeInv', EndFile
  PROVE  Scopes!End
<1>1. mode = "parsing" /\ doc = <<>> /\ mode' = "idle"
  BY DEF EndFile
<1>2. OpenScopes = <<>> /\ OpenScopes' = <<>>
  <2>1. Len(<<>>) = 0
    BY EmptySeq
  <2>2. OpenScopes \in Seq(ScopedElement) /\ Len(OpenScopes) = Len(doc)
    BY OpenScopesProperties
  <2>3. (OpenScopes \in Seq(ScopedElement) /\ Len(OpenScopes) = Len(doc))'
    BY OpenScopesProperties, PTL
  <2>4. doc' = <<>>
    BY DEF EndFile
  <2> QED
    BY <1>1, <2>1, <2>2, <2>3, <2>4, EmptySeq
<1>3. NamesOf(depthElements)' = <<>>
  <2>1. (/\ NamesOf(depthElements) \in Seq(Name)
         /\ Len(NamesOf(depthElements)) = Len(depthElements))'
    BY NamesType, PTL
  <2>2. depthElements' = <<>> /\ Len(<<>>) = 0
    BY EmptySeq DEF EndFile
  <2> QED
    BY <2>1, <2>2, EmptySeq
<1>4. UNCHANGED <<fileIndex, DefinedPaths, OwnerPaths>>
  BY StorageUnchanged DEF EndFile
<1>5. misread' = FALSE
  BY DEF EndFile
<1> QED
  BY <1>1, <1>2, <1>3, <1>4, <1>5 DEF Scopes!End

(* What the parser skips is no tag of the scopes.                          *)
LEMMA SkipTagImplements ==
  ASSUME SkipTag
  PROVE  UNCHANGED Scopes!vars
<1>1. UNCHANGED <<storageVars, mode, doc, misread, depthElements>>
  BY DEF SkipTag
<1>2. UNCHANGED <<fileIndex, DefinedPaths, OwnerPaths>>
  BY <1>1, StorageUnchanged
<1>3. UNCHANGED <<OpenScopes, NamesOf(depthElements)>>
  BY <1>1 DEF OpenScopes, NamesOf, PopDeeper, Kept, storageVars
<1> QED
  BY <1>1, <1>2, <1>3 DEF Scopes!vars

(* A start tag sees all the names of the stack, none of which is deeper    *)
(* than the element it opens.                                              *)
LEMMA OpenTagImplements ==
  ASSUME TypeInv, TypeInv', InStep, ~misread, NEW tag \in Elements, OpenTag(tag)
  PROVE  Scopes!OpenTag(tag)
<1> DEFINE n == Len(doc)
           noted == Scopes!Note(OpenScopes, "more")
           new == [tag |-> tag, content |-> "none",
                   outer |-> NamesOf(depthElements)]
           outer(i) == NamesOf(PopDeeper(depthElements, i - 1))
<1>1. /\ n \in Nat /\ depth = n
      /\ UNCHANGED <<storageVars, mode, misread, depthElements>>
      /\ doc' = Append(Holds("more"), [tag |-> tag, content |-> "none"])
  BY LenProperties DEF OpenTag, TypeInv, TypeOK, DepthCounts
<1>2. UNCHANGED <<NamesOf(depthElements), fileIndex, DefinedPaths, OwnerPaths>>
  BY <1>1, StorageUnchanged DEF NamesOf, storageVars
<1>3. ASSUME NEW i \in Nat
      PROVE  outer(i)' = outer(i)
  BY <1>1 DEF NamesOf, PopDeeper, Kept, storageVars
<1>4. outer(n + 1) = NamesOf(depthElements)
  <2>1. PopDeeper(depthElements, n) = depthElements
    BY <1>1, NothingPopped
  <2>2. (n + 1) - 1 = n
    BY <1>1
  <2> QED
    BY <2>1, <2>2
<1>5. /\ noted \in Seq(ScopedElement)
      /\ Len(noted) = n
      /\ \A i \in 1..n : noted[i] =
           [tag |-> Holds("more")[i].tag, content |-> Holds("more")[i].content,
            outer |-> outer(i)]
  BY NoteProperties DEF Contents
<1>6. new \in ScopedElement
  BY NamesType DEF ScopedElement, Contents
<1>7. /\ Len(doc') = n + 1
      /\ \A i \in 1..n : doc'[i] = Holds("more")[i]
      /\ doc'[n + 1] = [tag |-> tag, content |-> "none"]
  <2>1. Holds("more") \in Seq(OpenElement) /\ Len(Holds("more")) = n
    BY HoldsContent DEF Contents
  <2>2. [tag |-> tag, content |-> "none"] \in OpenElement
    BY DEF OpenElement, Contents
  <2> QED
    BY <1>1, <2>1, <2>2, AppendProperties
<1>8. (/\ OpenScopes \in Seq(ScopedElement)
       /\ Len(OpenScopes) = Len(doc)
       /\ \A i \in 1..Len(doc) : OpenScopes[i] =
            [tag |-> doc[i].tag, content |-> doc[i].content,
             outer |-> outer(i)])'
  BY OpenScopesProperties, PTL
<1>9. OpenScopes' = Append(noted, new)
  <2>1. /\ Append(noted, new) \in Seq(ScopedElement)
        /\ Len(Append(noted, new)) = n + 1
        /\ \A i \in 1..n : Append(noted, new)[i] = noted[i]
        /\ Append(noted, new)[n + 1] = new
    BY <1>5, <1>6, AppendProperties
  <2>2. ASSUME NEW i \in 1..(n + 1)
        PROVE  OpenScopes'[i] = Append(noted, new)[i]
    <3>1. OpenScopes'[i] =
            [tag |-> doc'[i].tag, content |-> doc'[i].content,
             outer |-> outer(i)]
      <4>1. i \in Nat /\ i \in 1..Len(doc')
        BY <1>1, <1>7
      <4>2. outer(i)' = outer(i)
        BY <1>3, <4>1
      <4> HIDE DEF outer
      <4> QED
        BY <1>8, <4>1, <4>2
    <3> HIDE DEF outer
    <3>2. CASE i = n + 1
      BY <1>4, <1>7, <2>1, <3>1, <3>2
    <3>3. CASE i # n + 1
      <4>1. i \in 1..n
        BY <1>1, <3>3
      <4> HIDE DEF noted
      <4> QED
        BY <1>5, <1>7, <2>1, <3>1, <4>1
    <3> QED
      BY <3>2, <3>3
  <2> HIDE DEF noted, new
  <2> QED
    BY <1>7, <1>8, <2>1, <2>2, SeqEqual
<1> QED
  BY <1>1, <1>2, <1>9 DEF OpenTag, NextTag, Scopes!OpenTag, Scopes!InScope

(* An end tag.                                                             *)
LEMMA CloseTagImplements ==
  ASSUME TypeInv, TypeInv', InStep, ~misread, CloseTag
  PROVE  Scopes!CloseTag
<1> DEFINE n == Len(doc)
           outer(i) == NamesOf(PopDeeper(depthElements, i - 1))
<1>1. /\ doc \in Seq(OpenElement) /\ doc # <<>>
      /\ n \in Nat /\ n \in 1..n
      /\ depth' \in Nat /\ depth' = n - 1
      /\ shortnames' = shortnames
  <2>1. doc \in Seq(OpenElement) /\ doc # <<>> /\ depth = n
        /\ shortnames' = shortnames
    BY DEF CloseTag, TypeInv, TypeOK, OpenElement, DepthCounts, storageVars
  <2>2. depth' \in Nat /\ depth = depth' + 1
    BY CloseTagStack
  <2>3. n \in Nat /\ n \in 1..n
    BY <2>1, LenProperties, EmptySeq
  <2>4. depth' = n - 1
    BY <2>1, <2>2, Predecessor
  <2> QED
    BY <2>1, <2>2, <2>3, <2>4
<1>2. /\ OpenScopes \in Seq(ScopedElement)
      /\ Len(OpenScopes) = n
      /\ \A i \in 1..n : OpenScopes[i] =
           [tag |-> doc[i].tag, content |-> doc[i].content, outer |-> outer(i)]
  BY OpenScopesProperties
<1>3. (/\ OpenScopes \in Seq(ScopedElement)
       /\ Len(OpenScopes) = n
       /\ \A i \in 1..n : OpenScopes[i] =
            [tag |-> doc[i].tag, content |-> doc[i].content,
             outer |-> outer(i)])'
  BY OpenScopesProperties, PTL
<1>4. OpenScopes # <<>>
  BY <1>1, <1>2, EmptySeq
<1>5. /\ Last(OpenScopes).tag = Last(doc).tag
      /\ Last(OpenScopes).content = Last(doc).content
      /\ Last(OpenScopes).outer = NamesOf(PopDeeper(depthElements, n - 1))
  <2>1. Last(doc) = doc[n] /\ Last(OpenScopes) = OpenScopes[n]
    BY <1>2 DEF Last
  <2>2. OpenScopes[n] = [tag |-> doc[n].tag, content |-> doc[n].content,
                         outer |-> outer(n)]
    BY <1>1, <1>2
  <2> QED
    BY <2>1, <2>2
<1>6. NamesOf(depthElements)' =
        IF Last(OpenScopes).tag = "IDENT"
             /\ Last(OpenScopes).content = "shortname"
        THEN NamesOf(depthElements)
        ELSE Last(OpenScopes).outer
  BY <1>5, CloseTagScope
<1>7. /\ n' = n - 1
      /\ \A i \in 1..(n - 1) : doc'[i] = doc[i]
  BY <1>1, FrontProperties DEF CloseTag
<1>8. ASSUME NEW i \in 1..(n - 1)
      PROVE  outer(i)' = outer(i)
  <2>1. i - 1 \in Nat /\ i - 1 < depth'
    BY <1>1
  <2>2. /\ Kept(depthElements', i - 1) = Kept(depthElements, i - 1)
        /\ Kept(depthElements, i - 1) <= Len(depthElements')
    BY <2>1, CloseTagKeeps
  <2>3. ASSUME NEW k \in 1..Kept(depthElements, i - 1)
        PROVE  shortnames'[depthElements'[k].elem].name
                 = shortnames[depthElements[k].elem].name
    <3>1. /\ Len(depthElements') \in Nat
          /\ Kept(depthElements, i - 1) \in Nat
      <4>1. depthElements' \in Seq(StackEntry) /\ depthElements \in Seq(StackEntry)
        BY CloseTagStack DEF TypeInv, TypeOK, StackEntry
      <4> QED
        BY <2>1, <4>1, LenProperties, KeptProperties
    <3>2. k \in 1..Len(depthElements')
      BY <2>2, <3>1
    <3>3. depthElements'[k].elem = depthElements[k].elem
      BY <3>2, CloseTagStack
    <3> QED
      BY <1>1, <3>3
  <2> QED
    BY <2>1, <2>2, <2>3, SameNames
<1>9. OpenScopes' = Front(OpenScopes)
  <2>1. /\ Front(OpenScopes) \in Seq(ScopedElement)
        /\ Len(Front(OpenScopes)) = n - 1
        /\ \A i \in 1..(n - 1) : Front(OpenScopes)[i] = OpenScopes[i]
    BY <1>2, <1>4, FrontProperties
  <2> HIDE DEF outer, n
  <2>2. \A i \in 1..(n - 1) : i \in 1..n
    BY <1>1
  <2>3. \A i \in 1..(n - 1) : OpenScopes'[i] = Front(OpenScopes)[i]
    BY <1>2, <1>3, <1>7, <1>8, <2>1, <2>2
  <2> QED
    BY <1>3, <1>7, <2>1, <2>3, SeqEqual
<1>10. UNCHANGED <<fileIndex, mode, DefinedPaths, OwnerPaths>>
  BY StorageUnchanged DEF CloseTag
<1> HIDE DEF n, outer
<1> QED
  BY <1>4, <1>6, <1>9, <1>10
     DEF CloseTag, NextTag, Scopes!CloseTag, Scopes!InScope, Scopes!Last,
         Scopes!Front, Last, Front

(* The names in scope at the open elements stay when the stack grows by an *)
(* entry at the depth of the parser.                                       *)
LEMMA ShortNameKeeps ==
  ASSUME TypeInv, TypeInv', NEW n \in Name, ShortName(n), NEW d \in Nat, d < depth
  PROVE  NamesOf(PopDeeper(depthElements, d))'
           = NamesOf(PopDeeper(depthElements, d))
<1> DEFINE m == Len(depthElements)
           k == Kept(depthElements, d)
<1>1. /\ depthElements \in Seq(StackEntry)
      /\ shortnames \in Seq(ShortnameElement)
      /\ depth \in Nat
  BY Wraps DEF TypeInv, TypeOK, StorageTypeOK, StackEntry
<1>2. m \in Nat
  BY <1>1, LenProperties
<1>3. /\ depthElements' \in Seq(StackEntry)
      /\ Len(depthElements') = m + 1
      /\ \A i \in 1..m : depthElements'[i] = depthElements[i]
      /\ depthElements'[m + 1].depth = depth
  <2>1. depthElements'[m + 1] =
          [depth |-> depth, elem |-> SlotOf(NewShortname(n))]
    BY ShortNameStack
  <2>2. depthElements'[m + 1].depth = depth
    BY <2>1
  <2> QED
    BY <2>2, ShortNameStack
<1>4. /\ k \in 0..m
      /\ k > 0 => depthElements[k].depth <= d
      /\ \A i \in (k + 1)..m : depthElements[i].depth > d
  BY <1>1, KeptProperties
<1>5. \A p \in 1..Len(shortnames) : shortnames'[p] = shortnames[p]
  BY ShortNameStorage
<1>6. ASSUME NEW i \in 1..m
      PROVE  shortnames'[depthElements'[i].elem].name
               = shortnames[depthElements[i].elem].name
  <2>1. depthElements[i].elem \in 1..Len(shortnames)
    BY ElementTypes
  <2> HIDE DEF m
  <2> QED
    BY <1>3, <1>5, <2>1
<1> HIDE DEF m, k
<1>7. k > 0 => depthElements'[k].depth <= d
  BY <1>2, <1>3, <1>4
<1>8. ASSUME NEW i \in (k + 1)..(m + 1)
      PROVE  depthElements'[i].depth > d
  <2>1. CASE i = m + 1
    BY <1>1, <1>3, <2>1
  <2>2. CASE i # m + 1
    <3>1. i \in (k + 1)..m /\ i \in 1..m
      BY <1>2, <1>4, <2>2
    <3> QED
      BY <1>3, <1>4, <3>1
  <2> QED
    BY <2>1, <2>2
<1>9. Kept(depthElements', d) = k
  <2>1. k \in 0..Len(depthElements')
    BY <1>2, <1>3, <1>4
  <2> QED
    BY <1>3, <1>7, <1>8, <2>1, KeptUnique
<1>10. \A i \in 1..k : i \in 1..m
  BY <1>2, <1>4
<1> QED
  BY <1>6, <1>9, <1>10, SameNames DEF k

(* A SHORT-NAME puts its name in scope, be its element new or merged with  *)
(* an earlier one, and defines the path that is then in scope.             *)
LEMMA ShortNameScope ==
  ASSUME TypeInv, TypeInv', ScopeInv, NEW n \in Name, ShortName(n)
  PROVE  /\ NamesOf(depthElements)' = Append(NamesOf(depthElements), n)
         /\ getFullPath(shortnames'[SlotOf(NewShortname(n))])
              = NamesOf(depthElements)'
<1> DEFINE m == Len(depthElements)
           slot == SlotOf(NewShortname(n))
           names == NamesOf(depthElements)
<1>1. /\ names \in Seq(Name)
      /\ Len(names) = m
      /\ m \in Nat
      /\ \A k \in 1..m : names[k] = shortnames[depthElements[k].elem].name
  BY NamesType, ElementTypes
<1>2. (/\ names \in Seq(Name)
       /\ Len(names) = m
       /\ \A k \in 1..m : names[k] = shortnames[depthElements[k].elem].name)'
  BY NamesType, PTL
<1>3. /\ m' = m + 1
      /\ \A k \in 1..m : depthElements'[k] = depthElements[k]
      /\ depthElements'[m + 1] = [depth |-> depth, elem |-> slot]
  BY ShortNameStack
<1>4. /\ shortnames'[slot].path = names
      /\ shortnames'[slot].name = n
  BY SlotInScope DEF ScopeInv
<1>5. \A k \in 1..m : shortnames'[depthElements[k].elem]
                        = shortnames[depthElements[k].elem]
  BY ElementTypes, ShortNameStorage
<1>6. depthElements'[m + 1].elem = slot
  BY <1>3
<1>7. /\ Append(names, n) \in Seq(Name)
      /\ Len(Append(names, n)) = m + 1
      /\ \A k \in 1..m : Append(names, n)[k] = names[k]
      /\ Append(names, n)[m + 1] = n
  BY <1>1, AppendProperties
<1> HIDE DEF m, slot, names
<1>8. ASSUME NEW k \in 1..(m + 1)
      PROVE  names'[k] = Append(names, n)[k]
  <2>1. CASE k = m + 1
    BY <1>2, <1>3, <1>4, <1>6, <1>7, <2>1
  <2>2. CASE k # m + 1
    <3>1. k \in 1..m
      BY <1>1, <2>2
    <3> QED
      BY <1>1, <1>2, <1>3, <1>5, <1>7, <3>1
  <2> QED
    BY <2>1, <2>2
<1>9. names' = Append(names, n)
  BY <1>2, <1>3, <1>7, <1>8, SeqEqual
<1> QED
  BY <1>4, <1>9 DEF getFullPath, slot, names

(* A SHORT-NAME defines the path of the open scopes and its name.          *)
LEMMA ShortNameDefines ==
  ASSUME TypeInv, TypeInv', ScopeInv, OwnersInv, NEW n \in Name, ShortName(n)
  PROVE  /\ DefinedPaths' = DefinedPaths \cup {<<fileIndex, NamesOf(depthElements)'>>}
         /\ OwnerPaths' = OwnerPaths
<1> DEFINE slot == SlotOf(NewShortname(n))
<1>1. /\ NamesOf(depthElements)' = Append(NamesOf(depthElements), n)
      /\ getFullPath(shortnames'[slot]) = NamesOf(depthElements)'
  BY ShortNameScope
<1>2. shortnames'[slot].fileIndex = fileIndex
  BY SlotInScope DEF ScopeInv
<1>3. /\ Len(shortnames') =
           IF IsNew(NewShortname(n)) THEN Len(shortnames) + 1 ELSE Len(shortnames)
      /\ \A p \in 1..Len(shortnames) : shortnames'[p] = shortnames[p]
      /\ slot \in 1..Len(shortnames')
      /\ IsNew(NewShortname(n)) => slot = Len(shortnames')
      /\ Len(shortnames) \in Nat
  BY ShortNameStorage, ElementTypes
<1>4. UNCHANGED <<fileIndex, mode, references>>
  BY DEF ShortName, fileIndex
<1>5. DefinedPaths' = DefinedPaths \cup {<<fileIndex, NamesOf(depthElements)'>>}
  <2> DEFINE defined(elem) == <<elem.fileIndex, getFullPath(elem)>>
  <2>1. /\ DefinedPaths = {defined(shortnames[p]) : p \in 1..Len(shortnames)}
        /\ DefinedPaths' = {defined(shortnames'[p]) : p \in 1..Len(shortnames')}
    BY DEF DefinedPaths, getFullPath
  <2>2. defined(shortnames'[slot]) = <<fileIndex, NamesOf(depthElements)'>>
    BY <1>1, <1>2
  <2>3. \A p \in 1..Len(shortnames') : p \in 1..Len(shortnames) \/ p = slot
    BY <1>3
  <2>4. \A p \in 1..Len(shortnames) : p \in 1..Len(shortnames')
    BY <1>3
  <2> HIDE DEF defined, slot
  <2> QED
    BY <1>3, <2>1, <2>2, <2>3, <2>4
<1>6. OwnerPaths' = OwnerPaths
  <2>1. \A r \in 1..Len(references) :
          references[r].owner # nullptr =>
            references[r].owner \in 1..Len(shortnames)
    BY DEF OwnersInv, OwnersAgree
  <2> DEFINE path(stored, r) ==
               <<references[r].fileIndex,
                 IF references[r].owner = nullptr THEN <<>>
                 ELSE getFullPath(stored[references[r].owner])>>
  <2>2. \A r \in 1..Len(references) : path(shortnames', r) = path(shortnames, r)
    BY <1>3, <2>1
  <2>3. /\ OwnerPaths = [r \in 1..Len(references) |-> path(shortnames, r)]
        /\ OwnerPaths' = [r \in 1..Len(references) |-> path(shortnames', r)]
    BY <1>4 DEF OwnerPaths, getFullPath
  <2> HIDE DEF path
  <2> QED
    BY <2>2, <2>3
<1> QED
  BY <1>5, <1>6

(* A SHORT-NAME in a known scope.                                          *)
LEMMA ShortNameImplements ==
  ASSUME TypeInv, TypeInv', ScopeInv, OwnersInv, ~misread,
         NEW n \in Name, ShortName(n)
  PROVE  Scopes!ShortName(n)
<1>1. NamesOf(depthElements)' = Append(NamesOf(depthElements), n)
  BY ShortNameScope
<1>2. UNCHANGED <<fileIndex, mode, misread>>
  BY DEF ShortName, fileIndex
<1>3. /\ DefinedPaths' = DefinedPaths \cup {<<fileIndex, NamesOf(depthElements)'>>}
      /\ OwnerPaths' = OwnerPaths
  BY ShortNameDefines
<1>4. doc # <<>> <=> OpenScopes # <<>>
  <2>1. /\ OpenScopes \in Seq(ScopedElement)
        /\ Len(OpenScopes) = Len(doc)
        /\ doc \in Seq(OpenElement)
    BY OpenScopesProperties DEF TypeInv, TypeOK, OpenElement
  <2> QED
    BY <2>1, EmptySeq
<1>5. doc # <<>> => Last(OpenScopes).content = Last(doc).content
  <2> SUFFICES ASSUME doc # <<>>
               PROVE  Last(OpenScopes).content = Last(doc).content
    OBVIOUS
  <2> DEFINE m == Len(doc)
  <2>1. m \in 1..m
    BY EmptySeq DEF TypeInv, TypeOK, OpenElement
  <2>2. OpenScopes[m] = [tag |-> doc[m].tag, content |-> doc[m].content,
                         outer |-> NamesOf(PopDeeper(depthElements, m - 1))]
    BY <2>1, OpenScopesProperties
  <2>3. Last(OpenScopes) = OpenScopes[m] /\ Last(doc) = doc[m]
    BY OpenScopesProperties DEF Last
  <2> QED
    BY <2>2, <2>3
<1> DEFINE content == IF doc # <<>> /\ Last(doc).content = "none"
                      THEN "shortname" ELSE "more"
<1>6. OpenScopes' = Scopes!Note(OpenScopes, content)
  <2>1. content \in Contents /\ doc' = Holds(content)
    BY DEF ShortName, Contents
  <2>2. ASSUME NEW i \in 1..Len(doc)
        PROVE  NamesOf(PopDeeper(depthElements, i - 1))'
                 = NamesOf(PopDeeper(depthElements, i - 1))
    <3>1. Len(doc) \in Nat /\ depth = Len(doc)
      BY LenProperties DEF TypeInv, TypeOK, DepthCounts
    <3>2. i - 1 \in Nat /\ i - 1 < depth
      BY <3>1
    <3> QED
      BY <3>2, ShortNameKeeps
  <2> HIDE DEF content
  <2> QED
    BY <2>1, <2>2, HoldsIsNote
<1>7. content = IF OpenScopes # <<>> /\ Last(OpenScopes).content = "none"
                 THEN "shortname" ELSE "more"
  BY <1>4, <1>5
<1> HIDE DEF content
<1>8. mode = "parsing" /\ ~misread /\ ~misread'
  BY <1>2 DEF ShortName, NextTag
<1>9. OpenScopes' =
        Scopes!Note(OpenScopes,
                    IF OpenScopes # <<>> /\ Last(OpenScopes).content = "none"
                    THEN "shortname" ELSE "more")
  BY <1>6, <1>7
<1> QED
  BY <1>1, <1>2, <1>3, <1>8, <1>9
     DEF Scopes!ShortName, Scopes!InScope, Scopes!Last, Last

(* The owner of a reference is the element whose path is in scope.         *)
LEMMA StoreReferenceOwner ==
  ASSUME TypeInv, TypeInv', ScopeInv, OwnersInv, OwnersInv',
         NEW target \in Seq(Name), StoreReference(target)
  PROVE  OwnerPaths' = Append(OwnerPaths, <<fileIndex, NamesOf(depthElements)>>)
<1> DEFINE n == Len(references)
           new == <<fileIndex, NamesOf(depthElements)>>
<1>1. UNCHANGED <<shortnames, URIs, mode, depthElements>>
  BY DEF StoreReference
<1>2. /\ n' = n + 1 /\ n \in Nat
      /\ \A r \in 1..n : references'[r] = references[r]
      /\ references'[n + 1].owner = Innermost
      /\ references'[n + 1].fileIndex = fileIndex
  <2>1. references'[n + 1] =
          [targetPath |-> target, charOffset |-> pos,
           owner |-> Innermost, fileIndex |-> fileIndex]
    BY ReferenceStorage
  <2>2. /\ references'[n + 1].owner = Innermost
        /\ references'[n + 1].fileIndex = fileIndex
    BY <2>1
  <2> QED
    BY <2>2, ReferenceStorage
<1>3. new = <<fileIndex, IF Innermost = nullptr THEN <<>>
                         ELSE getFullPath(shortnames[Innermost])>>
  <2>1. CASE depthElements = <<>>
    <3>1. Innermost = nullptr
      BY <2>1, InnermostType DEF nullptr
    <3>2. NamesOf(depthElements) = <<>>
      <4>1. /\ NamesOf(depthElements) \in Seq(Name)
            /\ Len(NamesOf(depthElements)) = 0
        BY <2>1, NamesType, EmptySeq
      <4> QED
        BY <4>1, EmptySeq
    <3> QED
      BY <3>1, <3>2
  <2>2. CASE depthElements # <<>>
    <3>1. Innermost # nullptr
      BY <2>2, InnermostType DEF nullptr
    <3>2. NamesOf(depthElements) = getFullPath(shortnames[Innermost])
      BY <2>2, PathOfInnermost DEF ScopeInv
    <3> QED
      BY <3>1, <3>2
  <2> QED
    BY <2>1, <2>2
<1>4. new \in ScopedPath
  BY NamesType, ElementTypes DEF ScopedPath
<1>5. /\ OwnerPaths \in Seq(ScopedPath)
      /\ Len(OwnerPaths) = n
      /\ \A r \in 1..n : OwnerPaths[r] = OwnerPath(r)
  BY OwnerPathsProperties
<1>6. (/\ OwnerPaths \in Seq(ScopedPath)
       /\ Len(OwnerPaths) = n
       /\ \A r \in 1..n : OwnerPaths[r] = OwnerPath(r))'
  BY OwnerPathsProperties, PTL
<1>7. OwnerPaths' = Append(OwnerPaths, new)
  <2>1. /\ Append(OwnerPaths, new) \in Seq(ScopedPath)
        /\ Len(Append(OwnerPaths, new)) = n + 1
        /\ \A r \in 1..n : Append(OwnerPaths, new)[r] = OwnerPaths[r]
        /\ Append(OwnerPaths, new)[n + 1] = new
    BY <1>4, <1>5, AppendProperties
  <2>2. \A r \in 1..n : OwnerPath(r)' = OwnerPath(r)
    BY <1>1, <1>2 DEF OwnerPath, getFullPath
  <2>3. ASSUME NEW r, r = n + 1
        PROVE  OwnerPath(r)' = new
    <3>1. OwnerPath(r)' =
            <<references'[r].fileIndex,
              IF references'[r].owner = nullptr THEN <<>>
              ELSE getFullPath(shortnames[references'[r].owner])>>
      BY <1>1 DEF OwnerPath, getFullPath
    <3> QED
      BY <1>2, <1>3, <2>3, <3>1
  <2> HIDE DEF new, n
  <2>4. ASSUME NEW r \in 1..(n + 1)
        PROVE  OwnerPaths'[r] = Append(OwnerPaths, new)[r]
    <3>1. OwnerPaths'[r] = OwnerPath(r)'
      BY <1>2, <1>6
    <3>2. CASE r = n + 1
      BY <2>1, <2>3, <3>1, <3>2
    <3>3. CASE r # n + 1
      <4>1. r \in 1..n
        BY <1>2, <3>3
      <4> QED
        BY <1>5, <2>1, <2>2, <3>1, <4>1
    <3> QED
      BY <3>2, <3>3
  <2> QED
    BY <1>2, <1>6, <2>1, <2>4, SeqEqual
<1> QED
  BY <1>7

(* A reference changes neither the scope nor what is defined.              *)
LEMMA StoreReferenceScope ==
  ASSUME NEW target, StoreReference(target)
  PROVE  /\ UNCHANGED <<fileIndex, NamesOf(depthElements), DefinedPaths>>
         /\ mode = "parsing" /\ mode' = "parsing"
<1>1. /\ UNCHANGED <<shortnames, URIs, mode, depthElements>>
      /\ mode = "parsing"
  BY DEF StoreReference, NextTag
<1> QED
  BY <1>1 DEF fileIndex, NamesOf, DefinedPaths, getFullPath

(* A reference in a known scope.                                           *)
LEMMA ReferenceImplements ==
  ASSUME TypeInv, TypeInv', ScopeInv, OwnersInv, OwnersInv', ~misread,
         NEW target \in Target, Reference(target)
  PROVE  Scopes!Reference
<1>1. target \in Seq(Name) /\ StoreReference(target)
  BY ReferenceStores
<1>2. /\ UNCHANGED <<fileIndex, NamesOf(depthElements), DefinedPaths>>
      /\ mode = "parsing" /\ mode' = "parsing"
  BY <1>1, StoreReferenceScope
<1>3. OpenScopes' = Scopes!Note(OpenScopes, "more")
  <2>1. /\ UNCHANGED <<shortnames, depthElements>>
        /\ doc' = Holds("more")
    BY <1>1 DEF Reference, StoreReference
  <2>2. \A i \in 1..Len(doc) :
          NamesOf(PopDeeper(depthElements, i - 1))'
            = NamesOf(PopDeeper(depthElements, i - 1))
    BY <2>1 DEF NamesOf, PopDeeper, Kept
  <2> QED
    BY <2>1, <2>2, HoldsIsNote DEF Contents
<1>4. OwnerPaths' = Append(OwnerPaths, <<fileIndex, NamesOf(depthElements)>>)
  BY <1>1, StoreReferenceOwner
<1>5. misread' = misread
  BY DEF Reference
<1> QED
  BY <1>2, <1>3, <1>4, <1>5 DEF Scopes!Reference, Scopes!InScope

(* The first misread tag of a file: its owner is still the right one.      *)
LEMMA MisreadTagImplements ==
  ASSUME TypeInv, TypeInv', ScopeInv, OwnersInv, OwnersInv', ~misread, MisreadTag
  PROVE  Scopes!Lose
<1>1. <<>> \in Seq(Name) /\ StoreReference(<<>>)
  BY ReferenceStores
<1>2. /\ UNCHANGED <<fileIndex, NamesOf(depthElements), DefinedPaths>>
      /\ mode = "parsing" /\ mode' = "parsing"
  BY <1>1, StoreReferenceScope
<1>3. OwnerPaths' = Append(OwnerPaths, <<fileIndex, NamesOf(depthElements)>>)
  BY <1>1, StoreReferenceOwner
<1>4. misread' = TRUE
  BY DEF MisreadTag
<1> QED
  BY <1>2, <1>3, <1>4 DEF Scopes!Lose, Scopes!InScope

(* What the steps behind it have in common.                                *)
LEMMA Guesses ==
  ASSUME misread, misread', mode = "parsing", mode' = "parsing",
         UNCHANGED <<fileIndex, DefinedPaths, OwnerPaths>>
  PROVE  UNCHANGED Scopes!vars
BY DEF Scopes!vars

(* A reference behind a misread tag is of this file.                       *)
LEMMA StoreReferenceGuesses ==
  ASSUME TypeInv, TypeInv', ScopeInv, OwnersInv, OwnersInv', misread, misread',
         NEW target \in Seq(Name), StoreReference(target)
  PROVE  Scopes!Guess
<1> DEFINE new == <<fileIndex, NamesOf(depthElements)>>
<1>1. /\ UNCHANGED <<fileIndex, NamesOf(depthElements), DefinedPaths>>
      /\ mode = "parsing" /\ mode' = "parsing"
  BY StoreReferenceScope
<1>2. OwnerPaths' = Append(OwnerPaths, new)
  BY StoreReferenceOwner
<1>3. OwnerPaths \in Seq(ScopedPath)
  BY OwnerPathsProperties
<1>4. new \in {fileIndex} \X Seq(Name)
  BY NamesType
<1>5. new \in ScopedPath
  BY <1>4, ElementTypes DEF ScopedPath
<1> HIDE DEF new
<1>6. /\ OwnerPaths' # <<>>
      /\ Front(OwnerPaths') = OwnerPaths
      /\ Last(OwnerPaths') = new
  <2>1. /\ Append(OwnerPaths, new) \in Seq(ScopedPath)
        /\ Len(OwnerPaths) \in Nat
        /\ Len(Append(OwnerPaths, new)) = Len(OwnerPaths) + 1
        /\ \A r \in 1..Len(OwnerPaths) :
             Append(OwnerPaths, new)[r] = OwnerPaths[r]
        /\ Append(OwnerPaths, new)[Len(OwnerPaths) + 1] = new
    BY <1>3, <1>5, AppendProperties, LenProperties
  <2> DEFINE longer == Append(OwnerPaths, new)
  <2>2. /\ longer \in Seq(ScopedPath)
        /\ Len(longer) = Len(OwnerPaths) + 1
        /\ \A r \in 1..Len(OwnerPaths) : longer[r] = OwnerPaths[r]
        /\ longer[Len(OwnerPaths) + 1] = new
    BY <2>1
  <2> HIDE DEF longer
  <2>3. longer # <<>>
    BY <2>1, <2>2, EmptySeq
  <2>4. /\ Front(longer) \in Seq(ScopedPath)
        /\ Len(Front(longer)) = Len(OwnerPaths)
        /\ \A r \in 1..Len(OwnerPaths) : Front(longer)[r] = longer[r]
    <3>1. Len(longer) - 1 = Len(OwnerPaths)
      BY <2>1, <2>2
    <3> QED
      BY <2>2, <2>3, <3>1, FrontProperties
  <2>5. Front(longer) = OwnerPaths
    BY <1>3, <2>2, <2>4, SeqEqual
  <2>6. Last(longer) = new
    BY <2>1, <2>2 DEF Last
  <2> QED
    BY <1>2, <2>3, <2>5, <2>6 DEF longer
<1> QED
  BY <1>1, <1>4, <1>6 DEF Scopes!Guess, Scopes!Front, Scopes!Last, Front, Last

(* A SHORT-NAME behind a misread tag defines a path in this file.          *)
LEMMA ShortNameGuesses ==
  ASSUME TypeInv, TypeInv', ScopeInv, OwnersInv, misread,
         NEW n \in Name, ShortName(n)
  PROVE  Scopes!Guess
<1>1. /\ DefinedPaths' = DefinedPaths \cup {<<fileIndex, NamesOf(depthElements)'>>}
      /\ OwnerPaths' = OwnerPaths
  BY ShortNameDefines
<1>2. NamesOf(depthElements)' \in Seq(Name)
  <2>1. (NamesOf(depthElements) \in Seq(Name))'
    BY NamesType, PTL
  <2> QED
    BY <2>1
<1>3. /\ UNCHANGED <<fileIndex, misread, mode>>
      /\ mode = "parsing"
  BY DEF ShortName, NextTag, fileIndex
<1> QED
  BY <1>1, <1>2, <1>3 DEF Scopes!Guess

(* Behind a misread tag every tag of the file is a guess, or nothing that  *)
(* the scopes see.                                                         *)
LEMMA MisreadImplements ==
  ASSUME TypeInv, TypeInv', ScopeInv, OwnersInv, OwnersInv', misread, [Next]_vars
  PROVE  [Scopes!Next]_Scopes!vars
<1>1. ASSUME NEW uri \in Uri, NEW empty \in BOOLEAN, BeginFile(uri, empty)
      PROVE  FALSE
  BY <1>1 DEF BeginFile, TypeInv, DepthCounts
<1>2. CASE EndFile
  BY <1>2, EndFileImplements DEF Scopes!Next
<1>3. CASE \/ SkipTag
           \/ \E tag \in Elements : OpenTag(tag)
           \/ CloseTag
           \/ UNCHANGED vars
  <2>1. UNCHANGED <<storageVars, misread, mode>> /\ mode = "parsing"
    BY <1>3 DEF SkipTag, OpenTag, CloseTag, NextTag, vars, parserVars, TypeInv,
                DepthCounts
  <2> QED
    BY <2>1, StorageUnchanged, Guesses
<1>4. ASSUME NEW n \in Name, ShortName(n)
      PROVE  Scopes!Next
  BY <1>4, ShortNameGuesses DEF Scopes!Next
<1>5. ASSUME NEW target \in Target, Reference(target)
      PROVE  Scopes!Next
  <2>1. target \in Seq(Name) /\ StoreReference(target) /\ misread'
    BY <1>5, ReferenceStores DEF Reference
  <2> QED
    BY <2>1, StoreReferenceGuesses DEF Scopes!Next
<1>6. CASE MisreadTag
  <2>1. <<>> \in Seq(Name) /\ StoreReference(<<>>) /\ misread'
    BY <1>6, ReferenceStores DEF MisreadTag
  <2> QED
    BY <2>1, StoreReferenceGuesses DEF Scopes!Next
<1> QED
  BY <1>1, <1>2, <1>3, <1>4, <1>5, <1>6 DEF Next

(* Every step of the parser is a step of the scopes, or is none to them.   *)
LEMMA NextImplements ==
  ASSUME TypeInv, ScopeInv, OwnersInv, OwnersInv', TagInv, [Next]_vars
  PROVE  [Scopes!Next]_Scopes!vars
<1>1. TypeInv'
  BY NextTypeInv
<1>2. CASE misread
  BY <1>1, <1>2, MisreadImplements
<1>3. CASE ~misread
  <2>1. InStep
    BY <1>3 DEF TagInv
  <2>2. ASSUME NEW uri \in Uri, NEW empty \in BOOLEAN, BeginFile(uri, empty)
        PROVE  Scopes!Begin
    BY <2>2, BeginFileImplements
  <2>3. CASE EndFile
    BY <1>1, <2>3, EndFileImplements DEF Scopes!Next
  <2>4. CASE SkipTag
    BY <2>4, SkipTagImplements
  <2>5. ASSUME NEW tag \in Elements, OpenTag(tag)
        PROVE  Scopes!Next
    <3>1. tag \in Scopes!Tags
      BY DEF Elements, Scopes!Tags
    <3> QED
      BY <1>1, <1>3, <2>1, <2>5, <3>1, OpenTagImplements DEF Scopes!Next
  <2>6. CASE CloseTag
    BY <1>1, <1>3, <2>1, <2>6, CloseTagImplements DEF Scopes!Next
  <2>7. ASSUME NEW n \in Name, ShortName(n)
        PROVE  Scopes!Next
    BY <1>1, <1>3, <2>7, ShortNameImplements DEF Scopes!Next
  <2>8. ASSUME NEW target \in Target, Reference(target)
        PROVE  Scopes!Next
    BY <1>1, <1>3, <2>8, ReferenceImplements DEF Scopes!Next
  <2>9. CASE MisreadTag
    BY <1>1, <1>3, <2>9, MisreadTagImplements DEF Scopes!Next
  <2>10. CASE UNCHANGED vars
    <3>1. UNCHANGED <<storageVars, mode, doc, misread, depthElements>>
      BY <2>10 DEF vars, parserVars
    <3>2. UNCHANGED <<fileIndex, DefinedPaths, OwnerPaths>>
      BY <3>1, StorageUnchanged
    <3>3. UNCHANGED <<OpenScopes, NamesOf(depthElements)>>
      BY <3>1 DEF OpenScopes, NamesOf, PopDeeper, Kept, storageVars
    <3> QED
      BY <3>1, <3>2, <3>3 DEF Scopes!vars
  <2> QED
    BY <2>2, <2>3, <2>4, <2>5, <2>6, <2>7, <2>8, <2>9, <2>10 DEF Next, Scopes!Next
<1> QED
  BY <1>2, <1>3

(* The parser, which keeps a depth counter, the last two tags and a stack  *)
(* of pointers and merges an element that is defined twice with the first, *)
(* gives every element and every owner of a reference the path that        *)
(* lexical scoping gives it, up to the first start tag of each file that   *)
(* has DEST in it and is no reference (parseShortnamesAndReferences).      *)
(* Behind such a tag, what it gives is still of its own file.              *)
THEOREM ScopesImplemented == Spec => LexicalScoping
<1>1. Init => Scopes!Init
  BY InitImplements
<1>2. /\ TypeInv /\ ScopeInv /\ OwnersInv /\ OwnersInv' /\ TagInv
      /\ [Next]_vars
      => [Scopes!Next]_Scopes!vars
  BY NextImplements
<1> QED
  BY <1>1, <1>2, TypeInvInvariant, ScopeInvInvariant, OwnersInvInvariant,
     TagInvInvariant, PTL
     DEF Spec, LexicalScoping, Scopes!Spec
=============================================================================
