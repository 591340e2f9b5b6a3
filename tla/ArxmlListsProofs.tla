-------------------------- MODULE ArxmlListsProofs --------------------------
(***************************************************************************)
(* Proofs that the lists the parser keeps beside its elements (children,   *)
(* references and newlines) agree with them, for any names, URIs and       *)
(* bounds.                                                                 *)
(***************************************************************************)
EXTENDS ArxmlParserProofs

(* The parts of the references.                                            *)
LEMMA ReferenceTypes ==
  ASSUME TypeInv
  PROVE  /\ Len(references) \in Nat
         /\ \A r \in 1..Len(references) :
              /\ references[r].charOffset \in Nat
              /\ references[r].owner \in Nat
              /\ references[r].fileIndex \in Pointer
<1>1. references \in Seq(ReferenceElement)
  BY DEF TypeInv, TypeOK, StorageTypeOK
<1>2. \A r \in 1..Len(references) : references[r] \in ReferenceElement
  BY <1>1, ElementOfSeq
<1> QED
  BY <1>1, <1>2, LenProperties DEF ReferenceElement

(* Lists of pointers, as those of children and of references are.          *)
Lists(list, x) == \E i \in 1..Len(list) : list[i] = x

(* push_back adds one pointer to a list.                                   *)
LEMMA AppendListed ==
  ASSUME NEW list \in Seq(Pointer), NEW q \in Pointer, NEW x
  PROVE  Lists(Append(list, q), x) <=> Lists(list, x) \/ x = q
<1>1. Len(list) \in Nat
  BY LenProperties
<1>2. /\ Len(Append(list, q)) = Len(list) + 1
      /\ \A i \in 1..Len(list) : Append(list, q)[i] = list[i]
      /\ Append(list, q)[Len(list) + 1] = q
  BY AppendProperties
<1> QED
  BY <1>1, <1>2 DEF Lists

(* The lists of a new element hold nothing.                                *)
LEMMA EmptyListed ==
  ASSUME NEW x
  PROVE  ~Lists(<<>>, x)
<1>1. Len(<<>>) = 0
  BY EmptySeq
<1> QED
  BY <1>1 DEF Lists

-----------------------------------------------------------------------------
(* Newlines.  A file whose elements and references are stored has its      *)
(* newlines under its own index.  In a folder with an empty file the model *)
(* ends where newlineOffsets_ is written out of bounds, so that this says  *)
(* something of the files before it only.                                  *)

HasNewlines(i) == i \in 1..Len(newlineOffsets) /\ newlineOffsets[i] = i

NewlineInv ==
  /\ Len(newlineOffsets) <= Len(URIs)
  /\ mode = "parsing" => HasNewlines(fileIndex)
  /\ \A p \in 1..Len(shortnames) : HasNewlines(shortnames[p].fileIndex)
  /\ \A r \in 1..Len(references) : HasNewlines(references[r].fileIndex)

(* A new file adds one vector of newlines, or none.                        *)
LEMMA BeginFileNewlineInv ==
  ASSUME TypeInv, NewlineInv, NEW uri \in Uri, NEW empty, BeginFile(uri, empty)
  PROVE  NewlineInv'
<1> DEFINE n == Len(newlineOffsets)
<1>1. /\ URIs \in Seq(Uri) /\ newlineOffsets \in Seq(Pointer)
      /\ n \in Nat /\ Len(URIs) \in Nat
  BY LenProperties DEF TypeInv, TypeOK, StorageTypeOK
<1>2. Len(URIs') = Len(URIs) + 1
  BY <1>1, AppendProperties DEF BeginFile, addFileIndex
<1>3. /\ shortnames' = shortnames
      /\ references' = references
  BY DEF BeginFile
<1>4. CASE newlineOffsets' = newlineOffsets /\ mode' = mode
  <2>1. mode' # "parsing"
    BY <1>4 DEF BeginFile
  <2> QED
    BY <1>1, <1>2, <1>3, <1>4, <2>1 DEF NewlineInv, HasNewlines
<1>5. CASE /\ newlineOffsets' = Append(newlineOffsets, Len(URIs'))
           /\ mode' = IF Len(URIs') <= Len(newlineOffsets')
                      THEN "parsing" ELSE "undefined"
  <2>1. /\ Len(newlineOffsets') = n + 1
        /\ \A i \in 1..n : newlineOffsets'[i] = newlineOffsets[i]
        /\ newlineOffsets'[n + 1] = Len(URIs')
    <3>1. Len(URIs') \in Pointer
      BY <1>1, <1>2 DEF Pointer, nullptr
    <3> QED
      BY <1>1, <1>5, <3>1, AppendProperties
  <2>2. Len(newlineOffsets') <= Len(URIs')
    BY <1>1, <1>2, <2>1 DEF NewlineInv
  <2>3. mode' = "parsing" => HasNewlines(fileIndex)'
    <3>1. SUFFICES ASSUME mode' = "parsing"
                   PROVE  HasNewlines(fileIndex)'
      OBVIOUS
    <3>2. Len(URIs') <= Len(newlineOffsets')
      BY <1>5, <3>1
    <3>3. Len(URIs') = n + 1
      BY <1>1, <1>2, <2>1, <2>2, <3>2
    <3> QED
      BY <1>1, <2>1, <3>3 DEF HasNewlines, fileIndex
  <2>4. ASSUME NEW i, HasNewlines(i)
        PROVE  HasNewlines(i)'
    BY <1>1, <2>1, <2>4 DEF HasNewlines
  <2> QED
    BY <1>3, <2>2, <2>3, <2>4 DEF NewlineInv
<1> QED
  BY <1>4, <1>5 DEF BeginFile

(* Steps that add no element keep the newlines as they are.                *)
LEMMA NoElementNewlineInv ==
  ASSUME NewlineInv, mode' = "parsing" => mode = "parsing",
         UNCHANGED <<shortnames, references, newlineOffsets, URIs>>
  PROVE  NewlineInv'
BY DEF NewlineInv, HasNewlines, fileIndex

(* A new element is of the file that is being parsed.                      *)
LEMMA ShortNameNewlineInv ==
  ASSUME TypeInv, NewlineInv, NEW n \in Name, ShortName(n)
  PROVE  NewlineInv'
<1>1. /\ newlineOffsets' = newlineOffsets /\ URIs' = URIs
      /\ mode' = mode /\ references' = references /\ mode = "parsing"
  BY DEF ShortName, NextTag
<1>2. HasNewlines(fileIndex)
  BY <1>1 DEF NewlineInv
<1>3. ASSUME NEW p \in 1..Len(shortnames')
      PROVE  HasNewlines(shortnames'[p].fileIndex)
  <2>1. CASE p \in 1..Len(shortnames)
    <3>1. shortnames'[p] = shortnames[p]
      BY <2>1, ShortNameStorage
    <3> QED
      BY <2>1, <3>1 DEF NewlineInv
  <2>2. CASE p \notin 1..Len(shortnames)
    <3>1. Len(shortnames) \in Nat
      BY ElementTypes
    <3>2. shortnames'[p] = NewShortname(n)
      BY <2>2, <3>1, ShortNameStorage
    <3>3. shortnames'[p].fileIndex = fileIndex
      BY <3>2 DEF NewShortname
    <3> QED
      BY <1>2, <3>3
  <2> QED
    BY <2>1, <2>2
<1> QED
  BY <1>1, <1>3 DEF NewlineInv, HasNewlines, fileIndex

(* A reference is of the file that is being parsed.                        *)
LEMMA StoreReferenceNewlineInv ==
  ASSUME TypeInv, NewlineInv, NEW target \in Seq(Name), StoreReference(target)
  PROVE  NewlineInv'
<1>1. /\ newlineOffsets' = newlineOffsets /\ URIs' = URIs
      /\ mode' = mode /\ shortnames' = shortnames /\ mode = "parsing"
  BY DEF StoreReference, NextTag
<1>2. HasNewlines(fileIndex)
  BY <1>1 DEF NewlineInv
<1>3. ASSUME NEW r \in 1..Len(references')
      PROVE  HasNewlines(references'[r].fileIndex)
  <2>1. CASE r \in 1..Len(references)
    <3>1. references'[r] = references[r]
      BY <2>1, ReferenceStorage
    <3> QED
      BY <2>1, <3>1 DEF NewlineInv
  <2>2. CASE r \notin 1..Len(references)
    <3>1. r = Len(references) + 1
      <4>1. Len(references') = Len(references) + 1 /\ Len(references) \in Nat
        BY ReferenceStorage
      <4> QED
        BY <2>2, <4>1
    <3>2. references'[r] = [targetPath |-> target, charOffset |-> pos,
                            owner |-> Innermost, fileIndex |-> fileIndex]
      BY <3>1, ReferenceStorage
    <3>3. references'[r].fileIndex = fileIndex
      BY <3>2
    <3> QED
      BY <1>2, <3>3
  <2> QED
    BY <2>1, <2>2
<1> QED
  BY <1>1, <1>3 DEF NewlineInv, HasNewlines, fileIndex

(* NewlineInv holds at every tag of every file.                            *)
LEMMA NewlineInvInvariant == Spec => []NewlineInv
<1>1. Init => NewlineInv
  <2>1. Len(<<>>) = 0
    BY EmptySeq
  <2> QED
    BY <2>1 DEF Init, StorageInit, NewlineInv
<1>2. TypeInv /\ NewlineInv /\ [Next]_vars => NewlineInv'
  <2> SUFFICES ASSUME TypeInv, NewlineInv, [Next]_vars
               PROVE  NewlineInv'
    OBVIOUS
  <2>1. ASSUME NEW uri \in Uri, NEW empty, BeginFile(uri, empty)
        PROVE  NewlineInv'
    BY <2>1, BeginFileNewlineInv
  <2>2. CASE EndFile
    BY <2>2, NoElementNewlineInv DEF EndFile, storageVars
  <2>3. CASE SkipTag
    BY <2>3, NoElementNewlineInv DEF SkipTag, storageVars
  <2>4. ASSUME NEW tag \in Elements, OpenTag(tag)
        PROVE  NewlineInv'
    BY <2>4, NoElementNewlineInv DEF OpenTag, storageVars
  <2>5. CASE CloseTag
    BY <2>5, NoElementNewlineInv DEF CloseTag, storageVars
  <2>6. ASSUME NEW n \in Name, ShortName(n)
        PROVE  NewlineInv'
    BY <2>6, ShortNameNewlineInv
  <2>7. ASSUME NEW target \in Target, Reference(target)
        PROVE  NewlineInv'
    BY <2>7, ReferenceStores, StoreReferenceNewlineInv
  <2>8. CASE MisreadTag
    BY <2>8, ReferenceStores, StoreReferenceNewlineInv
  <2>9. CASE UNCHANGED vars
    BY <2>9, NoElementNewlineInv DEF vars, storageVars, parserVars
  <2> QED
    BY <2>1, <2>2, <2>3, <2>4, <2>5, <2>6, <2>7, <2>8, <2>9 DEF Next
<1> QED
  BY <1>1, <1>2, TypeInvInvariant, PTL DEF Spec

-----------------------------------------------------------------------------
(* Children.  A merged SHORT-NAME puts the element it was merged with on   *)
(* the list of the element the parser is in now.  That one is its parent   *)
(* all the same: both have the path of the merged element as their full    *)
(* path, and a file has no two elements with the same full path.           *)

NoDuplicates ==
  \A p, q \in 1..Len(shortnames) :
    p # q => ~Conflicts(shortnames[p], shortnames[q])

ChildrenStored ==
  \A p \in 1..Len(children) :
    \A i \in 1..Len(children[p]) : children[p][i] \in 1..Len(shortnames)

ChildrenInv == NoDuplicates /\ ChildrenStored /\ ChildrenAgree

(* The lists of children.                                                  *)
LEMMA ChildrenTypes ==
  ASSUME TypeInv
  PROVE  /\ Len(children) = Len(shortnames)
         /\ \A p \in 1..Len(children) :
              /\ children[p] \in Seq(Pointer)
              /\ Len(children[p]) \in Nat
              /\ DOMAIN children[p] = 1..Len(children[p])
<1>1. children \in Seq(Seq(Pointer)) /\ Len(children) = Len(shortnames)
  BY DEF TypeInv, TypeOK, StorageTypeOK, ListsMatch
<1>2. \A p \in 1..Len(children) : children[p] \in Seq(Pointer)
  BY <1>1, ElementOfSeq
<1> QED
  BY <1>1, <1>2, LenProperties

(* Steps that add no element keep the lists of children as they are.       *)
LEMMA NoElementChildrenInv ==
  ASSUME ChildrenInv, UNCHANGED <<shortnames, children>>
  PROVE  ChildrenInv'
BY DEF ChildrenInv, NoDuplicates, ChildrenStored, ChildrenAgree, Conflicts,
       getFullPath

(* The container keeps its two indices unique.                             *)
LEMMA ShortNameNoDuplicates ==
  ASSUME TypeInv, NoDuplicates, NEW n \in Name, ShortName(n)
  PROVE  NoDuplicates'
<1> DEFINE new == NewShortname(n)
           len == Len(shortnames)
<1>1. len \in Nat
  BY ElementTypes
<1>2. \A p \in 1..len : shortnames'[p] = shortnames[p]
  BY ShortNameStorage
<1>3. \A e, f : Conflicts(e, f) <=> Conflicts(f, e)
  BY DEF Conflicts
<1>4. \A p, q \in 1..len : p # q => ~Conflicts(shortnames[p], shortnames[q])
  BY DEF NoDuplicates
<1>5. CASE IsNew(new)
  <2>1. Len(shortnames') = len + 1 /\ shortnames'[len + 1] = new
    BY <1>5, ShortNameStorage
  <2>2. \A p \in 1..len : ~Conflicts(new, shortnames[p])
    BY <1>5 DEF IsNew
  <2> HIDE DEF new, len
  <2>3. \A p, q \in 1..(len + 1) :
          p # q => ~Conflicts(shortnames'[p], shortnames'[q])
    <3> SUFFICES ASSUME NEW p \in 1..(len + 1), NEW q \in 1..(len + 1), p # q
                 PROVE  ~Conflicts(shortnames'[p], shortnames'[q])
      OBVIOUS
    <3>1. CASE p \in 1..len /\ q \in 1..len
      BY <1>2, <1>4, <3>1
    <3>2. CASE p = len + 1 /\ q \in 1..len
      BY <1>2, <2>1, <2>2, <3>2
    <3>3. CASE p \in 1..len /\ q = len + 1
      BY <1>2, <1>3, <2>1, <2>2, <3>3
    <3> QED
      BY <1>1, <3>1, <3>2, <3>3
  <2>4. \A p, q \in 1..Len(shortnames') :
          p # q => ~Conflicts(shortnames'[p], shortnames'[q])
    BY <2>1, <2>3
  <2> QED
    BY <2>4 DEF NoDuplicates, Conflicts, getFullPath
<1>6. CASE ~IsNew(new)
  <2>1. shortnames' = shortnames
    BY <1>6 DEF ShortName, addShortname
  <2> QED
    BY <2>1 DEF NoDuplicates, Conflicts, getFullPath
<1> QED
  BY <1>5, <1>6

(* The parent of the element that a SHORT-NAME stands for, new or merged,  *)
(* is the element the parser is in.                                        *)
LEMMA SlotParent ==
  ASSUME TypeInv, ScopeInv, NoDuplicates, NEW n \in Name, ShortName(n)
  PROVE  shortnames'[SlotOf(NewShortname(n))].parent = Innermost
<1> DEFINE new == NewShortname(n)
           slot == SlotOf(new)
           old == shortnames[slot]
<1>1. CASE IsNew(new)
  <2>1. shortnames'[slot] = new
    BY <1>1, ShortNameStorage
  <2>2. new.parent = Innermost
    BY DEF NewShortname
  <2> QED
    BY <2>1, <2>2
<1>2. CASE ~IsNew(new)
  <2>1. /\ shortnames'[slot].path = NamesOf(depthElements)
        /\ shortnames'[slot].fileIndex = fileIndex
    BY SlotInScope DEF ScopeInv
  <2>2. slot \in 1..Len(shortnames) /\ shortnames' = shortnames
    <3>1. shortnames' = shortnames
      BY <1>2 DEF ShortName, addShortname
    <3>2. slot \in 1..Len(shortnames')
      BY ShortNameStorage
    <3> QED
      BY <3>1, <3>2
  <2>3. /\ old.path = NamesOf(depthElements)
        /\ old.fileIndex = fileIndex
    BY <2>1, <2>2
  <2>4. /\ old.parent = nullptr <=> old.path = <<>>
        /\ old.parent # nullptr =>
             /\ old.parent \in 1..(slot - 1)
             /\ shortnames[old.parent].fileIndex = old.fileIndex
             /\ old.path = getFullPath(shortnames[old.parent])
    BY <2>2 DEF ScopeInv, ParentChain
  <2> HIDE DEF old, slot
  <2>5. CASE depthElements = <<>>
    <3>1. NamesOf(depthElements) = <<>>
      <4>1. Len(depthElements) = 0
        BY <2>5, EmptySeq
      <4> QED
        BY <4>1, NamesType, EmptySeq
    <3>2. Innermost = nullptr
      BY <2>5 DEF Innermost
    <3> QED
      BY <2>2, <2>3, <2>4, <3>1, <3>2 DEF old, slot
  <2>6. CASE depthElements # <<>>
    <3>1. /\ Innermost \in 1..Len(shortnames)
          /\ shortnames[Innermost].fileIndex = fileIndex
          /\ NamesOf(depthElements) = getFullPath(shortnames[Innermost])
      BY <2>6, PathOfInnermost DEF ScopeInv
    <3>2. NamesOf(depthElements) # <<>>
      <4>1. Len(NamesOf(depthElements)) = Len(depthElements)
        BY NamesType
      <4>2. Len(depthElements) \in Nat \ {0}
        BY <2>6, EmptySeq DEF TypeInv, TypeOK
      <4>3. Len(<<>>) = 0
        BY EmptySeq
      <4> QED
        BY <4>1, <4>2, <4>3
    <3>3. old.parent \in 1..Len(shortnames)
      <4>1. Len(shortnames) \in Nat
        BY ElementTypes
      <4> QED
        BY <2>2, <2>3, <2>4, <3>2, <4>1
    <3>4. Conflicts(shortnames[old.parent], shortnames[Innermost])
      BY <2>3, <2>4, <3>1, <3>2 DEF Conflicts
    <3>5. old.parent = Innermost
      BY <3>1, <3>3, <3>4 DEF NoDuplicates
    <3> QED
      BY <2>2, <3>5 DEF old, slot
  <2> QED
    BY <2>5, <2>6
<1> QED
  BY <1>1, <1>2

(* A SHORT-NAME tag keeps ChildrenInv, be its element new or merged.       *)
LEMMA ShortNameChildrenInv ==
  ASSUME TypeInv, ScopeInv, ChildrenInv, NEW n \in Name, ShortName(n)
  PROVE  ChildrenInv'
<1> DEFINE new == NewShortname(n)
           slot == SlotOf(new)
           len == Len(shortnames)
<1>1. /\ len \in Nat
      /\ Len(shortnames') \in {len, len + 1}
      /\ IsNew(new) => Len(shortnames') = len + 1 /\ slot = len + 1
      /\ ~IsNew(new) => Len(shortnames') = len
      /\ slot \in 1..Len(shortnames')
      /\ \A p \in 1..len : shortnames'[p] = shortnames[p]
  BY ElementTypes, ShortNameStorage
<1>2. /\ children' \in Seq(Seq(Pointer))
      /\ Len(children') = Len(shortnames')
      /\ \A p \in 1..len : children'[p] = IF p = Innermost
                                          THEN Append(children[p], slot)
                                          ELSE children[p]
      /\ IsNew(new) => children'[len + 1] = <<>>
  BY <1>1, ShortNameLists, ChildrenTypes
<1>3. shortnames'[slot].parent = Innermost
  BY SlotParent DEF ChildrenInv
<1>4. slot \in Pointer
  BY <1>1 DEF Pointer, nullptr
<1>5. \A p \in 1..len : /\ children[p] \in Seq(Pointer)
                        /\ Len(children[p]) \in Nat
  BY ChildrenTypes
<1>6. \A p \in 1..len : \A i \in 1..Len(children[p]) : children[p][i] \in 1..len
  BY ChildrenTypes DEF ChildrenInv, ChildrenStored
<1>7. ASSUME NEW p \in 1..len, NEW q
      PROVE  Lists(children'[p], q)
               <=> Lists(children[p], q) \/ (p = Innermost /\ q = slot)
  <2>1. CASE p = Innermost
    <3>1. children'[p] = Append(children[p], slot)
      BY <1>2, <2>1
    <3> HIDE DEF slot
    <3> QED
      BY <1>4, <1>5, <2>1, <3>1, AppendListed
  <2>2. CASE p # Innermost
    BY <1>2, <2>2
  <2> QED
    BY <2>1, <2>2
<1>8. \A p \in 1..len, q \in 1..len :
        shortnames[q].parent = p <=> Lists(children[p], q)
  <2>1. \A p, q \in 1..Len(shortnames) :
          shortnames[q].parent = p
            <=> \E i \in DOMAIN children[p] : children[p][i] = q
    BY DEF ChildrenInv, ChildrenAgree
  <2>2. \A p \in 1..Len(shortnames) : DOMAIN children[p] = 1..Len(children[p])
    BY ChildrenTypes
  <2> QED
    BY <2>1, <2>2 DEF Lists
<1>9. Innermost \in 0..len
  BY InnermostType
<1> HIDE DEF new, slot, len
<1>10. ASSUME NEW p \in 1..Len(shortnames'), NEW q \in 1..Len(shortnames')
       PROVE  shortnames'[q].parent = p <=> Lists(children'[p], q)
  <2>1. CASE p \in 1..len /\ q \in 1..len
    <3>1. shortnames'[q].parent = p <=> Lists(children[p], q)
      BY <1>1, <1>8, <2>1
    <3>2. p = Innermost /\ q = slot => shortnames'[q].parent = p
      BY <1>3
    <3> QED
      BY <1>7, <2>1, <3>1, <3>2
  <2>2. CASE p \in 1..len /\ q = len + 1 /\ IsNew(new)
    <3>1. ~Lists(children[p], q)
      BY <1>1, <1>6, <2>2 DEF Lists
    <3>2. q = slot
      BY <1>1, <2>2
    <3> QED
      BY <1>3, <1>7, <2>2, <3>1, <3>2
  <2>3. CASE p = len + 1 /\ IsNew(new)
    <3>1. ~Lists(children'[p], q)
      <4>1. children'[p] = <<>>
        BY <1>2, <2>3
      <4> QED
        BY <4>1, EmptyListed
    <3>2. shortnames'[q].parent # p
      <4>1. CASE q \in 1..len
        <5>1. shortnames[q].parent \in 0..len
          BY <1>1, <4>1, ElementTypes DEF ScopeInv, ParentChain, nullptr, len
        <5> QED
          BY <1>1, <2>3, <4>1, <5>1
      <4>2. CASE q = slot
        BY <1>1, <1>3, <1>9, <2>3, <4>2
      <4> QED
        BY <1>1, <2>3, <4>1, <4>2
    <3> QED
      BY <3>1, <3>2
  <2> QED
    BY <1>1, <2>1, <2>2, <2>3
<1>11. NoDuplicates'
  BY ShortNameNoDuplicates DEF ChildrenInv
<1>12. ChildrenStored'
  <2>1. ASSUME NEW p \in 1..Len(children'), NEW i \in 1..Len(children'[p])
        PROVE  children'[p][i] \in 1..Len(shortnames')
    <3>1. CASE p \in 1..len
      <4>1. Lists(children'[p], children'[p][i])
        BY DEF Lists
      <4>2. \/ Lists(children[p], children'[p][i])
            \/ children'[p][i] = slot
        BY <1>7, <3>1, <4>1
      <4>3. Lists(children[p], children'[p][i]) => children'[p][i] \in 1..len
        BY <1>6, <3>1 DEF Lists
      <4> QED
        BY <1>1, <4>2, <4>3
    <3>2. CASE p = len + 1 /\ IsNew(new)
      <4>1. children'[p] = <<>> /\ Len(<<>>) = 0
        BY <1>2, <3>2, EmptySeq
      <4> QED
        BY <4>1
    <3> QED
      BY <1>1, <1>2, <3>1, <3>2
  <2> QED
    BY <2>1 DEF ChildrenStored
<1>13. ChildrenAgree'
  <2>1. \A p \in 1..Len(children') : DOMAIN children'[p] = 1..Len(children'[p])
    <3>1. \A p \in 1..Len(children') : children'[p] \in Seq(Pointer)
      BY <1>2, ElementOfSeq
    <3> QED
      BY <3>1, LenProperties
  <2> QED
    BY <1>2, <1>10, <2>1 DEF ChildrenAgree, Lists
<1> QED
  BY <1>11, <1>12, <1>13 DEF ChildrenInv

(* ChildrenInv holds at every tag of every file.                           *)
LEMMA ChildrenInvInvariant == Spec => []ChildrenInv
<1>1. Init => ChildrenInv
  <2>1. Len(<<>>) = 0
    BY EmptySeq
  <2> QED
    BY <2>1 DEF Init, StorageInit, ChildrenInv, NoDuplicates, ChildrenStored,
                ChildrenAgree
<1>2. TypeInv /\ ScopeInv /\ ChildrenInv /\ [Next]_vars => ChildrenInv'
  <2> SUFFICES ASSUME TypeInv, ScopeInv, ChildrenInv, [Next]_vars
               PROVE  ChildrenInv'
    OBVIOUS
  <2>1. ASSUME NEW n \in Name, ShortName(n)
        PROVE  ChildrenInv'
    BY <2>1, ShortNameChildrenInv
  <2>2. CASE \/ \E uri \in Uri, empty \in BOOLEAN : BeginFile(uri, empty)
             \/ EndFile \/ SkipTag
             \/ \E tag \in Elements : OpenTag(tag)
             \/ CloseTag
             \/ \E target \in Target : Reference(target)
             \/ MisreadTag
             \/ UNCHANGED vars
    <3>1. UNCHANGED <<shortnames, children>>
      BY <2>2 DEF BeginFile, EndFile, SkipTag, OpenTag, CloseTag, Reference,
                  MisreadTag, StoreReference, vars, storageVars
    <3> QED
      BY <3>1, NoElementChildrenInv
  <2> QED
    BY <2>1, <2>2 DEF Next
<1> QED
  BY <1>1, <1>2, TypeInvInvariant, ScopeInvInvariant, PTL DEF Spec

(* Both ends of the tree agree: climbing from an element to its parent and *)
(* descending from an element to its children are inverse to each other,   *)
(* whatever SHORT-NAMEs were merged.                                       *)
THEOREM ChildrenAgreeWithParents == Spec => []ChildrenAgree
<1>1. ChildrenInv => ChildrenAgree
  BY DEF ChildrenInv
<1> QED
  BY <1>1, ChildrenInvInvariant, PTL

-----------------------------------------------------------------------------
(* Owners.                                                                 *)

OwnReferencesStored ==
  \A p \in 1..Len(ownReferences) :
    \A i \in 1..Len(ownReferences[p]) :
      ownReferences[p][i] \in 1..Len(references)

OwnReferencesInOrder ==
  \A p \in 1..Len(ownReferences) :
    \A i, j \in 1..Len(ownReferences[p]) :
      i < j => ownReferences[p][i] < ownReferences[p][j]

OwnersInv == OwnReferencesStored /\ OwnReferencesInOrder /\ OwnersAgree

(* The lists of references by element.                                     *)
LEMMA OwnReferencesTypes ==
  ASSUME TypeInv
  PROVE  /\ Len(ownReferences) = Len(shortnames)
         /\ \A p \in 1..Len(ownReferences) :
              /\ ownReferences[p] \in Seq(Pointer)
              /\ Len(ownReferences[p]) \in Nat
              /\ DOMAIN ownReferences[p] = 1..Len(ownReferences[p])
<1>1. ownReferences \in Seq(Seq(Pointer)) /\ Len(ownReferences) = Len(shortnames)
  BY DEF TypeInv, TypeOK, StorageTypeOK, ListsMatch
<1>2. \A p \in 1..Len(ownReferences) : ownReferences[p] \in Seq(Pointer)
  BY <1>1, ElementOfSeq
<1> QED
  BY <1>1, <1>2, LenProperties

(* What OwnersAgree says of one reference, and of an element and one.      *)
OwnerBefore(r) ==
  references[r].owner # nullptr =>
    /\ references[r].owner \in 1..Len(shortnames)
    /\ shortnames[references[r].owner].fileIndex = references[r].fileIndex
    /\ shortnames[references[r].owner].charOffset < references[r].charOffset

OwnerListed(p, r) == references[r].owner = p <=> Lists(ownReferences[p], r)

(* OwnersAgree in these words.                                             *)
LEMMA OwnersAgreeParts ==
  ASSUME TypeInv
  PROVE  OwnersAgree <=>
           /\ \A r \in 1..Len(references) : OwnerBefore(r)
           /\ \A p \in 1..Len(shortnames), r \in 1..Len(references) :
                OwnerListed(p, r)
<1>1. /\ Len(ownReferences) = Len(shortnames)
      /\ \A p \in 1..Len(shortnames) :
           DOMAIN ownReferences[p] = 1..Len(ownReferences[p])
  BY OwnReferencesTypes
<1> DEFINE listed(p, r) ==
             \E i \in DOMAIN ownReferences[p] : ownReferences[p][i] = r
<1>2. ASSUME NEW p \in 1..Len(shortnames), NEW r
      PROVE  listed(p, r) <=> Lists(ownReferences[p], r)
  BY <1>1 DEF Lists
<1>3. OwnersAgree <=>
        /\ \A r \in 1..Len(references) : OwnerBefore(r)
        /\ \A p \in 1..Len(shortnames), r \in 1..Len(references) :
             references[r].owner = p <=> listed(p, r)
  BY <1>1 DEF OwnersAgree, OwnerBefore
<1> HIDE DEF listed
<1>4. \A p \in 1..Len(shortnames), r \in 1..Len(references) :
        OwnerListed(p, r) <=> (references[r].owner = p <=> listed(p, r))
  BY <1>2 DEF OwnerListed
<1> QED
  BY <1>3, <1>4

(* Steps that add no element nor reference keep the owners as they are.    *)
LEMMA NoElementOwnersInv ==
  ASSUME OwnersInv, UNCHANGED <<shortnames, references, ownReferences>>
  PROVE  OwnersInv'
BY DEF OwnersInv, OwnReferencesStored, OwnReferencesInOrder, OwnersAgree

(* A SHORT-NAME tag keeps OwnersInv: a new element owns nothing yet.       *)
LEMMA ShortNameOwnersInv ==
  ASSUME TypeInv, OwnersInv, NEW n \in Name, ShortName(n)
  PROVE  OwnersInv'
<1> DEFINE len == Len(shortnames)
<1>1. /\ len \in Nat
      /\ Len(shortnames') \in {len, len + 1}
      /\ IsNew(NewShortname(n)) <=> Len(shortnames') = len + 1
      /\ \A p \in 1..len : shortnames'[p] = shortnames[p]
  BY ElementTypes, ShortNameStorage
<1>2. /\ Len(ownReferences') = Len(shortnames')
      /\ \A p \in 1..len : ownReferences'[p] = ownReferences[p]
      /\ IsNew(NewShortname(n)) => ownReferences'[len + 1] = <<>>
      /\ references' = references
  BY <1>1, ShortNameLists, OwnReferencesTypes DEF ShortName
<1>3. TypeInv'
  BY ShortNameTypeInv
<1>4. /\ \A r \in 1..Len(references) : OwnerBefore(r)
      /\ \A p \in 1..len, r \in 1..Len(references) : OwnerListed(p, r)
  BY OwnersAgreeParts DEF OwnersInv
<1>5. \A p \in 1..len : \A i \in 1..Len(ownReferences[p]) :
        ownReferences[p][i] \in 1..Len(references)
  BY OwnReferencesTypes DEF OwnersInv, OwnReferencesStored
<1> HIDE DEF len
<1>6. OwnReferencesStored'
  <2>1. ASSUME NEW p \in 1..Len(ownReferences')
        PROVE  \A i \in 1..Len(ownReferences'[p]) :
                 ownReferences'[p][i] \in 1..Len(references)
    <3>1. CASE p \in 1..len
      BY <1>2, <1>5, <3>1
    <3>2. CASE p \notin 1..len
      <4>1. ownReferences'[p] = <<>> /\ Len(<<>>) = 0
        BY <1>1, <1>2, <3>2, EmptySeq
      <4> QED
        BY <4>1
    <3> QED
      BY <3>1, <3>2
  <2> QED
    BY <1>2, <2>1 DEF OwnReferencesStored
<1>7. ASSUME NEW r \in 1..Len(references)
      PROVE  OwnerBefore(r)'
  BY <1>1, <1>2, <1>4 DEF OwnerBefore, len, nullptr
<1>8. ASSUME NEW p \in 1..Len(shortnames'), NEW r \in 1..Len(references)
      PROVE  OwnerListed(p, r)'
  <2>1. CASE p \in 1..len
    BY <1>2, <1>4, <2>1 DEF OwnerListed, Lists
  <2>2. CASE p \notin 1..len
    <3>1. p = len + 1 /\ ownReferences'[p] = <<>>
      BY <1>1, <1>2, <2>2
    <3>2. references[r].owner # p
      BY <1>1, <1>4, <3>1 DEF OwnerBefore, len, nullptr
    <3>3. ~Lists(ownReferences'[p], r)
      BY <3>1, EmptyListed
    <3> QED
      BY <1>2, <3>2, <3>3 DEF OwnerListed, Lists
  <2> QED
    BY <2>1, <2>2
<1>9. OwnersAgree'
  <2>1. (/\ \A r \in 1..Len(references) : OwnerBefore(r)
         /\ \A p \in 1..Len(shortnames), r \in 1..Len(references) :
              OwnerListed(p, r))'
    BY <1>2, <1>7, <1>8
  <2> QED
    BY <1>3, <2>1, OwnersAgreeParts, PTL
<1>10. OwnReferencesInOrder'
  <2>1. ASSUME NEW p \in 1..Len(ownReferences'),
               NEW i \in 1..Len(ownReferences'[p]),
               NEW j \in 1..Len(ownReferences'[p]), i < j
        PROVE  ownReferences'[p][i] < ownReferences'[p][j]
    <3>1. CASE p \in 1..len
      <4>1. p \in 1..Len(ownReferences) /\ ownReferences'[p] = ownReferences[p]
        BY <1>2, <3>1, OwnReferencesTypes DEF len
      <4> QED
        BY <2>1, <4>1 DEF OwnersInv, OwnReferencesInOrder
    <3>2. CASE p \notin 1..len
      <4>1. ownReferences'[p] = <<>> /\ Len(<<>>) = 0
        BY <1>1, <1>2, <3>2, EmptySeq
      <4> QED
        BY <4>1
    <3> QED
      BY <3>1, <3>2
  <2> QED
    BY <2>1 DEF OwnReferencesInOrder
<1> QED
  BY <1>6, <1>9, <1>10 DEF OwnersInv

(* A reference keeps OwnersInv: the element it is found in is of its file  *)
(* and stands before it.                                                   *)
LEMMA StoreReferenceOwnersInv ==
  ASSUME TypeInv, TypeInv', ScopeInv, OwnersInv,
         NEW target \in Seq(Name), StoreReference(target)
  PROVE  OwnersInv'
<1> DEFINE n == Len(references)
<1>1. /\ n \in Nat
      /\ Len(references') = n + 1
      /\ \A r \in 1..n : references'[r] = references[r]
      /\ shortnames' = shortnames
  BY ReferenceStorage DEF StoreReference
<1>2. /\ references'[n + 1].owner = Innermost
      /\ references'[n + 1].charOffset = pos
      /\ references'[n + 1].fileIndex = fileIndex
  <2>1. references'[n + 1] = [targetPath |-> target, charOffset |-> pos,
                              owner |-> Innermost, fileIndex |-> fileIndex]
    BY ReferenceStorage
  <2> HIDE DEF n
  <2> QED
    BY <2>1
<1>3. /\ Len(ownReferences') = Len(shortnames)
      /\ \A p \in 1..Len(shortnames) :
           ownReferences'[p] = IF p = Innermost
                               THEN Append(ownReferences[p], n + 1)
                               ELSE ownReferences[p]
  <2>1. Len(ownReferences) = Len(shortnames)
    BY OwnReferencesTypes
  <2>2. /\ Len(ownReferences') = Len(ownReferences)
        /\ \A p \in 1..Len(ownReferences) :
             ownReferences'[p] = IF p = Innermost
                                 THEN Append(ownReferences[Innermost], n + 1)
                                 ELSE ownReferences[p]
    BY ReferenceStorage
  <2> HIDE DEF n
  <2> QED
    BY <2>1, <2>2
<1>4. /\ \A r \in 1..n : OwnerBefore(r)
      /\ \A p \in 1..Len(shortnames), r \in 1..n : OwnerListed(p, r)
  BY OwnersAgreeParts DEF OwnersInv
<1>5. \A p \in 1..Len(shortnames) :
        /\ ownReferences[p] \in Seq(Pointer)
        /\ \A i \in 1..Len(ownReferences[p]) : ownReferences[p][i] \in 1..n
  BY OwnReferencesTypes DEF OwnersInv, OwnReferencesStored
<1> HIDE DEF n
<1>6. ASSUME NEW p \in 1..Len(shortnames), NEW r
      PROVE  Lists(ownReferences'[p], r)
               <=> Lists(ownReferences[p], r) \/ (p = Innermost /\ r = n + 1)
  <2>1. n + 1 \in Pointer
    BY <1>1 DEF Pointer, nullptr
  <2>2. p = Innermost => ownReferences'[p] = Append(ownReferences[p], n + 1)
    BY <1>3
  <2>3. p # Innermost => ownReferences'[p] = ownReferences[p]
    BY <1>3
  <2>4. Lists(Append(ownReferences[p], n + 1), r)
          <=> Lists(ownReferences[p], r) \/ r = n + 1
    BY <1>5, <2>1, AppendListed
  <2> QED
    BY <2>2, <2>3, <2>4
<1>7. TypeInv'
  OBVIOUS
<1>8. OwnReferencesStored'
  <2>1. ASSUME NEW p \in 1..Len(shortnames),
               NEW i \in 1..Len(ownReferences'[p])
        PROVE  ownReferences'[p][i] \in 1..(n + 1)
    <3>1. Lists(ownReferences'[p], ownReferences'[p][i])
      BY DEF Lists
    <3>2. \/ Lists(ownReferences[p], ownReferences'[p][i])
          \/ ownReferences'[p][i] = n + 1
      BY <1>6, <3>1
    <3> QED
      BY <1>1, <1>5, <3>2 DEF Lists
  <2> QED
    BY <1>1, <1>3, <2>1 DEF OwnReferencesStored
<1>9. ASSUME NEW r \in 1..(n + 1)
      PROVE  OwnerBefore(r)'
  <2>1. CASE r \in 1..n
    BY <1>1, <1>4, <2>1 DEF OwnerBefore
  <2>2. CASE r = n + 1 /\ depthElements = <<>>
    BY <1>2, <2>2 DEF OwnerBefore, Innermost
  <2>3. CASE r = n + 1 /\ depthElements # <<>>
    <3>1. /\ Innermost \in 1..Len(shortnames)
          /\ shortnames[Innermost].fileIndex = fileIndex
      BY <2>3, PathOfInnermost DEF ScopeInv
    <3>2. shortnames[Innermost].charOffset < pos
      BY <3>1 DEF ScopeInv, BehindPos
    <3> QED
      BY <1>1, <1>2, <2>3, <3>1, <3>2 DEF OwnerBefore
  <2> QED
    BY <1>1, <2>1, <2>2, <2>3
<1>10. ASSUME NEW p \in 1..Len(shortnames), NEW r \in 1..(n + 1)
       PROVE  OwnerListed(p, r)'
  <2>1. Lists(ownReferences'[p], r)
          <=> Lists(ownReferences[p], r) \/ (p = Innermost /\ r = n + 1)
    BY <1>6
  <2>2. CASE r \in 1..n
    <3>1. r # n + 1
      BY <1>1, <2>2
    <3>2. references'[r].owner = p <=> Lists(ownReferences[p], r)
      BY <1>1, <1>4, <2>2 DEF OwnerListed
    <3> QED
      BY <2>1, <3>1, <3>2 DEF OwnerListed, Lists
  <2>3. CASE r = n + 1
    <3>1. ~Lists(ownReferences[p], r)
      BY <1>1, <1>5, <2>3 DEF Lists
    <3>2. references'[r].owner = p <=> Lists(ownReferences'[p], r)
      BY <1>2, <2>1, <2>3, <3>1
    <3> QED
      BY <3>2 DEF OwnerListed, Lists
  <2> QED
    BY <1>1, <2>2, <2>3
<1>11. OwnersAgree'
  <2>1. (/\ \A r \in 1..Len(references) : OwnerBefore(r)
         /\ \A p \in 1..Len(shortnames), r \in 1..Len(references) :
              OwnerListed(p, r))'
    BY <1>1, <1>9, <1>10
  <2> QED
    BY <1>7, <2>1, OwnersAgreeParts, PTL
<1>12. OwnReferencesInOrder'
  <2>1. ASSUME NEW p \in 1..Len(shortnames),
               NEW i \in 1..Len(ownReferences'[p]),
               NEW j \in 1..Len(ownReferences'[p]), i < j
        PROVE  ownReferences'[p][i] < ownReferences'[p][j]
    <3> DEFINE own == ownReferences[p]
    <3>1. /\ own \in Seq(Pointer) /\ Len(own) \in Nat
          /\ \A k, m \in 1..Len(own) : k < m => own[k] < own[m]
          /\ \A k \in 1..Len(own) : own[k] \in 1..n
      BY <1>5, OwnReferencesTypes DEF OwnersInv, OwnReferencesInOrder
    <3>2. CASE p # Innermost
      BY <1>3, <2>1, <3>1, <3>2
    <3>3. CASE p = Innermost
      <4>1. ownReferences'[p] = Append(own, n + 1)
        BY <1>3, <3>3
      <4>2. n + 1 \in Pointer
        BY <1>1 DEF Pointer, nullptr
      <4> HIDE DEF own
      <4>3. /\ Len(Append(own, n + 1)) = Len(own) + 1
            /\ \A k \in 1..Len(own) : Append(own, n + 1)[k] = own[k]
            /\ Append(own, n + 1)[Len(own) + 1] = n + 1
        BY <3>1, <4>2, AppendProperties
      <4>4. i \in 1..(Len(own) + 1) /\ j \in 1..(Len(own) + 1)
        BY <4>1, <4>3
      <4>5. i \in 1..Len(own)
        BY <2>1, <3>1, <4>4
      <4>6. CASE j \in 1..Len(own)
        BY <2>1, <3>1, <4>1, <4>3, <4>5, <4>6
      <4>7. CASE j = Len(own) + 1
        <5>1. own[i] \in 1..n /\ own[i] < n + 1
          BY <1>1, <3>1, <4>5
        <5>2. ownReferences'[p][i] = own[i]
          BY <4>1, <4>3, <4>5
        <5>3. ownReferences'[p][j] = n + 1
          BY <4>1, <4>3, <4>7
        <5> QED
          BY <5>1, <5>2, <5>3
      <4>8. Len(own) \in Nat
        BY <3>1
      <4>9. j \in 1..Len(own) \/ j = Len(own) + 1
        BY <4>4, <4>8
      <4> QED
        BY <4>6, <4>7, <4>9
    <3> QED
      BY <3>2, <3>3
  <2> QED
    BY <1>3, <2>1 DEF OwnReferencesInOrder
<1> QED
  BY <1>8, <1>11, <1>12 DEF OwnersInv

(* OwnersInv holds at every tag of every file.                             *)
LEMMA OwnersInvInvariant == Spec => []OwnersInv
<1>1. Init => OwnersInv
  <2>1. Len(<<>>) = 0
    BY EmptySeq
  <2> QED
    BY <2>1 DEF Init, StorageInit, OwnersInv, OwnReferencesStored,
                  OwnReferencesInOrder, OwnersAgree
<1>2. TypeInv /\ TypeInv' /\ ScopeInv /\ OwnersInv /\ [Next]_vars => OwnersInv'
  <2> SUFFICES ASSUME TypeInv, TypeInv', ScopeInv, OwnersInv, [Next]_vars
               PROVE  OwnersInv'
    OBVIOUS
  <2>1. ASSUME NEW n \in Name, ShortName(n)
        PROVE  OwnersInv'
    BY <2>1, ShortNameOwnersInv
  <2>2. ASSUME NEW target \in Target, Reference(target)
        PROVE  OwnersInv'
    BY <2>2, ReferenceStores, StoreReferenceOwnersInv
  <2>3. CASE MisreadTag
    BY <2>3, ReferenceStores, StoreReferenceOwnersInv
  <2>4. CASE \/ \E uri \in Uri, empty \in BOOLEAN : BeginFile(uri, empty)
             \/ EndFile \/ SkipTag
             \/ \E tag \in Elements : OpenTag(tag)
             \/ CloseTag
             \/ UNCHANGED vars
    <3>1. UNCHANGED <<shortnames, references, ownReferences>>
      BY <2>4 DEF BeginFile, EndFile, SkipTag, OpenTag, CloseTag,
                  vars, storageVars
    <3> QED
      BY <3>1, NoElementOwnersInv
  <2> QED
    BY <2>1, <2>2, <2>3, <2>4 DEF Next
<1> QED
  BY <1>1, <1>2, TypeInvInvariant, ScopeInvInvariant, PTL DEF Spec

(* getOwner's answer makes sense: the offset it gives lies in the file of  *)
(* the reference and before it, and the lists of references by element     *)
(* never disagree with it.                                                 *)
THEOREM OwnersAgreeWithReferences == Spec => []OwnersAgree
<1>1. OwnersInv => OwnersAgree
  BY DEF OwnersInv
<1> QED
  BY <1>1, OwnersInvInvariant, PTL
=============================================================================
