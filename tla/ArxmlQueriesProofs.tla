------------------------ MODULE ArxmlQueriesProofs ------------------------
(***************************************************************************)
(* Proofs about the answers of ArxmlQueries, for any names, URIs and       *)
(* bounds.  They hold in every storage that the parser can fill: they      *)
(* follow from what ArxmlParserProofs and ArxmlListsProofs prove of it.    *)
(***************************************************************************)
EXTENDS ArxmlQueries, ArxmlListsProofs, FiniteSetTheorems

StorageInv == TypeInv /\ ScopeInv /\ ChildrenInv

(* The lists of a storage are as the parsing leaves them.                  *)
LEMMA StorageInvInvariant == Spec => []StorageInv
BY TypeInvInvariant, ScopeInvInvariant, ChildrenInvInvariant, PTL DEF StorageInv

-----------------------------------------------------------------------------
(* Elements.                                                               *)

(* Elements of the storage.                                                *)
LEMMA StoredElements ==
  ASSUME StorageInv
  PROVE  /\ shortnames \in Seq(ShortnameElement)
         /\ Len(shortnames) \in Nat
         /\ DOMAIN shortnames = 1..Len(shortnames)
         /\ \A p \in DOMAIN shortnames :
              /\ shortnames[p].name \in Name
              /\ shortnames[p].path \in Seq(Name)
              /\ getFullPath(shortnames[p]) \in Seq(Name) \ {<<>>}
              /\ shortnames[p].charOffset \in Nat
              /\ shortnames[p].fileIndex \in Nat
<1>1. shortnames \in Seq(ShortnameElement)
  BY DEF StorageInv, TypeInv, TypeOK, StorageTypeOK
<1>2. \A p \in 1..Len(shortnames) : /\ shortnames[p].name \in Name
                                    /\ shortnames[p].path \in Seq(Name)
                                    /\ shortnames[p].charOffset \in Nat
                                    /\ shortnames[p].fileIndex \in Nat
  BY ElementTypes DEF StorageInv
<1>3. \A p \in 1..Len(shortnames) :
        getFullPath(shortnames[p]) \in Seq(Name) \ {<<>>}
  <2>1. ASSUME NEW path \in Seq(Name), NEW name \in Name
        PROVE  Append(path, name) \in Seq(Name) /\ Append(path, name) # <<>>
    BY AppendProperties
  <2> QED
    BY <1>2, <2>1 DEF getFullPath
<1> QED
  BY <1>1, <1>2, <1>3, LenProperties

(* Full paths are equal just when paths and names are.                     *)
LEMMA SameFullPath ==
  ASSUME StorageInv, NEW p \in DOMAIN shortnames,
         NEW path \in Seq(Name), NEW name \in Name
  PROVE  getFullPath(shortnames[p]) = Append(path, name)
           <=> shortnames[p].path = path /\ shortnames[p].name = name
BY StoredElements, AppendInjective DEF getFullPath

(* The two indices of the container are unique.                            *)
LEMMA SameElement ==
  ASSUME StorageInv,
         NEW p \in DOMAIN shortnames, NEW q \in DOMAIN shortnames,
         shortnames[p].fileIndex = shortnames[q].fileIndex,
         \/ getFullPath(shortnames[p]) = getFullPath(shortnames[q])
         \/ shortnames[p].charOffset = shortnames[q].charOffset
  PROVE  p = q
BY StoredElements DEF StorageInv, ChildrenInv, NoDuplicates, Conflicts

(* The parent of an element that is not a root.                            *)
LEMMA ParentElement ==
  ASSUME StorageInv, NEW p \in DOMAIN shortnames
  PROVE  LET parent == shortnames[p].parent
         IN /\ parent = nullptr <=> shortnames[p].path = <<>>
            /\ parent # nullptr =>
                 /\ parent \in DOMAIN shortnames
                 /\ shortnames[parent].fileIndex = shortnames[p].fileIndex
                 /\ getFullPath(shortnames[parent]) = shortnames[p].path
<1> DEFINE parent == shortnames[p].parent
<1>1. /\ parent = nullptr <=> shortnames[p].path = <<>>
      /\ parent # nullptr =>
           /\ parent \in 1..(p - 1)
           /\ shortnames[parent].fileIndex = shortnames[p].fileIndex
           /\ shortnames[p].path = getFullPath(shortnames[parent])
  BY StoredElements DEF StorageInv, ScopeInv, ParentChain
<1>2. parent # nullptr => parent \in DOMAIN shortnames
  <2>1. Len(shortnames) \in Nat /\ p \in 1..Len(shortnames)
    BY StoredElements
  <2>2. parent # nullptr => parent \in 1..Len(shortnames)
    BY <1>1, <2>1
  <2> QED
    BY <2>2, StoredElements
<1> QED
  BY <1>1, <1>2

(* An element has children just when it is the parent of one.              *)
LEMMA HasChildren ==
  ASSUME StorageInv, NEW p \in DOMAIN shortnames
  PROVE  children[p] # <<>> <=> \E q \in DOMAIN shortnames : shortnames[q].parent = p
<1>1. p \in 1..Len(shortnames) /\ DOMAIN shortnames = 1..Len(shortnames)
  BY StoredElements
<1>2. /\ Len(children) = Len(shortnames)
      /\ children[p] \in Seq(Pointer)
      /\ Len(children[p]) \in Nat
      /\ DOMAIN children[p] = 1..Len(children[p])
  BY <1>1, ChildrenTypes DEF StorageInv
<1>3. \A q \in 1..Len(shortnames) :
        shortnames[q].parent = p <=> \E i \in DOMAIN children[p] : children[p][i] = q
  BY <1>1 DEF StorageInv, ChildrenInv, ChildrenAgree
<1>4. \A i \in 1..Len(children[p]) : children[p][i] \in 1..Len(shortnames)
  BY <1>1, <1>2 DEF StorageInv, ChildrenInv, ChildrenStored
<1>5. children[p] # <<>> <=> \E i \in 1..Len(children[p]) : TRUE
  BY <1>2, EmptySeq
<1> QED
  BY <1>1, <1>2, <1>3, <1>4, <1>5

(* There are finitely many elements.                                       *)
LEMMA StoredFinite ==
  ASSUME StorageInv, NEW elems \in SUBSET DOMAIN shortnames
  PROVE  IsFiniteSet(elems)
<1> DEFINE n == Len(shortnames)
<1>1. n \in Nat /\ DOMAIN shortnames = 1..n
  BY StoredElements
<1> HIDE DEF n
<1>2. IsFiniteSet(1..n)
  BY <1>1, FS_Interval
<1> QED
  BY <1>1, <1>2, FS_Subset

(* A set of elements has one in the first of their files.                  *)
LEMMA FirstFile ==
  ASSUME StorageInv, NEW elems \in SUBSET DOMAIN shortnames, elems # {}
  PROVE  \E p \in elems : \A q \in elems :
           shortnames[p].fileIndex <= shortnames[q].fileIndex
<1> DEFINE files == {shortnames[p].fileIndex : p \in elems}
           R == OpToRel(<, Nat)
<1>1. /\ files \subseteq Nat
      /\ files # {}
  BY StoredElements
<1>2. IsWellFoundedOn(R, Nat)
  BY NatLessThanWellFounded
<1>3. \A x, y \in Nat : <<x, y>> \in R <=> x < y
  BY DEF OpToRel
<1>4. PICK file \in files : \A other \in files : ~(<<other, file>> \in R)
  <2> HIDE DEF files, R
  <2> QED
    BY <1>1, <1>2, WFMin
<1>5. \A other \in files : file <= other
  <2> HIDE DEF R
  <2>1. \A other \in files : ~(other < file)
    BY <1>1, <1>3, <1>4
  <2> HIDE DEF files
  <2> QED
    BY <1>1, <1>4, <2>1
<1> QED
  BY <1>4, <1>5

-----------------------------------------------------------------------------
(* getParent.                                                              *)

(* Above an element there is its parent, or nothing above a root.          *)
LEMMA ParentFound ==
  ASSUME StorageInv, NEW p \in DOMAIN shortnames
  PROVE  getParent(getFullPath(shortnames[p]), shortnames[p].fileIndex) =
           IF shortnames[p].parent = nullptr THEN Found({})
           ELSE Found({[TreeElement(shortnames[p].parent, TRUE) EXCEPT !.cState = 1]})
<1> DEFINE path == getFullPath(shortnames[p])
           file == shortnames[p].fileIndex
           equal == {q \in DOMAIN shortnames :
                       /\ getFullPath(shortnames[q]) = path
                       /\ shortnames[q].fileIndex = file}
<1>1. equal = {p}
  BY SameElement
<1>2. getShortnameByFullPath(path, file) = Found(p)
  <2>1. (CHOOSE q \in equal : TRUE) = p /\ equal # {}
    BY <1>1
  <2> QED
    BY <2>1 DEF getShortnameByFullPath
<1>3. Found(p).outcome = "found" /\ Found(p).value = p
  BY DEF Found
<1> HIDE DEF path, file
<1> QED
  BY <1>2, <1>3 DEF getParent, path, file

-----------------------------------------------------------------------------
(* getChildren.                                                            *)

(* Of the elements with the same name those in the first file.             *)
FirstOf(elems, p) ==
  \A q \in SameName(elems, p) : shortnames[p].fileIndex <= shortnames[q].fileIndex

Marked(elems, p) == TreeElement(p, Cardinality(SameName(elems, p)) = 1)

(* The children of a path, with their fold markers.                        *)
LEMMA ChildrenMarked ==
  ASSUME NEW path
  PROVE  LET elems == getShortnamesByPathOnly(path)
         IN /\ getChildren(path, FALSE) =
                 {Marked(elems, p) : p \in {q \in elems : FirstOf(elems, q)}}
            /\ getChildren(path, TRUE) = {TreeElement(p, TRUE) : p \in elems}
BY DEF getChildren, FirstOf, Marked

(* Every name below a path has an element in a first file.                 *)
LEMMA FirstOfName ==
  ASSUME StorageInv, NEW path, NEW p \in getShortnamesByPathOnly(path)
  PROVE  \E q \in getShortnamesByPathOnly(path) :
           /\ FirstOf(getShortnamesByPathOnly(path), q)
           /\ shortnames[q].name = shortnames[p].name
<1> DEFINE elems == getShortnamesByPathOnly(path)
           same == SameName(elems, p)
<1>1. same \in SUBSET DOMAIN shortnames /\ same # {}
  BY DEF SameName, getShortnamesByPathOnly
<1>2. PICK q \in same : \A r \in same :
               shortnames[q].fileIndex <= shortnames[r].fileIndex
  BY <1>1, FirstFile
<1>3. q \in elems /\ shortnames[q].name = shortnames[p].name
  BY <1>2 DEF SameName
<1>4. SameName(elems, q) = same
  BY <1>3 DEF SameName
<1> QED
  BY <1>2, <1>3, <1>4 DEF FirstOf

(* Below a path that is defined once no name is defined twice.             *)
LEMMA OnceBelowUnique ==
  ASSUME StorageInv, NEW path \in Paths,
         Cardinality(getShortnamesByFullPath(path)) = 1,
         NEW p \in getShortnamesByPathOnly(path)
  PROVE  SameName(getShortnamesByPathOnly(path), p) = {p}
<1> DEFINE elems == getShortnamesByPathOnly(path)
           targets == getShortnamesByFullPath(path)
<1>1. \E x : targets = {x}
  <2>1. IsFiniteSet(targets)
    BY StoredFinite DEF getShortnamesByFullPath
  <2> QED
    BY <2>1, FS_Singleton
<1>2. PICK x : targets = {x}
  BY <1>1
<1>3. path # <<>>
  <2>1. x \in DOMAIN shortnames /\ getFullPath(shortnames[x]) = path
    BY <1>2 DEF getShortnamesByFullPath
  <2> QED
    BY <2>1, StoredElements
<1>4. ASSUME NEW q \in elems
      PROVE  shortnames[q].fileIndex = shortnames[x].fileIndex
  <2> DEFINE parent == shortnames[q].parent
  <2>1. q \in DOMAIN shortnames /\ shortnames[q].path = path
    BY DEF getShortnamesByPathOnly
  <2>2. /\ parent \in DOMAIN shortnames
        /\ shortnames[parent].fileIndex = shortnames[q].fileIndex
        /\ getFullPath(shortnames[parent]) = path
    BY <1>3, <2>1, ParentElement
  <2>3. parent \in targets
    BY <2>2 DEF getShortnamesByFullPath
  <2>4. parent = x
    BY <1>2, <2>3
  <2> QED
    BY <2>2, <2>4
<1>5. ASSUME NEW q \in SameName(elems, p)
      PROVE  q = p
  <2>1. /\ q \in elems /\ shortnames[q].name = shortnames[p].name
        /\ p \in DOMAIN shortnames /\ q \in DOMAIN shortnames
        /\ shortnames[p].path = path /\ shortnames[q].path = path
    BY DEF SameName, getShortnamesByPathOnly
  <2>2. getFullPath(shortnames[p]) = getFullPath(shortnames[q])
    BY <2>1 DEF getFullPath
  <2> QED
    BY <1>4, <2>1, <2>2, SameElement
<1>6. p \in SameName(elems, p)
  BY DEF SameName
<1> QED
  BY <1>5, <1>6

(* The tree view has each name below a path once.                          *)
LEMMA ChildrenOnceHolds == StorageInv => ChildrenOnce
<1> SUFFICES ASSUME StorageInv, NEW path \in Paths
             PROVE  /\ {e.name : e \in getChildren(path, FALSE)}
                          = {shortnames[p].name : p \in getShortnamesByPathOnly(path)}
                    /\ \A d, e \in getChildren(path, FALSE) :
                         d.name = e.name => d = e
                    /\ Cardinality(getShortnamesByFullPath(path)) = 1 =>
                         getChildren(path, TRUE) = getChildren(path, FALSE)
  BY DEF ChildrenOnce
<1> DEFINE elems == getShortnamesByPathOnly(path)
           firsts == {q \in elems : FirstOf(elems, q)}
<1>1. /\ getChildren(path, FALSE) = {Marked(elems, p) : p \in firsts}
      /\ getChildren(path, TRUE) = {TreeElement(p, TRUE) : p \in elems}
  BY ChildrenMarked
<1>2. \A p : Marked(elems, p).name = shortnames[p].name
  BY DEF Marked, TreeElement
<1>3. \A p \in elems : \E q \in firsts : shortnames[q].name = shortnames[p].name
  BY FirstOfName
<1>4. {e.name : e \in getChildren(path, FALSE)}
        = {shortnames[p].name : p \in elems}
  <2> DEFINE answer == getChildren(path, FALSE)
  <2>1. ASSUME NEW e \in answer
        PROVE  \E p \in elems : e.name = shortnames[p].name
    <3>1. PICK p \in firsts : e = Marked(elems, p)
      BY <1>1
    <3> QED
      BY <1>2, <3>1
  <2>2. ASSUME NEW p \in elems
        PROVE  \E e \in answer : e.name = shortnames[p].name
    <3>1. PICK q \in firsts : shortnames[q].name = shortnames[p].name
      BY <1>3
    <3>2. Marked(elems, q) \in answer
      BY <1>1
    <3> QED
      BY <1>2, <3>1, <3>2
  <2> HIDE DEF answer, elems
  <2>3. {e.name : e \in answer} = {shortnames[p].name : p \in elems}
    BY <2>1, <2>2
  <2> QED
    BY <2>3 DEF answer
<1>5. ASSUME NEW d \in getChildren(path, FALSE), NEW e \in getChildren(path, FALSE),
             d.name = e.name
      PROVE  d = e
  <2>1. PICK p \in firsts, q \in firsts : d = Marked(elems, p) /\ e = Marked(elems, q)
    BY <1>1
  <2>2. shortnames[p].name = shortnames[q].name
    BY <1>2, <1>5, <2>1
  <2>3. /\ p \in DOMAIN shortnames /\ q \in DOMAIN shortnames
        /\ shortnames[p].path = path /\ shortnames[q].path = path
    BY DEF getShortnamesByPathOnly
  <2>4. getFullPath(shortnames[p]) = getFullPath(shortnames[q])
    BY <2>2, <2>3 DEF getFullPath
  <2>5. q \in SameName(elems, p) /\ p \in SameName(elems, q)
    BY <2>2 DEF SameName
  <2>6. shortnames[p].fileIndex = shortnames[q].fileIndex
    <3>1. /\ shortnames[p].fileIndex <= shortnames[q].fileIndex
          /\ shortnames[q].fileIndex <= shortnames[p].fileIndex
      BY <2>5 DEF FirstOf
    <3> QED
      BY <2>3, <3>1, StoredElements
  <2>7. p = q
    BY <2>3, <2>4, <2>6, SameElement
  <2> QED
    BY <2>1, <2>7
<1>6. ASSUME Cardinality(getShortnamesByFullPath(path)) = 1
      PROVE  getChildren(path, TRUE) = getChildren(path, FALSE)
  <2>1. \A p \in elems : SameName(elems, p) = {p}
    BY <1>6, OnceBelowUnique
  <2>2. \A p \in elems : p \in firsts
    <3>1. \A p \in elems : shortnames[p].fileIndex <= shortnames[p].fileIndex
      BY StoredElements DEF getShortnamesByPathOnly
    <3> QED
      BY <2>1, <3>1 DEF FirstOf
  <2>3. \A p \in elems : Marked(elems, p) = TreeElement(p, TRUE)
    BY <2>1, FS_Singleton DEF Marked
  <2>4. firsts = elems
    BY <2>2
  <2> HIDE DEF elems, firsts
  <2> QED
    BY <1>1, <2>3, <2>4
<1> QED
  BY <1>4, <1>5, <1>6

(* A node that can be unfolded has something below it, and one that cannot *)
(* has not, when its name is defined in one file.                          *)
LEMMA FoldMarkerHolds == StorageInv => FoldMarker
<1> SUFFICES ASSUME StorageInv, NEW path \in Paths,
                    NEW e \in getChildren(path, FALSE)
             PROVE  LET below == getChildren(Append(path, e.name), e.unique)
                    IN /\ e.cState = 1 => below # {}
                       /\ e.unique => (e.cState = 1 <=> below # {})
  BY DEF FoldMarker
<1> DEFINE elems == getShortnamesByPathOnly(path)
           full == Append(path, e.name)
           lower == getShortnamesByPathOnly(full)
           below == getChildren(full, e.unique)
<1>1. PICK p \in elems : e = Marked(elems, p)
  BY ChildrenMarked
<1>2. /\ e.name = shortnames[p].name
      /\ e.unique = (Cardinality(SameName(elems, p)) = 1)
      /\ e.cState = 1 <=> children[p] # <<>>
  BY <1>1 DEF Marked, TreeElement
<1>3. /\ p \in DOMAIN shortnames /\ shortnames[p].path = path
      /\ path \in Seq(Name) /\ e.name \in Name
  BY <1>2, StoredElements DEF getShortnamesByPathOnly
<1>4. e.unique \in BOOLEAN
  BY <1>2
<1>5. below # {} <=> lower # {}
  <2>1. CASE e.unique = TRUE
    <3>1. below = {TreeElement(q, TRUE) : q \in lower}
      BY <2>1, ChildrenMarked
    <3> HIDE DEF below, lower
    <3> QED
      BY <3>1
  <2>2. CASE e.unique = FALSE
    <3>1. below = {Marked(lower, q) : q \in {r \in lower : FirstOf(lower, r)}}
      BY <2>2, ChildrenMarked
    <3>2. lower # {} => \E q \in lower : FirstOf(lower, q)
      BY FirstOfName
    <3> QED
      BY <3>1, <3>2
  <2> QED
    BY <1>4, <2>1, <2>2
<1>6. ASSUME children[p] # <<>>
      PROVE  lower # {}
  <2>1. PICK q \in DOMAIN shortnames : shortnames[q].parent = p
    BY <1>3, <1>6, HasChildren
  <2>2. shortnames[q].path = getFullPath(shortnames[p])
    <3>1. p # nullptr
      BY <1>3, StoredElements DEF nullptr
    <3> QED
      BY <2>1, <3>1, ParentElement
  <2>3. shortnames[q].path = full
    BY <1>2, <1>3, <2>2 DEF getFullPath
  <2> QED
    BY <2>1, <2>3 DEF getShortnamesByPathOnly
<1>7. ASSUME e.unique, lower # {}
      PROVE  children[p] # <<>>
  <2>1. PICK q \in DOMAIN shortnames : shortnames[q].path = full
    BY <1>7 DEF getShortnamesByPathOnly
  <2> DEFINE parent == shortnames[q].parent
  <2>2. full # <<>>
    BY <1>3, AppendProperties
  <2>3. parent \in DOMAIN shortnames /\ getFullPath(shortnames[parent]) = full
    BY <2>1, <2>2, ParentElement
  <2>4. shortnames[parent].path = path /\ shortnames[parent].name = e.name
    BY <1>3, <2>3, SameFullPath
  <2>5. parent \in SameName(elems, p) /\ p \in SameName(elems, p)
    BY <1>2, <1>3, <2>3, <2>4 DEF SameName, getShortnamesByPathOnly
  <2>6. \E x : SameName(elems, p) = {x}
    <3>1. IsFiniteSet(SameName(elems, p))
      BY StoredFinite DEF SameName, getShortnamesByPathOnly
    <3>2. Cardinality(SameName(elems, p)) = 1
      BY <1>2, <1>7
    <3> QED
      BY <3>1, <3>2, FS_Singleton
  <2>7. parent = p
    BY <2>5, <2>6
  <2> QED
    BY <1>3, <2>1, <2>7, HasChildren
<1> HIDE DEF below, lower
<1>8. /\ e.cState = 1 => below # {}
      /\ e.unique => (e.cState = 1 <=> below # {})
  BY <1>2, <1>5, <1>6, <1>7
<1> QED
  BY <1>8 DEF below

(* getParent goes up where getChildren has gone down.                      *)
LEMMA ParentOfChildHolds == StorageInv => ParentOfChild
<1> SUFFICES ASSUME StorageInv, NEW path \in Paths,
                    NEW p \in getShortnamesByPathOnly(path)
             PROVE  LET up == getParent(getFullPath(shortnames[p]),
                                        shortnames[p].fileIndex)
                    IN /\ up.outcome = "found"
                       /\ up.value = {} <=> path = <<>>
                       /\ \A parent \in up.value :
                            /\ Append(parent.path, parent.name) = path
                            /\ parent.place[1] = shortnames[p].fileIndex
                            /\ \A e \in getChildren(parent.path, FALSE) :
                                 e.place = parent.place => e.cState = parent.cState
  BY DEF ParentOfChild
<1> DEFINE up == getParent(getFullPath(shortnames[p]), shortnames[p].fileIndex)
           parent == shortnames[p].parent
           above == [TreeElement(parent, TRUE) EXCEPT !.cState = 1]
<1>1. p \in DOMAIN shortnames /\ shortnames[p].path = path
  BY DEF getShortnamesByPathOnly
<1>2. up = IF parent = nullptr THEN Found({}) ELSE Found({above})
  BY <1>1, ParentFound
<1>3. /\ parent = nullptr <=> path = <<>>
      /\ parent # nullptr =>
           /\ parent \in DOMAIN shortnames
           /\ shortnames[parent].fileIndex = shortnames[p].fileIndex
           /\ getFullPath(shortnames[parent]) = path
  BY <1>1, ParentElement
<1>4. CASE parent = nullptr
  <2>1. up.outcome = "found" /\ up.value = {}
    BY <1>2, <1>4 DEF Found
  <2> QED
    BY <1>3, <1>4, <2>1
<1>5. CASE parent # nullptr
  <2>1. up.outcome = "found" /\ up.value = {above}
    BY <1>2, <1>5 DEF Found
  <2>2. /\ above.path = shortnames[parent].path
        /\ above.name = shortnames[parent].name
        /\ above.place = <<shortnames[parent].fileIndex,
                           shortnames[parent].charOffset>>
        /\ above.cState = 1
    BY DEF TreeElement, Place
  <2> HIDE DEF above, parent, up
  <2>3. Append(above.path, above.name) = path
    BY <1>3, <1>5, <2>2 DEF getFullPath
  <2>4. above.place[1] = shortnames[p].fileIndex
    BY <1>3, <1>5, <2>2
  <2>5. ASSUME NEW e \in getChildren(above.path, FALSE), e.place = above.place
        PROVE  e.cState = above.cState
    <3>1. PICK q \in getShortnamesByPathOnly(above.path) :
            e = Marked(getShortnamesByPathOnly(above.path), q)
      BY ChildrenMarked
    <3>2. /\ e.place = <<shortnames[q].fileIndex, shortnames[q].charOffset>>
          /\ e.cState = 1 <=> children[q] # <<>>
      BY <3>1 DEF Marked, TreeElement, Place
    <3>3. q \in DOMAIN shortnames
      BY DEF getShortnamesByPathOnly
    <3>4. q = parent
      BY <1>3, <1>5, <2>2, <2>5, <3>2, <3>3, SameElement
    <3>5. children[q] # <<>>
      BY <1>1, <3>3, <3>4, HasChildren DEF parent
    <3> QED
      BY <2>2, <3>2, <3>5
  <2> QED
    BY <1>3, <1>5, <2>1, <2>3, <2>4, <2>5 DEF up
<1> QED
  BY <1>4, <1>5

-----------------------------------------------------------------------------
(* References.  The text of a tag ends before that of the next one begins: *)
(* an offset lies in at most one reference of a file.                      *)

ReferencesApart ==
  /\ \A r \in 1..Len(references) :
       /\ references[r].fileIndex <= fileIndex
       /\ references[r].fileIndex = fileIndex =>
            references[r].charOffset + TagWidth <= pos
       /\ PathWidth(references[r].targetPath) < TagWidth
  /\ \A r, s \in 1..Len(references) :
       /\ r < s
       /\ references[r].fileIndex = references[s].fileIndex
       => references[r].charOffset + TagWidth <= references[s].charOffset

(* Tags that add no reference go on in the file.                           *)
LEMMA NoReferenceApart ==
  ASSUME TypeInv, ReferencesApart, UNCHANGED <<references, fileIndex>>,
         pos' \in Nat, pos <= pos'
  PROVE  ReferencesApart'
<1>1. pos \in Nat
  BY DEF TypeInv, TypeOK
<1>2. \A r \in 1..Len(references) : references[r].charOffset \in Nat
  BY ReferenceTypes
<1>3. TagWidth \in Nat
  BY WidthAssumption
<1> QED
  BY <1>1, <1>2, <1>3 DEF ReferencesApart

(* A reference stands behind those of its file that came before.           *)
LEMMA ReferenceApart ==
  ASSUME TypeInv, ReferencesApart, NEW target \in Seq(Name),
         PathWidth(target) < TagWidth, StoreReference(target)
  PROVE  ReferencesApart'
<1> DEFINE n == Len(references)
<1>1. /\ n \in Nat /\ Len(references') = n + 1
      /\ \A r \in 1..n : references'[r] = references[r]
  BY ReferenceStorage
<1>2. /\ references'[n + 1].targetPath = target
      /\ references'[n + 1].charOffset = pos
      /\ references'[n + 1].fileIndex = fileIndex
  <2>1. references'[n + 1] =
          [targetPath |-> target, charOffset |-> pos,
           owner |-> Innermost, fileIndex |-> fileIndex]
    BY ReferenceStorage
  <2> QED
    BY <2>1
<1>3. /\ pos \in Nat /\ pos' = pos + TagWidth
      /\ fileIndex \in Nat /\ fileIndex' = fileIndex
  BY ElementTypes DEF TypeInv, TypeOK, StoreReference, NextTag, fileIndex
<1>4. TagWidth \in Nat
  BY WidthAssumption
<1>5. \A r \in 1..n : references[r].charOffset \in Nat
  BY ReferenceTypes
<1> HIDE DEF n
<1>6. \A r \in 1..n :
        /\ references[r].fileIndex <= fileIndex
        /\ references[r].fileIndex = fileIndex =>
             references[r].charOffset + TagWidth <= pos
        /\ PathWidth(references[r].targetPath) < TagWidth
  BY DEF ReferencesApart, n
<1>7. \A r, s \in 1..n :
        /\ r < s
        /\ references[r].fileIndex = references[s].fileIndex
        => references[r].charOffset + TagWidth <= references[s].charOffset
  BY DEF ReferencesApart, n
<1>8. \A r \in 1..(n + 1) : r \in 1..n \/ r = n + 1
  BY <1>1
<1>9. ASSUME NEW r \in 1..(n + 1)
      PROVE  /\ references'[r].fileIndex <= fileIndex'
             /\ references'[r].fileIndex = fileIndex' =>
                  references'[r].charOffset + TagWidth <= pos'
             /\ PathWidth(references'[r].targetPath) < TagWidth
  <2>1. CASE r \in 1..n
    BY <1>1, <1>3, <1>4, <1>5, <1>6, <2>1
  <2>2. CASE r = n + 1
    BY <1>2, <1>3, <1>4, <2>2
  <2> QED
    BY <1>8, <2>1, <2>2
<1>10. ASSUME NEW r \in 1..(n + 1), NEW s \in 1..(n + 1), r < s,
              references'[r].fileIndex = references'[s].fileIndex
       PROVE  references'[r].charOffset + TagWidth <= references'[s].charOffset
  <2>1. r \in 1..n
    BY <1>1, <1>10
  <2>2. CASE s \in 1..n
    BY <1>1, <1>7, <1>10, <2>1, <2>2
  <2>3. CASE s = n + 1
    BY <1>1, <1>2, <1>6, <1>10, <2>1, <2>3
  <2> QED
    BY <1>8, <2>2, <2>3
<1> QED
  BY <1>1, <1>9, <1>10 DEF ReferencesApart

(* ReferencesApart holds at every tag of every file.                       *)
LEMMA ReferencesApartInvariant == Spec => []ReferencesApart
<1>1. Init => ReferencesApart
  <2>1. Len(<<>>) = 0
    BY EmptySeq
  <2> QED
    BY <2>1 DEF Init, StorageInit, ReferencesApart
<1>2. TypeInv /\ ReferencesApart /\ [Next]_vars => ReferencesApart'
  <2> SUFFICES ASSUME TypeInv, ReferencesApart, [Next]_vars
               PROVE  ReferencesApart'
    OBVIOUS
  <2>1. ASSUME NEW uri \in Uri, NEW empty, BeginFile(uri, empty)
        PROVE  ReferencesApart'
    <3>1. references' = references /\ fileIndex \in Nat
      BY <2>1, ElementTypes DEF BeginFile
    <3>2. fileIndex' = fileIndex + 1
      <4>1. URIs \in Seq(Uri) /\ URIs' = Append(URIs, uri)
        BY <2>1 DEF BeginFile, addFileIndex, TypeInv, TypeOK, StorageTypeOK
      <4> QED
        BY <4>1, AppendProperties DEF fileIndex
    <3>3. \A r \in 1..Len(references) :
            references[r].fileIndex \in Nat /\ references[r].fileIndex <= fileIndex
      BY ReferenceTypes DEF ReferencesApart, Pointer
    <3>4. \A r \in 1..Len(references) :
            /\ references[r].fileIndex <= fileIndex'
            /\ references[r].fileIndex # fileIndex'
      BY <3>1, <3>2, <3>3
    <3> QED
      BY <3>1, <3>4 DEF ReferencesApart
  <2>2. ASSUME NEW target \in Target, Reference(target)
        PROVE  ReferencesApart'
    BY <2>2, ReferenceStores, WidthAssumption, ReferenceApart
  <2>3. CASE MisreadTag
    <3>1. PathWidth(<<>>) < TagWidth
      BY WidthAssumption DEF PathWidth
    <3> QED
      BY <2>3, <3>1, ReferenceStores, ReferenceApart
  <2>4. CASE \/ EndFile \/ SkipTag \/ CloseTag
             \/ \E tag \in Elements : OpenTag(tag)
             \/ \E n \in Name : ShortName(n)
             \/ UNCHANGED vars
    <3>1. UNCHANGED <<references, URIs>>
      BY <2>4 DEF EndFile, SkipTag, CloseTag, OpenTag, ShortName, vars, storageVars
    <3>2. pos' = pos \/ NextTag
      BY <2>4 DEF EndFile, SkipTag, CloseTag, OpenTag, ShortName, vars, parserVars
    <3>3. pos \in Nat
      BY DEF TypeInv, TypeOK
    <3>4. pos' \in Nat /\ pos <= pos'
      BY <3>2, <3>3, WidthAssumption DEF NextTag
    <3> QED
      BY <3>1, <3>4, NoReferenceApart DEF fileIndex
  <2> QED
    BY <2>1, <2>2, <2>3, <2>4 DEF Next
<1> QED
  BY <1>1, <1>2, TypeInvInvariant, PTL DEF Spec

-----------------------------------------------------------------------------
(* What a lookup has found.                                                *)
LEMMA FoundParts ==
  ASSUME NEW value
  PROVE  Found(value).outcome = "found" /\ Found(value).value = value
BY DEF Found

(* Lookups by offset.                                                      *)

QueryInv == StorageInv /\ OwnersInv /\ NewlineInv /\ ReferencesApart

(* And so are its references.                                              *)
LEMMA QueryInvInvariant == Spec => []QueryInv
BY StorageInvInvariant, OwnersInvInvariant, NewlineInvInvariant,
   ReferencesApartInvariant, PTL DEF QueryInv

(* References of the storage.                                              *)
LEMMA StoredReferences ==
  ASSUME QueryInv
  PROVE  /\ DOMAIN references = 1..Len(references)
         /\ Len(references) \in Nat
         /\ \A r \in DOMAIN references :
              /\ references[r].targetPath \in Seq(Name)
              /\ references[r].charOffset \in Nat
              /\ references[r].owner \in Nat
              /\ references[r].fileIndex \in DOMAIN newlineOffsets
              /\ PathWidth(references[r].targetPath) < TagWidth
<1>1. references \in Seq(ReferenceElement) /\ newlineOffsets \in Seq(Pointer)
  BY DEF QueryInv, StorageInv, TypeInv, TypeOK, StorageTypeOK
<1>2. /\ DOMAIN references = 1..Len(references)
      /\ Len(references) \in Nat
      /\ DOMAIN newlineOffsets = 1..Len(newlineOffsets)
  BY <1>1, LenProperties
<1>3. \A r \in 1..Len(references) : references[r] \in ReferenceElement
  BY <1>1, ElementOfSeq
<1>4. \A r \in 1..Len(references) :
        references[r].fileIndex \in 1..Len(newlineOffsets)
  BY DEF QueryInv, NewlineInv, HasNewlines
<1>5. \A r \in 1..Len(references) : PathWidth(references[r].targetPath) < TagWidth
  BY DEF QueryInv, ReferencesApart
<1> QED
  BY <1>2, <1>3, <1>4, <1>5 DEF ReferenceElement, Path

(* The width of a path: its names and the slashes between them.            *)
LEMMA WidthOfPath ==
  ASSUME NEW path \in Seq(Name)
  PROVE  /\ PathWidth(path) \in Nat
         /\ path # <<>> =>
              /\ Len(path) \in Nat \ {0}
              /\ PathWidth(path) = Len(path) * (NameWidth + 1) - 1
<1>1. NameWidth \in Nat \ {0} /\ Len(path) \in Nat
  BY StorageAssumption, LenProperties
<1>2. path # <<>> => Len(path) > 0
  BY <1>1, EmptySeq
<1> DEFINE n == Len(path)
<1>3. \A w \in Nat : n > 0 => n * (w + 1) - 1 \in Nat
  <2> HIDE DEF n
  <2>1. ASSUME NEW w \in Nat, n > 0
        PROVE  n * (w + 1) >= w + 1
    <3>1. n \in Nat
      BY <1>1 DEF n
    <3> QED
      BY <2>1, <3>1
  <2>2. n \in Nat
    BY <1>1 DEF n
  <2>3. \A w \in Nat : n * (w + 1) \in Nat
    BY <2>2
  <2> QED
    BY <2>1, <2>2, <2>3
<1> QED
  BY <1>1, <1>2, <1>3 DEF PathWidth

(* A cursor in a reference is in that one alone.                           *)
LEMMA ReferenceAtCursor ==
  ASSUME QueryInv, NEW r \in DOMAIN references, NEW offset \in Cursors(r)
  PROVE  getReferenceByOffset(offset, references[r].fileIndex) = Found(r)
<1> DEFINE file == references[r].fileIndex
           covers(s) == offset \in references[s].charOffset
             ..(references[s].charOffset + PathWidth(references[s].targetPath))
           matching == {s \in DOMAIN references :
                          references[s].fileIndex = file /\ covers(s)}
<1>1. r \in matching
  BY DEF Cursors, EndOf
<1>2. ASSUME NEW s \in matching
      PROVE  s = r
  <2>1. /\ r \in 1..Len(references) /\ s \in 1..Len(references)
        /\ Len(references) \in Nat
        /\ references[s].fileIndex = file
    BY StoredReferences
  <2> DEFINE offr == references[r].charOffset
             offs == references[s].charOffset
             endr == offr + PathWidth(references[r].targetPath)
             ends == offs + PathWidth(references[s].targetPath)
  <2>2. /\ offr \in Nat /\ offs \in Nat
        /\ endr \in Nat /\ ends \in Nat
        /\ endr < offr + TagWidth /\ ends < offs + TagWidth
    <3>1. /\ PathWidth(references[r].targetPath) \in Nat
          /\ PathWidth(references[s].targetPath) \in Nat
      BY StoredReferences, WidthOfPath
    <3>2. /\ PathWidth(references[r].targetPath) < TagWidth
          /\ PathWidth(references[s].targetPath) < TagWidth
          /\ offr \in Nat /\ offs \in Nat
      BY StoredReferences
    <3> QED
      BY <3>1, <3>2, WidthAssumption
  <2>3. offset \in offr..endr /\ offset \in offs..ends
    BY <1>1
  <2>4. /\ r < s => offr + TagWidth <= offs
        /\ s < r => offs + TagWidth <= offr
    BY <2>1 DEF QueryInv, ReferencesApart
  <2> HIDE DEF offr, offs, endr, ends
  <2> QED
    BY <2>1, <2>2, <2>3, <2>4, WidthAssumption
<1>3. matching = {r}
  BY <1>1, <1>2
<1>4. r <= r
  BY StoredReferences
<1>5. Min(matching) = r /\ matching # {}
  BY <1>3, <1>4 DEF Min
<1> QED
  BY <1>5 DEF getReferenceByOffset

(* A reference begins within itself.                                       *)
LEMMA CursorAtStart ==
  ASSUME QueryInv, NEW r \in DOMAIN references
  PROVE  references[r].charOffset \in Cursors(r) /\ EndOf(r) \in Cursors(r)
<1>1. /\ references[r].charOffset \in Nat
      /\ PathWidth(references[r].targetPath) \in Nat
  BY StoredReferences, WidthOfPath
<1> QED
  BY <1>1 DEF Cursors, EndOf

(* At the offset of an element that element is found.                      *)
LEMMA NameAtItsOffset ==
  ASSUME StorageInv, NEW p \in DOMAIN shortnames
  PROVE  getShortnameByOffset(shortnames[p].charOffset, shortnames[p].fileIndex)
           = Found(p)
<1> DEFINE upTo(q) == UpTo(shortnames[q].fileIndex, shortnames[q].charOffset)
<1>1. \A q \in DOMAIN shortnames :
        shortnames[q].fileIndex \in Nat /\ shortnames[q].charOffset \in Nat
  BY StoredElements
<1>2. p \in upTo(p)
  BY <1>1 DEF UpTo
<1>3. ASSUME NEW q \in upTo(p), \A s \in upTo(p) : s \in upTo(q)
      PROVE  q = p
  <2>1. q \in DOMAIN shortnames /\ p \in upTo(q)
    BY <1>2, <1>3 DEF UpTo
  <2>2. /\ shortnames[q].fileIndex = shortnames[p].fileIndex
        /\ shortnames[q].charOffset = shortnames[p].charOffset
    BY <1>1, <1>3, <2>1 DEF UpTo
  <2> QED
    BY <2>1, <2>2, SameElement
<1>4. LastOf(upTo(p)) = p
  BY <1>2, <1>3 DEF LastOf
<1>5. shortnames[p].charOffset \in
        shortnames[p].charOffset..(shortnames[p].charOffset + NameWidth + 1)
  BY <1>1, StorageAssumption
<1> QED
  BY <1>2, <1>4, <1>5 DEF getShortnameByOffset

(* The nearest name before an offset is not before one that is.            *)
LEMMA NearestBefore ==
  ASSUME StorageInv, NEW p \in DOMAIN shortnames,
         NEW offset \in Nat, shortnames[p].charOffset <= offset
  PROVE  \E q \in DOMAIN shortnames :
           /\ getLastShortnameByOffset(offset, shortnames[p].fileIndex) = Found(q)
           /\ shortnames[q].fileIndex = shortnames[p].fileIndex
           /\ shortnames[p].charOffset <= shortnames[q].charOffset
<1> DEFINE file == shortnames[p].fileIndex
           ofFile == {q \in UpTo(file, offset) : shortnames[q].fileIndex = file}
           offsets == {shortnames[q].charOffset : q \in ofFile}
           last == LastOf(ofFile)
<1>1. \A q \in DOMAIN shortnames :
        shortnames[q].fileIndex \in Nat /\ shortnames[q].charOffset \in Nat
  BY StoredElements
<1>2. \A q : q \in ofFile <=> /\ q \in DOMAIN shortnames
                              /\ shortnames[q].fileIndex = file
                              /\ shortnames[q].charOffset <= offset
  BY <1>1 DEF UpTo
<1>3. p \in ofFile
  BY <1>2
<1>4. PICK m \in ofFile : \A q \in ofFile :
             shortnames[q].charOffset <= shortnames[m].charOffset
  <2>1. offsets \in SUBSET (0..offset) /\ offsets # {}
    BY <1>1, <1>2, <1>3
  <2>2. \E k \in offsets : \A i \in offsets : i <= k
    <3> HIDE DEF offsets
    <3> QED
      BY <2>1, Greatest
  <2> QED
    BY <2>2
<1>5. \A q, s \in ofFile :
        q \in UpTo(shortnames[s].fileIndex, shortnames[s].charOffset)
          <=> shortnames[q].charOffset <= shortnames[s].charOffset
  BY <1>1, <1>2 DEF UpTo
<1> HIDE DEF ofFile
<1>6. /\ last \in ofFile
      /\ p \in UpTo(shortnames[last].fileIndex, shortnames[last].charOffset)
  <2>1. \E s \in ofFile : \A q \in ofFile :
          q \in UpTo(shortnames[s].fileIndex, shortnames[s].charOffset)
    BY <1>4, <1>5
  <2> QED
    BY <1>3, <2>1 DEF LastOf
<1>7. shortnames[p].charOffset <= shortnames[last].charOffset
  BY <1>3, <1>5, <1>6
<1>8. getLastShortnameByOffset(offset, file) = Found(last)
  BY <1>3 DEF getLastShortnameByOffset, ofFile
<1> QED
  BY <1>2, <1>6, <1>7, <1>8

(* The element at its own offset is found whatever references there are.   *)
LEMMA ElementAtName ==
  ASSUME StorageInv, NEW p \in DOMAIN shortnames
  PROVE  ElementAt(shortnames[p].fileIndex, shortnames[p].charOffset) = Found(p)
BY NameAtItsOffset DEF ElementAt, Found

-----------------------------------------------------------------------------
(* getOwner.                                                               *)

(* The two ways from a reference to its owner agree.                       *)
LEMMA OwnerAgreesHolds == QueryInv => OwnerAgrees
<1> SUFFICES ASSUME QueryInv, NEW r \in DOMAIN references,
                    getOwner(references[r].fileIndex,
                             references[r].charOffset).outcome = "found"
             PROVE
      LET file == references[r].fileIndex
          owner == getOwner(file, references[r].charOffset)
          nearest == getNearestShortname(file, references[r].charOffset)
          named == getShortnameByOffset(owner.value[2], file)
      IN /\ named.outcome = "found"
         /\ \E i \in DOMAIN ownReferences[named.value] :
              ownReferences[named.value][i] = r
         /\ \E e \in nearest.value : e.place[1] = file /\ e.place[2] >= owner.value[2]
         /\ \A p \in getShortnamesByFullPath(references[r].targetPath) :
              LET place == Place(shortnames[p])
                  answer == getReferences(place[1], place[2], TRUE)
              IN answer.outcome = "found" => answer.value[r] = owner.value
  BY DEF OwnerAgrees
<1> DEFINE file == references[r].fileIndex
           offset == references[r].charOffset
           o == references[r].owner
           owner == getOwner(file, offset)
           nearest == getNearestShortname(file, offset)
<1>1. /\ file \in DOMAIN newlineOffsets
      /\ offset \in Nat
      /\ r \in 1..Len(references)
  BY StoredReferences
<1>2. getReferenceByOffset(offset, file) = Found(r)
  BY ReferenceAtCursor, CursorAtStart
<1>3. Found(r).outcome = "found" /\ Found(r).value = r
  BY DEF Found
<1>4. owner = IF o = nullptr THEN undefined
              ELSE Found(<<file, shortnames[o].charOffset>>)
  BY <1>1, <1>2, <1>3 DEF getOwner, AtPosition
<1>5. o # nullptr
  BY <1>4 DEF undefined
<1>6. owner.value = <<file, shortnames[o].charOffset>>
  BY <1>4, <1>5 DEF Found
<1>7. /\ o \in DOMAIN shortnames
      /\ shortnames[o].fileIndex = file
      /\ shortnames[o].charOffset \in Nat
      /\ shortnames[o].charOffset <= offset
  <2>1. /\ o \in 1..Len(shortnames)
        /\ shortnames[o].fileIndex = file
        /\ shortnames[o].charOffset < offset
    BY <1>1, <1>5 DEF QueryInv, OwnersInv, OwnersAgree
  <2> QED
    BY <1>1, <2>1, StoredElements DEF QueryInv
<1>8. getShortnameByOffset(owner.value[2], file) = Found(o)
  BY <1>6, <1>7, NameAtItsOffset DEF QueryInv
<1>9. Found(o).outcome = "found" /\ Found(o).value = o
  BY DEF Found
<1>10. \E i \in DOMAIN ownReferences[o] : ownReferences[o][i] = r
  <2>1. TypeInv /\ OwnersAgree /\ OwnerListed(o, r)
    <3>1. TypeInv /\ OwnersAgree
      BY DEF QueryInv, StorageInv, OwnersInv
    <3>2. o \in 1..Len(shortnames)
      BY <1>7, StoredElements DEF QueryInv
    <3> QED
      BY <1>1, <3>1, <3>2, OwnersAgreeParts
  <2>2. Lists(ownReferences[o], r)
    BY <2>1 DEF OwnerListed
  <2>3. DOMAIN ownReferences[o] = 1..Len(ownReferences[o])
    <3>1. o \in 1..Len(ownReferences)
      BY <1>7, <2>1, StoredElements, OwnReferencesTypes DEF QueryInv
    <3> QED
      BY <2>1, <3>1, OwnReferencesTypes
  <2> QED
    BY <2>2, <2>3 DEF Lists
<1>11. \E e \in nearest.value : e.place[1] = file /\ e.place[2] >= owner.value[2]
  <2>1. PICK q \in DOMAIN shortnames :
          /\ getLastShortnameByOffset(offset, file) = Found(q)
          /\ shortnames[q].fileIndex = file
          /\ shortnames[o].charOffset <= shortnames[q].charOffset
    BY <1>1, <1>7, NearestBefore DEF QueryInv
  <2>2. Found(q).outcome = "found" /\ Found(q).value = q
    BY DEF Found
  <2> DEFINE elem == TreeElement(q, TRUE)
  <2>3. nearest = Found({elem})
    BY <1>1, <2>1, <2>2 DEF getNearestShortname, AtPosition
  <2>4. nearest.value = {elem}
    BY <2>3, FoundParts
  <2>5. elem.place = <<shortnames[q].fileIndex, shortnames[q].charOffset>>
    BY DEF TreeElement, Place
  <2>6. shortnames[q].charOffset \in Nat
    BY StoredElements DEF QueryInv
  <2> HIDE DEF elem
  <2>7. /\ elem.place[1] = file
        /\ elem.place[2] = shortnames[q].charOffset
    BY <2>1, <2>5
  <2>8. owner.value[2] = shortnames[o].charOffset
    BY <1>6
  <2>9. shortnames[q].charOffset >= shortnames[o].charOffset
    BY <1>7, <2>1, <2>6
  <2> HIDE DEF nearest, owner
  <2> QED
    BY <2>4, <2>7, <2>8, <2>9
<1>12. ASSUME NEW p \in getShortnamesByFullPath(references[r].targetPath),
              getReferences(Place(shortnames[p])[1], Place(shortnames[p])[2],
                            TRUE).outcome = "found"
       PROVE  getReferences(Place(shortnames[p])[1], Place(shortnames[p])[2],
                            TRUE).value[r] = owner.value
  <2> DEFINE place == Place(shortnames[p])
             answer == getReferences(place[1], place[2], TRUE)
             found == getReferencesByShortname(p)
             links == [s \in found |-> <<references[s].fileIndex,
                                       shortnames[references[s].owner].charOffset>>]
  <2>1. /\ p \in DOMAIN shortnames
        /\ getFullPath(shortnames[p]) = references[r].targetPath
    BY DEF getShortnamesByFullPath
  <2>2. ElementAt(place[1], place[2]) = Found(p)
    BY <2>1, ElementAtName DEF QueryInv, Place
  <2>3. Found(p).outcome = "found" /\ Found(p).value = p
    BY DEF Found
  <2>4. answer = IF place[1] \in DOMAIN newlineOffsets
                 THEN IF \E s \in found : references[s].owner = nullptr
                      THEN undefined ELSE Found(links)
                 ELSE undefined
    BY <2>2, <2>3 DEF getReferences, AtPosition
  <2>5. answer = Found(links)
    <3>1. answer.outcome = "found" /\ undefined.outcome # "found"
      BY <1>12 DEF undefined
    <3> HIDE DEF answer, links
    <3> QED
      BY <2>4, <3>1
  <2>6. answer.value = links
    <3> HIDE DEF answer, links
    <3> QED
      BY <2>5, FoundParts
  <2>7. r \in found
    BY <2>1 DEF getReferencesByShortname
  <2>8. links[r] = <<file, shortnames[o].charOffset>>
    BY <2>7
  <2> QED
    BY <1>6, <2>6, <2>8
<1> HIDE DEF owner, nearest
<1> QED
  BY <1>8, <1>9, <1>10, <1>11, <1>12 DEF owner, nearest

-----------------------------------------------------------------------------
(* helper_getShortnameFromInnerPath.                                       *)

(* Induction over the naturals, on a set.                                  *)
LEMMA InductionOnSet ==
  ASSUME NEW S \in SUBSET Nat, 0 \in S, \A n \in S : n + 1 \in S
  PROVE  \A n \in Nat : n \in S
<1> DEFINE R == OpToRel(<, Nat)
           T == Nat \ S
<1>1. IsWellFoundedOn(R, Nat)
  BY NatLessThanWellFounded
<1>2. \A x, y \in Nat : <<x, y>> \in R <=> x < y
  BY DEF OpToRel
<1>3. ASSUME T # {}
      PROVE  FALSE
  <2>1. PICK m \in T : \A j \in T : ~(<<j, m>> \in R)
    <3>1. T \subseteq Nat
      OBVIOUS
    <3> HIDE DEF T, R
    <3> QED
      BY <1>1, <1>3, <3>1, WFMin
  <2>2. \A j \in T : ~(j < m)
    <3> HIDE DEF R
    <3> QED
      BY <1>2, <2>1
  <2>3. m \in Nat /\ m # 0 /\ m \notin S
    OBVIOUS
  <2>4. m - 1 \in Nat /\ m - 1 < m /\ (m - 1) + 1 = m
    BY <2>3
  <2>5. m - 1 \in S
    BY <2>2, <2>4
  <2> QED
    BY <2>3, <2>4, <2>5
<1> QED
  BY <1>3

(* The equation that defines the climb from p by n parents.                *)
Climb(p, n, f) ==
  [i \in 0..n |->
     IF i = 0 \/ f[i - 1] = nullptr
     THEN IF i = 0 THEN p ELSE nullptr
     ELSE shortnames[f[i - 1]].parent]

(* Climbing any number of parents is defined.                              *)
LEMMA ClimbExists ==
  ASSUME NEW p
  PROVE  \A n \in Nat : \E f : f = Climb(p, n, f)
<1> DEFINE S == {n \in Nat : \E f : f = Climb(p, n, f)}
<1>1. 0 \in S
  <2> DEFINE f == [i \in 0..0 |-> p]
  <2>1. f = Climb(p, 0, f)
    BY DEF Climb
  <2> QED
    BY <2>1
<1>2. ASSUME NEW n \in S
      PROVE  n + 1 \in S
  <2>1. PICK f : f = Climb(p, n, f)
    OBVIOUS
  <2> DEFINE last == IF f[n] = nullptr THEN nullptr ELSE shortnames[f[n]].parent
             g == [i \in 0..(n + 1) |-> IF i = n + 1 THEN last ELSE f[i]]
             value(h, i) == IF i = 0 \/ h[i - 1] = nullptr
                            THEN IF i = 0 THEN p ELSE nullptr
                            ELSE shortnames[h[i - 1]].parent
  <2>2. n \in Nat
    OBVIOUS
  <2>3. \A i \in 0..n : g[i] = f[i]
    BY <2>2
  <2>4. \A i \in 0..n : f[i] = value(f, i)
    BY <2>1 DEF Climb
  <2>5. g[n + 1] = last
    BY <2>2
  <2> HIDE DEF g
  <2>6. ASSUME NEW i \in 0..(n + 1)
        PROVE  g[i] = value(g, i)
    <3>1. CASE i = n + 1
      <4>1. i # 0 /\ i - 1 = n /\ n \in 0..n
        BY <2>2, <3>1
      <4>2. g[i - 1] = f[n]
        BY <2>3, <4>1
      <4> QED
        BY <2>5, <3>1, <4>1, <4>2
    <3>2. CASE i # n + 1
      <4>1. i \in 0..n /\ (i # 0 => i - 1 \in 0..n)
        BY <2>2, <3>2
      <4>2. i # 0 => g[i - 1] = f[i - 1]
        BY <2>3, <4>1
      <4>3. value(g, i) = value(f, i)
        BY <4>2
      <4> HIDE DEF value
      <4> QED
        BY <2>3, <2>4, <4>1, <4>3
    <3> QED
      BY <3>1, <3>2
  <2>7. g = [i \in 0..(n + 1) |-> value(g, i)]
    <3>1. g = [i \in 0..(n + 1) |-> g[i]]
      BY DEF g
    <3> HIDE DEF value
    <3> QED
      BY <2>6, <3>1
  <2>8. g = Climb(p, n + 1, g)
    BY <2>7 DEF Climb
  <2> HIDE DEF value, last
  <2> QED
    BY <2>2, <2>8
<1> HIDE DEF S
<1>3. \A n \in Nat : n \in S
  <2>1. S \in SUBSET Nat
    BY DEF S
  <2> QED
    BY <1>1, <1>2, <2>1, InductionOnSet
<1> QED
  BY <1>3 DEF S

(* Climbing from an element as often as its full path has names above the  *)
(* last goes from each prefix of the path to the next shorter one.         *)
LEMMA AncestorPath ==
  ASSUME StorageInv, NEW p \in DOMAIN shortnames,
         NEW n \in Nat, n < Len(getFullPath(shortnames[p]))
  PROVE  /\ Ancestor(p, n) \in DOMAIN shortnames
         /\ shortnames[Ancestor(p, n)].fileIndex = shortnames[p].fileIndex
         /\ getFullPath(shortnames[Ancestor(p, n)]) =
              SubSeq(getFullPath(shortnames[p]), 1,
                     Len(getFullPath(shortnames[p])) - n)
<1> DEFINE full == getFullPath(shortnames[p])
           len == Len(full)
           f == CHOOSE g : g = Climb(p, n, g)
<1>1. full \in Seq(Name) /\ len \in Nat
  BY StoredElements, LenProperties
<1>2. f = Climb(p, n, f)
  BY ClimbExists
<1>3. Ancestor(p, n) = f[n]
  BY DEF Ancestor, Climb
<1> HIDE DEF f
<1>4. /\ f[0] = p
      /\ \A i \in 0..n : i # 0 =>
           f[i] = IF f[i - 1] = nullptr THEN nullptr
                  ELSE shortnames[f[i - 1]].parent
  BY <1>2 DEF Climb
<1> DEFINE At(i) ==
             /\ f[i] \in DOMAIN shortnames
             /\ shortnames[f[i]].fileIndex = shortnames[p].fileIndex
             /\ Len(getFullPath(shortnames[f[i]])) = len - i
             /\ \A j \in 1..(len - i) : getFullPath(shortnames[f[i]])[j] = full[j]
           S == {i \in Nat : i <= n => At(i)}
<1>5. 0 \in S
  BY <1>1, <1>4
<1>6. ASSUME NEW i \in S
      PROVE  i + 1 \in S
  <2> SUFFICES ASSUME i + 1 <= n
               PROVE  At(i + 1)
    OBVIOUS
  <2> DEFINE q == f[i]
             parent == shortnames[q].parent
  <2>1. i \in Nat /\ i <= n /\ At(i)
    OBVIOUS
  <2>2. q # nullptr /\ q \in DOMAIN shortnames
    BY <2>1, StoredElements DEF nullptr
  <2>3. f[i + 1] = parent
    <3>1. i + 1 \in 0..n /\ i + 1 # 0 /\ (i + 1) - 1 = i
      BY <2>1
    <3> QED
      BY <1>4, <2>2, <3>1
  <2>4. /\ shortnames[q].path \in Seq(Name)
        /\ shortnames[q].name \in Name
        /\ getFullPath(shortnames[q]) = Append(shortnames[q].path, shortnames[q].name)
    BY <2>2, StoredElements DEF getFullPath
  <2>5. /\ Len(shortnames[q].path) \in Nat
        /\ Len(shortnames[q].path) + 1 = len - i
        /\ \A j \in 1..Len(shortnames[q].path) : shortnames[q].path[j] = full[j]
    <3>1. /\ Len(getFullPath(shortnames[q])) = Len(shortnames[q].path) + 1
          /\ \A j \in 1..Len(shortnames[q].path) :
               getFullPath(shortnames[q])[j] = shortnames[q].path[j]
          /\ Len(shortnames[q].path) \in Nat
      BY <2>4, AppendProperties, LenProperties
    <3>2. /\ Len(getFullPath(shortnames[q])) = len - i
          /\ \A j \in 1..(len - i) : getFullPath(shortnames[q])[j] = full[j]
      BY <2>1
    <3>3. \A j \in 1..Len(shortnames[q].path) : j \in 1..(len - i)
      BY <1>1, <2>1, <3>1, <3>2
    <3> QED
      BY <3>1, <3>2, <3>3
  <2>6. shortnames[q].path # <<>>
    <3>1. Len(shortnames[q].path) # 0
      BY <1>1, <2>1, <2>5
    <3> QED
      BY <3>1, EmptySeq
  <2>7. /\ parent \in DOMAIN shortnames
        /\ shortnames[parent].fileIndex = shortnames[q].fileIndex
        /\ getFullPath(shortnames[parent]) = shortnames[q].path
    BY <2>2, <2>6, ParentElement
  <2>8. Len(shortnames[q].path) = len - (i + 1)
    BY <1>1, <2>1, <2>5
  <2>9. shortnames[q].fileIndex = shortnames[p].fileIndex
    BY <2>1
  <2> HIDE DEF q, parent
  <2> QED
    BY <2>3, <2>5, <2>7, <2>8, <2>9
<1>7. At(n)
  <2>1. S \in SUBSET Nat
    OBVIOUS
  <2> HIDE DEF S
  <2>2. n \in S
    BY <1>5, <1>6, <2>1, InductionOnSet
  <2> HIDE DEF At
  <2> QED
    BY <2>2 DEF S
<1> DEFINE above == getFullPath(shortnames[f[n]])
<1>8. above \in Seq(Name)
  BY <1>7, StoredElements
<1>9. /\ SubSeq(full, 1, len - n) \in Seq(Name)
      /\ Len(SubSeq(full, 1, len - n)) = len - n
      /\ \A j \in 1..(len - n) : SubSeq(full, 1, len - n)[j] = full[j]
  <2>1. len - n \in Nat /\ 1 <= len - n /\ len - n <= len
    BY <1>1
  <2>2. \A j \in 1..(len - n) : full[j] \in Name
    <3>1. \A j \in 1..(len - n) : j \in 1..len
      BY <1>1, <2>1
    <3> QED
      BY <1>1, <3>1, ElementOfSeq
  <2> HIDE DEF full, len
  <2>3. /\ SubSeq(full, 1, len - n) \in Seq(Name)
        /\ Len(SubSeq(full, 1, len - n)) =
             IF 1 <= len - n THEN (len - n) - 1 + 1 ELSE 0
        /\ \A j \in 1..((len - n) - 1 + 1) :
             SubSeq(full, 1, len - n)[j] = full[1 + j - 1]
    BY <2>1, <2>2, SubSeqProperties
  <2> QED
    BY <2>1, <2>3
<1>10. above = SubSeq(full, 1, len - n)
  <2>1. /\ Len(above) = len - n
        /\ \A j \in 1..(len - n) : above[j] = full[j]
    BY <1>7
  <2> HIDE DEF above, full, len
  <2> QED
    BY <1>8, <1>9, <2>1, SeqEqual
<1> QED
  BY <1>3, <1>7, <1>10

(* A place within a quotient.                                              *)
LEMMA Quotient ==
  ASSUME NEW d \in Nat, NEW w \in Nat \ {0}
  PROVE  /\ d \div w \in Nat
         /\ (d \div w) * w <= d
         /\ d < (d \div w) * w + w
BY Z3

(* From a character of a path on, that of its k-th name or of the slash    *)
(* before it, there are as many slashes as there are names after it.       *)
LEMMA SlashesAbove ==
  ASSUME NEW path \in Seq(Name), path # <<>>, NEW d \in 0..PathWidth(path)
  PROVE  LET k == 1 + d \div (NameWidth + 1)
         IN k \in 1..Len(path) /\ SlashesFrom(path, d) = Len(path) - k
<1> DEFINE len == Len(path)
           w == NameWidth + 1
           k == 1 + d \div w
           after == {j \in 1..(len - 1) : j * w - 1 >= d}
<1>1. w \in Nat \ {0} /\ len \in Nat \ {0} /\ d \in Nat /\ d <= len * w - 1
  <2>1. PathWidth(path) \in Nat /\ PathWidth(path) = len * w - 1 /\ len \in Nat \ {0}
    BY WidthOfPath
  <2>2. w \in Nat \ {0}
    BY StorageAssumption
  <2> HIDE DEF w, len
  <2> QED
    BY <2>1, <2>2
<1>2. /\ k \in Nat /\ k >= 1
      /\ (k - 1) * w <= d
      /\ d < (k - 1) * w + w
  <2> HIDE DEF w
  <2>1. /\ d \div w \in Nat
        /\ (d \div w) * w <= d
        /\ d < (d \div w) * w + w
    BY <1>1, Quotient
  <2> QED
    BY <2>1
<1> HIDE DEF k, w, len
<1>3. k * w \in Nat /\ (k - 1) * w \in Nat /\ (k - 1) * w + w = k * w
  <2>1. k - 1 \in Nat /\ w \in Nat /\ (k - 1) + 1 = k
    BY <1>1, <1>2
  <2>2. (k - 1) * w \in Nat /\ ((k - 1) + 1) * w = (k - 1) * w + w
    BY <2>1, Multiples
  <2>3. k * w \in Nat
    BY <1>1, <1>2, Multiples
  <2> QED
    BY <2>1, <2>2, <2>3
<1>4. k \in 1..len
  <2>1. len < k => len * w + w <= k * w
    BY <1>1, <1>2, Multiples
  <2>2. len * w \in Nat
    BY <1>1, Multiples
  <2> QED
    BY <1>1, <1>2, <1>3, <2>1, <2>2
<1>5. after = k..(len - 1)
  <2>1. ASSUME NEW j \in 1..(len - 1)
        PROVE  j * w - 1 >= d <=> j >= k
    <3>1. j \in Nat /\ k - 1 \in Nat
      BY <1>1, <1>2
    <3>2. j * w \in Nat
      BY <1>1, <3>1, Multiples
    <3>3. CASE j >= k
      <4>1. j = k \/ k < j
        BY <1>2, <3>1, <3>3
      <4>2. k < j => k * w + w <= j * w
        BY <1>1, <1>2, <3>1, Multiples
      <4>3. k * w <= j * w
        BY <1>1, <1>3, <3>2, <4>1, <4>2
      <4> QED
        BY <1>1, <1>2, <1>3, <3>2, <3>3, <4>3
    <3>4. CASE j < k
      <4>1. j = k - 1 \/ j < k - 1
        BY <1>2, <3>1, <3>4
      <4>2. j < k - 1 => j * w + w <= (k - 1) * w
        BY <1>1, <3>1, Multiples
      <4>3. j * w <= (k - 1) * w
        BY <1>1, <1>3, <3>2, <4>1, <4>2
      <4> QED
        BY <1>1, <1>2, <1>3, <3>1, <3>2, <3>4, <4>3
    <3> QED
      BY <1>2, <3>1, <3>3, <3>4
  <2>2. \A j \in k..(len - 1) : j \in 1..(len - 1)
    BY <1>1, <1>2
  <2>3. \A j \in 1..(len - 1) : j \in k..(len - 1) <=> j >= k
    BY <1>1, <1>2
  <2> QED
    BY <2>1, <2>2, <2>3
<1>6. Cardinality(k..(len - 1)) = len - k
  <2>1. len - 1 \in Int /\ k \in Int
    BY <1>1, <1>2
  <2>2. Cardinality(k..(len - 1)) =
          IF k > len - 1 THEN 0 ELSE (len - 1) - k + 1
    BY <2>1, FS_Interval
  <2> QED
    BY <1>1, <1>4, <2>2
<1>7. SlashesFrom(path, d) = Cardinality(after)
  BY DEF SlashesFrom, w, len
<1> QED
  BY <1>4, <1>5, <1>6, <1>7 DEF k, w, len

(* With the cursor in a reference the definition is that of the reference. *)
LEMMA DefinitionOfReference ==
  ASSUME QueryInv, NEW r \in DOMAIN references, NEW offset \in Cursors(r)
  PROVE  getDefinition(references[r].fileIndex, offset)
           = helper_getShortnameFromInnerPath(r, offset)
<1> DEFINE file == references[r].fileIndex
<1>1. file \in DOMAIN newlineOffsets
  BY StoredReferences
<1>2. getReferenceByOffset(offset, file) = Found(r)
  BY ReferenceAtCursor
<1>3. Found(r).outcome = "found" /\ Found(r).value = r
  BY FoundParts
<1> QED
  BY <1>1, <1>2, <1>3 DEF getDefinition, AtPosition

(* The definition at a cursor is a parent, or a parent's parent and so on, *)
(* of the only element that has the path of the reference.                 *)
LEMMA DefinitionAtCursor ==
  ASSUME QueryInv, NEW r \in DOMAIN references, NEW offset \in Cursors(r)
  PROVE  LET path == references[r].targetPath
             targets == getShortnamesByFullPath(path)
             k == 1 + (offset - references[r].charOffset) \div (NameWidth + 1)
             answer == getDefinition(references[r].fileIndex, offset)
         IN /\ Cardinality(targets) # 1 => answer = multipleDefinition
            /\ Cardinality(targets) = 1 =>
                 \E p \in DOMAIN shortnames :
                   /\ targets = {p}
                   /\ getFullPath(shortnames[p]) = path
                   /\ k \in 1..Len(path)
                   /\ Ancestor(p, Len(path) - k) \in DOMAIN shortnames
                   /\ answer = Found(Ancestor(p, Len(path) - k))
<1> DEFINE path == references[r].targetPath
           targets == getShortnamesByFullPath(path)
           d == offset - references[r].charOffset
           k == 1 + d \div (NameWidth + 1)
           file == references[r].fileIndex
           target == CHOOSE p \in targets : TRUE
           above == SlashesFrom(getFullPath(shortnames[target]), d)
<1>1. getDefinition(file, offset) = helper_getShortnameFromInnerPath(r, offset)
  BY DefinitionOfReference
<1>2. helper_getShortnameFromInnerPath(r, offset) =
        IF Cardinality(targets) # 1 THEN multipleDefinition
        ELSE IF Ancestor(target, above) = nullptr THEN elementNotFound
        ELSE Found(Ancestor(target, above))
  BY DEF helper_getShortnameFromInnerPath
<1>3. ASSUME Cardinality(targets) = 1
      PROVE  \E p \in DOMAIN shortnames :
               /\ targets = {p}
               /\ getFullPath(shortnames[p]) = path
               /\ k \in 1..Len(path)
               /\ Ancestor(p, Len(path) - k) \in DOMAIN shortnames
               /\ getDefinition(file, offset) = Found(Ancestor(p, Len(path) - k))
  <2>1. PICK p : targets = {p}
    <3>1. IsFiniteSet(targets)
      BY StoredFinite DEF getShortnamesByFullPath, QueryInv
    <3> QED
      BY <1>3, <3>1, FS_Singleton
  <2>2. target = p
    BY <2>1
  <2>3. p \in DOMAIN shortnames /\ getFullPath(shortnames[p]) = path
    BY <2>1 DEF getShortnamesByFullPath
  <2>4. path \in Seq(Name) /\ path # <<>>
    BY <2>3, StoredElements DEF QueryInv
  <2>5. d \in 0..PathWidth(path)
    <3>1. references[r].charOffset \in Nat /\ PathWidth(path) \in Nat
      BY <2>4, StoredReferences, WidthOfPath
    <3>2. offset \in references[r].charOffset..(references[r].charOffset + PathWidth(path))
      BY DEF Cursors, EndOf
    <3> QED
      BY <3>1, <3>2
  <2>6. k \in 1..Len(path) /\ above = Len(path) - k
    <3> HIDE DEF d, path
    <3> QED
      BY <2>2, <2>3, <2>4, <2>5, SlashesAbove
  <2>7. Len(path) - k \in Nat /\ Len(path) - k < Len(path)
    <3>1. Len(path) \in Nat
      BY <2>4, LenProperties
    <3> HIDE DEF k
    <3> QED
      BY <2>6, <3>1
  <2>8. Ancestor(p, Len(path) - k) \in DOMAIN shortnames
    BY <2>3, <2>7, AncestorPath DEF QueryInv
  <2>9. Ancestor(p, Len(path) - k) # nullptr
    BY <2>8, StoredElements DEF QueryInv, nullptr
  <2> HIDE DEF targets, target, above, k, path
  <2>10. getDefinition(file, offset) = Found(Ancestor(p, Len(path) - k))
    BY <1>1, <1>2, <1>3, <2>2, <2>6, <2>9
  <2> QED
    BY <2>1, <2>3, <2>6, <2>8, <2>10
<1> QED
  BY <1>1, <1>2, <1>3

(* With the cursor on the k-th name, the definition has these k names.     *)
LEMMA DefinitionOfPrefixHolds == QueryInv => DefinitionOfPrefix
<1> SUFFICES ASSUME QueryInv, NEW r \in DOMAIN references,
                    NEW offset \in Cursors(r)
             PROVE
      LET path == references[r].targetPath
          targets == getShortnamesByFullPath(path)
          k == 1 + (offset - references[r].charOffset) \div (NameWidth + 1)
          answer == getDefinition(references[r].fileIndex, offset)
      IN IF Cardinality(targets) # 1 THEN answer = multipleDefinition
         ELSE /\ answer.outcome = "found"
              /\ getFullPath(shortnames[answer.value]) = SubSeq(path, 1, k)
              /\ \A p \in targets :
                   shortnames[answer.value].fileIndex = shortnames[p].fileIndex
  BY DEF DefinitionOfPrefix
<1> DEFINE path == references[r].targetPath
           targets == getShortnamesByFullPath(path)
           k == 1 + (offset - references[r].charOffset) \div (NameWidth + 1)
           answer == getDefinition(references[r].fileIndex, offset)
<1>1. CASE Cardinality(targets) # 1
  BY <1>1, DefinitionAtCursor
<1>2. CASE Cardinality(targets) = 1
  <2>1. PICK p \in DOMAIN shortnames :
          /\ targets = {p}
          /\ getFullPath(shortnames[p]) = path
          /\ k \in 1..Len(path)
          /\ Ancestor(p, Len(path) - k) \in DOMAIN shortnames
          /\ answer = Found(Ancestor(p, Len(path) - k))
    BY <1>2, DefinitionAtCursor
  <2>2. path \in Seq(Name) /\ Len(path) \in Nat
    BY StoredReferences, LenProperties
  <2> DEFINE n == Len(path) - k
             elem == Ancestor(p, n)
  <2> HIDE DEF k
  <2>3. n \in Nat /\ n < Len(path) /\ Len(path) - n = k
    BY <2>1, <2>2
  <2>4. /\ shortnames[elem].fileIndex = shortnames[p].fileIndex
        /\ getFullPath(shortnames[elem]) = SubSeq(path, 1, k)
    <3> HIDE DEF n, path
    <3> QED
      BY <2>1, <2>3, AncestorPath DEF QueryInv
  <2>5. answer.outcome = "found" /\ answer.value = elem
    <3> HIDE DEF answer
    <3> QED
      BY <2>1, FoundParts
  <2> HIDE DEF answer, targets
  <2> QED
    BY <1>2, <2>1, <2>4, <2>5 DEF answer, targets, k
<1> QED
  BY <1>1, <1>2

-----------------------------------------------------------------------------
(* getReferences.                                                          *)

(* No parent taken.                                                        *)
LEMMA NoAncestor ==
  ASSUME NEW p
  PROVE  Ancestor(p, 0) = p
<1> DEFINE f == CHOOSE g : g = Climb(p, 0, g)
<1>1. f = Climb(p, 0, f)
  BY ClimbExists
<1>2. Ancestor(p, 0) = f[0]
  BY DEF Ancestor, Climb
<1> HIDE DEF f
<1> QED
  BY <1>1, <1>2 DEF Climb

(* On the last name of a reference the definition is the only element that *)
(* has its path, if there is one.                                          *)
LEMMA DefinitionAtEnd ==
  ASSUME QueryInv, NEW r \in DOMAIN references
  PROVE  LET targets == getShortnamesByFullPath(references[r].targetPath)
             definition == getDefinition(references[r].fileIndex, EndOf(r))
         IN /\ Cardinality(targets) # 1 => definition = multipleDefinition
            /\ Cardinality(targets) = 1 =>
                 \E p \in DOMAIN shortnames :
                   targets = {p} /\ definition = Found(p)
<1> DEFINE path == references[r].targetPath
           targets == getShortnamesByFullPath(path)
           d == EndOf(r) - references[r].charOffset
           k == 1 + d \div (NameWidth + 1)
           definition == getDefinition(references[r].fileIndex, EndOf(r))
<1>1. EndOf(r) \in Cursors(r)
  BY CursorAtStart
<1>2. CASE Cardinality(targets) # 1
  BY <1>1, <1>2, DefinitionAtCursor
<1>3. CASE Cardinality(targets) = 1
  <2>1. PICK p \in DOMAIN shortnames :
          /\ targets = {p}
          /\ getFullPath(shortnames[p]) = path
          /\ k \in 1..Len(path)
          /\ Ancestor(p, Len(path) - k) \in DOMAIN shortnames
          /\ definition = Found(Ancestor(p, Len(path) - k))
    BY <1>1, <1>3, DefinitionAtCursor
  <2> DEFINE w == NameWidth + 1
             len == Len(path)
  <2>2. w \in Nat \ {0} /\ len \in Nat \ {0} /\ d = len * w - 1
    <3>1. path \in Seq(Name) /\ references[r].charOffset \in Nat
      BY StoredReferences
    <3>2. path # <<>>
      BY <2>1, StoredElements DEF QueryInv
    <3>3. PathWidth(path) \in Nat /\ len \in Nat \ {0} /\ PathWidth(path) = len * w - 1
      BY <3>1, <3>2, WidthOfPath
    <3>4. d = PathWidth(path)
      <4>1. EndOf(r) = references[r].charOffset + PathWidth(path)
        BY DEF EndOf
      <4> QED
        BY <3>1, <3>3, <4>1
    <3>5. w \in Nat \ {0}
      BY StorageAssumption
    <3> QED
      BY <3>3, <3>4, <3>5
  <2>3. k = len
    <3> HIDE DEF w, len, d
    <3>1. len * w \in Nat /\ len * w >= 1
      <4>1. len * w \in Nat /\ 0 * w + w <= len * w
        BY <2>2, Multiples
      <4>2. 0 * w = 0
        BY <2>2
      <4> QED
        BY <2>2, <4>1, <4>2
    <3>2. d \in Nat
      BY <2>2, <3>1
    <3>3. /\ d \div w \in Nat
          /\ (d \div w) * w <= d
          /\ d < (d \div w) * w + w
      BY <2>2, <3>2, Quotient
    <3> DEFINE q == d \div w
    <3>4. q * w \in Nat
      BY <2>2, <3>3, Multiples
    <3>5. k = 1 + q
      BY DEF w
    <3> HIDE DEF q, k
    <3>6. q \in Nat /\ q * w <= d /\ d < q * w + w
      BY <3>3 DEF q
    <3>7. ~(len < q + 1)
      <4>1. len < q + 1 => len = q \/ len < q
        BY <2>2, <3>6
      <4>2. len < q => len * w + w <= q * w
        BY <2>2, <3>6, Multiples
      <4> QED
        BY <2>2, <3>1, <3>2, <3>4, <3>6, <4>1, <4>2
    <3>8. ~(q + 1 < len)
      <4>1. q + 1 < len => (q + 1) * w + w <= len * w
        BY <2>2, <3>6, Multiples
      <4>2. (q + 1) * w = q * w + w
        BY <2>2, <3>6, Multiples
      <4> QED
        BY <2>2, <3>1, <3>2, <3>4, <3>6, <4>1, <4>2
    <3> QED
      BY <2>2, <3>5, <3>6, <3>7, <3>8
  <2>4. Len(path) - k = 0
    BY <2>2, <2>3
  <2>5. Ancestor(p, 0) = p
    BY NoAncestor
  <2> QED
    BY <1>3, <2>1, <2>4, <2>5
<1> QED
  BY <1>2, <1>3

(* Every file that an element is of has newlines.                          *)
LEMMA NamesHaveNewlines ==
  ASSUME QueryInv, NEW p \in DOMAIN shortnames
  PROVE  shortnames[p].fileIndex \in DOMAIN newlineOffsets
<1>1. HasNewlines(shortnames[p].fileIndex)
  BY StoredElements DEF QueryInv, NewlineInv
<1>2. DOMAIN newlineOffsets = 1..Len(newlineOffsets)
  BY LenProperties DEF QueryInv, StorageInv, TypeInv, TypeOK, StorageTypeOK
<1> QED
  BY <1>1, <1>2 DEF HasNewlines

(* The references found from the name of an element.                       *)
LEMMA ReferencesOfElement ==
  ASSUME QueryInv, NEW p \in DOMAIN shortnames, NEW file, NEW offset,
         file \in DOMAIN newlineOffsets, ElementAt(file, offset) = Found(p)
  PROVE  getReferences(file, offset, FALSE) =
           Found([r \in getReferencesByShortname(p) |->
                    <<references[r].fileIndex, references[r].charOffset>>])
<1>1. Found(p).outcome = "found" /\ Found(p).value = p
  BY FoundParts
<1> QED
  BY <1>1 DEF getReferences, AtPosition

(* Definitions and references are inverse.                                 *)
LEMMA ReferencesInvertDefinitionHolds == QueryInv => ReferencesInvertDefinition
<1> SUFFICES ASSUME QueryInv, NEW p \in DOMAIN shortnames
             PROVE
      LET place == Place(shortnames[p])
          answer == getReferences(place[1], place[2], FALSE)
          definition(r) == getDefinition(references[r].fileIndex, EndOf(r))
          leadsTo(r) ==
            \/ definition(r) = Found(p)
            \/ /\ definition(r) = multipleDefinition
               /\ p \in getShortnamesByFullPath(references[r].targetPath)
          hidden(r) ==
            getShortnameByOffset(EndOf(r), references[r].fileIndex).outcome = "found"
      IN /\ answer.outcome = "found"
         /\ DOMAIN answer.value = {r \in DOMAIN references : leadsTo(r)}
         /\ \A r \in DOMAIN references :
              /\ definition(r) = Found(p)
              /\ ~hidden(r)
              => getReferences(references[r].fileIndex, EndOf(r), FALSE) = answer
  BY DEF ReferencesInvertDefinition
<1> DEFINE place == Place(shortnames[p])
           answer == getReferences(place[1], place[2], FALSE)
           definition(r) == getDefinition(references[r].fileIndex, EndOf(r))
           leadsTo(r) ==
             \/ definition(r) = Found(p)
             \/ /\ definition(r) = multipleDefinition
                /\ p \in getShortnamesByFullPath(references[r].targetPath)
           links == [r \in getReferencesByShortname(p) |->
                       <<references[r].fileIndex, references[r].charOffset>>]
<1>1. answer = Found(links)
  <2>1. ElementAt(place[1], place[2]) = Found(p)
    BY ElementAtName DEF QueryInv, Place
  <2>2. place[1] \in DOMAIN newlineOffsets
    BY NamesHaveNewlines DEF Place
  <2> HIDE DEF place
  <2> QED
    BY <2>1, <2>2, ReferencesOfElement
<1>2. answer.outcome = "found" /\ DOMAIN answer.value = getReferencesByShortname(p)
  <2>1. DOMAIN links = getReferencesByShortname(p)
    OBVIOUS
  <2> HIDE DEF answer, links
  <2> QED
    BY <1>1, <2>1, FoundParts
<1>3. ASSUME NEW r \in DOMAIN references
      PROVE  leadsTo(r) <=> r \in getReferencesByShortname(p)
  <2> DEFINE targets == getShortnamesByFullPath(references[r].targetPath)
  <2>1. /\ Cardinality(targets) # 1 => definition(r) = multipleDefinition
        /\ Cardinality(targets) = 1 =>
             \E q \in DOMAIN shortnames : targets = {q} /\ definition(r) = Found(q)
    BY DefinitionAtEnd
  <2>2. p \in targets <=> r \in getReferencesByShortname(p)
    BY DEF getShortnamesByFullPath, getReferencesByShortname
  <2>3. \A q : Found(q) # multipleDefinition
    BY DEF Found, multipleDefinition
  <2>4. \A q : Found(q) = Found(p) => q = p
    BY FoundParts
  <2> HIDE DEF targets, definition
  <2>5. leadsTo(r) <=> p \in targets
    <3>1. leadsTo(r) <=> \/ definition(r) = Found(p)
                         \/ definition(r) = multipleDefinition /\ p \in targets
      BY DEF targets
    <3> HIDE DEF leadsTo
    <3> QED
      BY <2>1, <2>3, <2>4, <3>1
  <2> QED
    BY <2>2, <2>5
<1>4. ASSUME NEW r \in DOMAIN references, definition(r) = Found(p),
             getShortnameByOffset(EndOf(r), references[r].fileIndex).outcome # "found"
      PROVE  getReferences(references[r].fileIndex, EndOf(r), FALSE) = answer
  <2> DEFINE file == references[r].fileIndex
  <2>1. EndOf(r) \in Cursors(r) /\ file \in DOMAIN newlineOffsets
    BY CursorAtStart, StoredReferences
  <2>2. getReferenceByOffset(EndOf(r), file) = Found(r)
    BY <2>1, ReferenceAtCursor
  <2>3. Found(r).outcome = "found" /\ Found(r).value = r
    BY FoundParts
  <2>4. helper_getShortnameFromInnerPath(r, EndOf(r)) = Found(p)
    BY <1>4, <2>1, DefinitionOfReference
  <2>5. ElementAt(file, EndOf(r)) = Found(p)
    BY <1>4, <2>2, <2>3, <2>4 DEF ElementAt
  <2> HIDE DEF answer
  <2> QED
    BY <1>1, <2>1, <2>5, ReferencesOfElement
<1>5. getReferencesByShortname(p) = {r \in DOMAIN references : leadsTo(r)}
  <2>1. \A r \in getReferencesByShortname(p) : r \in DOMAIN references
    BY DEF getReferencesByShortname
  <2> HIDE DEF leadsTo
  <2> QED
    BY <1>3, <2>1
<1> QED
  BY <1>2, <1>4, <1>5

-----------------------------------------------------------------------------
(* getHover.                                                               *)

(* The i-th reference an element lists is the i-th that it owns.           *)
LEMMA PlaceOfListed ==
  ASSUME QueryInv, NEW p \in DOMAIN shortnames,
         NEW i \in 1..Len(ownReferences[p])
  PROVE  ownReferences[p][i] \in Owned(p) /\ PlaceOf(ownReferences[p][i], p) = i
<1> DEFINE own == ownReferences[p]
           r == own[i]
           upTo == {s \in Owned(p) : s <= r}
<1>1. /\ p \in 1..Len(shortnames) /\ p \in 1..Len(ownReferences)
      /\ Len(own) \in Nat /\ DOMAIN own = 1..Len(own)
  BY StoredElements, OwnReferencesTypes DEF QueryInv, StorageInv
<1>2. /\ \A j \in 1..Len(own) : own[j] \in 1..Len(references)
      /\ \A j, k \in 1..Len(own) : j < k => own[j] < own[k]
      /\ \A s \in 1..Len(references) :
           references[s].owner = p <=> \E j \in DOMAIN own : own[j] = s
  BY <1>1 DEF QueryInv, OwnersInv, OwnReferencesStored, OwnReferencesInOrder,
              OwnersAgree
<1>3. DOMAIN references = 1..Len(references) /\ Len(references) \in Nat
  BY StoredReferences
<1>4. \A s : s \in Owned(p) <=> s \in 1..Len(references) /\ \E j \in 1..Len(own) : own[j] = s
  BY <1>1, <1>2, <1>3 DEF Owned
<1> HIDE DEF own
<1>5. i \in 1..Len(own)
  BY DEF own
<1>6. r \in Owned(p)
  BY <1>2, <1>4, <1>5
<1> DEFINE f == [j \in 1..i |-> own[j]]
<1>7. \A j \in 1..i : j \in 1..Len(own)
  BY <1>1, <1>5
<1>8. \A j \in 1..Len(own) : own[j] <= r <=> j <= i
  <2>1. ASSUME NEW j \in 1..Len(own)
        PROVE  own[j] <= r <=> j <= i
    <3>1. own[j] \in Nat /\ r \in Nat
      BY <1>2, <1>3, <1>5
    <3>2. j < i => own[j] < r
      BY <1>2, <1>5
    <3>3. i < j => r < own[j]
      BY <1>2, <1>5
    <3>4. i = j => own[j] = r
      OBVIOUS
    <3>5. i \in Nat /\ j \in Nat
      BY <1>1, <1>5
    <3> QED
      BY <3>1, <3>2, <3>3, <3>4, <3>5
  <2> QED
    BY <2>1
<1>9. f \in Bijection(1..i, upTo)
  <2>1. \A j \in 1..i : f[j] \in upTo
    <3>1. \A j \in 1..i : own[j] \in Owned(p)
      BY <1>2, <1>4, <1>7
    <3>2. \A j \in 1..i : j <= i
      BY <1>5
    <3>3. \A j \in 1..i : own[j] <= r
      BY <1>7, <1>8, <3>2
    <3> QED
      BY <3>1, <3>3
  <2>2. \A j, k \in 1..i : f[j] = f[k] => j = k
    <3>1. ASSUME NEW j \in 1..i, NEW k \in 1..i, own[j] = own[k]
          PROVE  j = k
      <4>1. j \in 1..Len(own) /\ k \in 1..Len(own)
        BY <1>7
      <4>2. ~(j < k) /\ ~(k < j)
        BY <1>2, <1>3, <3>1, <4>1
      <4> QED
        BY <1>1, <4>1, <4>2
    <3> QED
      BY <3>1
  <2>3. \A s \in upTo : \E j \in 1..i : f[j] = s
    <3>1. ASSUME NEW s \in upTo
          PROVE  \E j \in 1..i : own[j] = s
      <4>1. PICK j \in 1..Len(own) : own[j] = s
        BY <1>4
      <4>2. j <= i
        BY <1>8, <4>1
      <4> QED
        BY <1>1, <1>5, <4>1, <4>2
    <3> QED
      BY <3>1
  <2>4. f \in [1..i -> upTo]
    BY <2>1
  <2> HIDE DEF f, upTo
  <2> QED
    BY <2>2, <2>3, <2>4 DEF Bijection, Injection, Surjection, IsInjective
<1>10. Cardinality(upTo) = i
  <2>1. ExistsBijection(1..i, upTo)
    BY <1>9 DEF ExistsBijection
  <2>2. i \in Nat /\ i >= 1
    BY <1>1, <1>5
  <2>3. IsFiniteSet(1..i) /\ Cardinality(1..i) = i
    BY <2>2, FS_Interval
  <2> HIDE DEF upTo
  <2> QED
    BY <2>1, <2>3, FS_Bijection
<1> QED
  BY <1>6, <1>10 DEF PlaceOf, own

(* Min of two naturals.                                                    *)
LEMMA LeastOfTwo ==
  ASSUME NEW k \in Nat, NEW n \in Nat
  PROVE  /\ Min({k, n}) \in Nat
         /\ \A i \in Nat : i <= Min({k, n}) <=> i <= k /\ i <= n
<1>1. k <= n => Min({k, n}) = k
  BY DEF Min
<1>2. n <= k => Min({k, n}) = n
  BY DEF Min
<1> QED
  BY <1>1, <1>2

(* The references that a hover lists are the first that an element owns.   *)
LEMMA ListedFirst ==
  ASSUME QueryInv, NEW p \in DOMAIN shortnames
  PROVE  /\ \A i \in DOMAIN Listed(p) :
              /\ Listed(p)[i] \in Owned(p)
              /\ PlaceOf(Listed(p)[i], p) = i
              /\ i <= MaxLinks
         /\ \A r \in Owned(p) : PlaceOf(r, p) <= MaxLinks =>
              /\ PlaceOf(r, p) \in DOMAIN Listed(p)
              /\ Listed(p)[PlaceOf(r, p)] = r
<1> DEFINE own == ownReferences[p]
           m == Min({MaxLinks, Len(own)})
<1>1. /\ p \in 1..Len(shortnames) /\ p \in 1..Len(ownReferences)
      /\ own \in Seq(Pointer)
      /\ Len(own) \in Nat /\ DOMAIN own = 1..Len(own)
  BY StoredElements, OwnReferencesTypes DEF QueryInv, StorageInv
<1>2. \A i \in 1..Len(own) : own[i] \in Owned(p) /\ PlaceOf(own[i], p) = i
  BY PlaceOfListed
<1>3. \A r \in Owned(p) : \E i \in 1..Len(own) : own[i] = r
  <2>1. \A s \in 1..Len(references) :
           references[s].owner = p <=> \E j \in DOMAIN own : own[j] = s
    BY <1>1 DEF QueryInv, OwnersInv, OwnersAgree
  <2>2. DOMAIN references = 1..Len(references)
    BY StoredReferences
  <2> QED
    BY <1>1, <2>1, <2>2 DEF Owned
<1> HIDE DEF own
<1>4. /\ MaxLinks \in Nat /\ m \in Nat
      /\ \A i \in Nat : i <= m <=> i <= MaxLinks /\ i <= Len(own)
  <2>1. MaxLinks \in Nat
    BY QueriesAssumption
  <2> HIDE DEF m
  <2> QED
    BY <1>1, <2>1, LeastOfTwo DEF m
<1>5. Listed(p) = SubSeq(own, 1, m)
  BY DEF Listed, own
<1> HIDE DEF m
<1>6. /\ DOMAIN Listed(p) = 1..m
      /\ \A i \in 1..m : Listed(p)[i] = own[i]
  <2>1. \A i \in 1..m : own[i] \in Pointer
    <3>1. \A i \in 1..m : i \in 1..Len(own)
      BY <1>1, <1>4
    <3> QED
      BY <1>1, <3>1, ElementOfSeq
  <2>2. /\ SubSeq(own, 1, m) \in Seq(Pointer)
        /\ Len(SubSeq(own, 1, m)) = IF 1 <= m THEN m - 1 + 1 ELSE 0
        /\ \A i \in 1..(m - 1 + 1) : SubSeq(own, 1, m)[i] = own[1 + i - 1]
    BY <1>4, <2>1, SubSeqProperties
  <2>3. Len(SubSeq(own, 1, m)) = m /\ m - 1 + 1 = m
    BY <1>4, <2>2
  <2>4. DOMAIN SubSeq(own, 1, m) = 1..m
    BY <2>2, <2>3, LenProperties
  <2>5. \A i \in 1..m : SubSeq(own, 1, m)[i] = own[i]
    BY <1>4, <2>2, <2>3
  <2> QED
    BY <1>5, <2>4, <2>5
<1>7. \A i \in 1..m : i \in 1..Len(own) /\ i <= MaxLinks
  <2>1. \A i \in 1..m : i \in Nat /\ i >= 1 /\ i <= m
    BY <1>4
  <2>2. \A i \in 1..m : i <= MaxLinks /\ i <= Len(own)
    BY <1>4, <2>1
  <2> QED
    BY <1>1, <2>1, <2>2
<1>8. ASSUME NEW r \in Owned(p), PlaceOf(r, p) <= MaxLinks
      PROVE  PlaceOf(r, p) \in 1..m /\ own[PlaceOf(r, p)] = r
  <2>1. PICK i \in 1..Len(own) : own[i] = r
    BY <1>3
  <2>2. PlaceOf(r, p) = i
    BY <1>2, <2>1
  <2>3. i \in 1..m
    <3>1. i \in Nat /\ i >= 1 /\ i <= Len(own) /\ i <= MaxLinks
      BY <1>1, <1>8, <2>2
    <3>2. i <= m
      BY <1>4, <3>1
    <3> QED
      BY <1>4, <3>1, <3>2
  <2> QED
    BY <2>1, <2>2, <2>3
<1> QED
  BY <1>2, <1>6, <1>7, <1>8

(* The links of a hover are the definitions of the first references.       *)
LEMMA HoverLinksHold == QueryInv => HoverLinksAreDefinitions
<1> SUFFICES ASSUME QueryInv, NEW p \in DOMAIN shortnames
             PROVE
      LET elem == shortnames[p]
          first == {r \in Owned(p) : PlaceOf(r, p) <= MaxLinks}
          definition(r) == getDefinition(references[r].fileIndex, EndOf(r))
          hover == getHover(elem.fileIndex, elem.charOffset)
          link(r) == hover.value.links[PlaceOf(r, p)]
      IN IF hover.outcome = "found"
         THEN /\ hover.value.element = p
              /\ DOMAIN hover.value.links = {PlaceOf(r, p) : r \in first}
              /\ \A r \in first :
                   \/ \E q \in DOMAIN shortnames :
                        definition(r) = Found(q) /\ link(r) = {q}
                   \/ definition(r) = multipleDefinition /\ Cardinality(link(r)) > 1
         ELSE \E r \in first :
                getShortnamesByFullPath(references[r].targetPath) = {}
  BY DEF HoverLinksAreDefinitions
<1> DEFINE elem == shortnames[p]
           first == {r \in Owned(p) : PlaceOf(r, p) <= MaxLinks}
           definition(r) == getDefinition(references[r].fileIndex, EndOf(r))
           hover == getHover(elem.fileIndex, elem.charOffset)
           listed == Listed(p)
           targets(r) == getShortnamesByFullPath(references[r].targetPath)
           links == [i \in DOMAIN listed |-> targets(listed[i])]
           value == [element |-> p, links |-> links]
<1>1. hover = IF \E i \in DOMAIN listed : targets(listed[i]) = {}
              THEN elementNotFound ELSE Found(value)
  <2>1. ElementAt(elem.fileIndex, elem.charOffset) = Found(p)
    BY ElementAtName DEF QueryInv
  <2>2. elem.fileIndex \in DOMAIN newlineOffsets
    BY NamesHaveNewlines
  <2>3. Found(p).outcome = "found" /\ Found(p).value = p
    BY FoundParts
  <2> QED
    BY <2>1, <2>2, <2>3 DEF getHover, AtPosition
<1>2. \A i \in DOMAIN listed : listed[i] \in first /\ PlaceOf(listed[i], p) = i
  BY ListedFirst
<1>3. \A r \in first : PlaceOf(r, p) \in DOMAIN listed /\ listed[PlaceOf(r, p)] = r
  BY ListedFirst
<1>4. CASE \E i \in DOMAIN listed : targets(listed[i]) = {}
  <2>1. hover.outcome # "found"
    BY <1>1, <1>4 DEF elementNotFound
  <2>2. \E r \in first : targets(r) = {}
    BY <1>2, <1>4
  <2> HIDE DEF hover
  <2> QED
    BY <2>1, <2>2 DEF hover
<1>5. CASE \A i \in DOMAIN listed : targets(listed[i]) # {}
  <2>1. hover.outcome = "found" /\ hover.value = value
    <3>1. hover = Found(value)
      BY <1>1, <1>5
    <3> HIDE DEF hover, value
    <3> QED
      BY <3>1, FoundParts
  <2>2. value.element = p /\ value.links = links
    OBVIOUS
  <2>3. DOMAIN links = {PlaceOf(r, p) : r \in first}
    <3>1. DOMAIN links = DOMAIN listed
      OBVIOUS
    <3> HIDE DEF links, listed, first
    <3>2. \A i \in DOMAIN listed : \E r \in first : PlaceOf(r, p) = i
      BY <1>2
    <3>3. \A r \in first : PlaceOf(r, p) \in DOMAIN listed
      BY <1>3
    <3> QED
      BY <3>1, <3>2, <3>3
  <2>4. ASSUME NEW r \in first
        PROVE  \/ \E q \in DOMAIN shortnames :
                    definition(r) = Found(q) /\ links[PlaceOf(r, p)] = {q}
               \/ /\ definition(r) = multipleDefinition
                  /\ Cardinality(links[PlaceOf(r, p)]) > 1
    <3>1. PlaceOf(r, p) \in DOMAIN listed /\ listed[PlaceOf(r, p)] = r
      BY <1>3
    <3>2. links[PlaceOf(r, p)] = targets(r) /\ targets(r) # {}
      BY <1>5, <3>1
    <3>3. r \in DOMAIN references
      BY DEF Owned
    <3>4. /\ Cardinality(targets(r)) # 1 => definition(r) = multipleDefinition
          /\ Cardinality(targets(r)) = 1 =>
               \E q \in DOMAIN shortnames :
                 targets(r) = {q} /\ definition(r) = Found(q)
      BY <3>3, DefinitionAtEnd
    <3>5. Cardinality(targets(r)) \in Nat /\ Cardinality(targets(r)) # 0
      <4>1. IsFiniteSet(targets(r))
        BY StoredFinite DEF getShortnamesByFullPath, QueryInv
      <4> HIDE DEF targets
      <4> QED
        BY <3>2, <4>1, FS_CardinalityType, FS_EmptySet
    <3>6. Cardinality(targets(r)) = 1 \/ Cardinality(targets(r)) > 1
      BY <3>5
    <3> HIDE DEF targets, definition, links, first
    <3> QED
      BY <3>2, <3>4, <3>6
  <2> HIDE DEF hover, links, definition, first
  <2>5. /\ hover.value.element = p
        /\ hover.value.links = links
    BY <2>1, <2>2
  <2> HIDE DEF value
  <2>6. /\ DOMAIN hover.value.links = {PlaceOf(r, p) : r \in first}
        /\ \A r \in first :
             \/ \E q \in DOMAIN shortnames :
                  definition(r) = Found(q) /\ hover.value.links[PlaceOf(r, p)] = {q}
             \/ /\ definition(r) = multipleDefinition
                /\ Cardinality(hover.value.links[PlaceOf(r, p)]) > 1
    BY <2>3, <2>4, <2>5
  <2> QED
    BY <2>1, <2>5, <2>6 DEF hover, definition, first
<1> QED
  BY <1>4, <1>5

-----------------------------------------------------------------------------
(* The properties.                                                         *)

(* The tree view has each name below a path once, whatever the files that  *)
(* define it, and below a path that is defined once the check for          *)
(* duplicates makes no difference (getChildren, xmlParser.cpp:186).        *)
THEOREM NamesListedOnce == Spec => []ChildrenOnce
BY StorageInvInvariant, ChildrenOnceHolds, PTL

(* What getChildren marks as a node to unfold has something below it, and  *)
(* what it does not mark has not, when its name is defined in one file     *)
(* (getChildren, xmlParser.cpp:199).                                       *)
THEOREM FoldMarkersAreRight == Spec => []FoldMarker
BY StorageInvInvariant, FoldMarkerHolds, PTL

(* getParent goes up where getChildren has gone down, in the file it is    *)
(* asked about, to a node with the same fold marker.                       *)
THEOREM ParentsLeadUp == Spec => []ParentOfChild
BY StorageInvInvariant, ParentOfChildHolds, PTL

(* The owner that getOwner leads to is the element that lists the          *)
(* reference, the place getReferences links to is the same, and no name    *)
(* between it and the reference is missed by getNearestShortname.          *)
THEOREM OwnersLeadToElements == Spec => []OwnerAgrees
BY QueryInvInvariant, OwnerAgreesHolds, PTL

(* With the cursor on the k-th name of a reference's path, getDefinition   *)
(* leads to the element whose full path are these k names, in the file     *)
(* that defines the whole path: the parents of an element never run out    *)
(* (helper_getShortnameFromInnerPath, xmlParser.cpp:29).                   *)
THEOREM DefinitionsFollowPaths == Spec => []DefinitionOfPrefix
BY QueryInvInvariant, DefinitionOfPrefixHolds, PTL

(* The references that getReferences finds from the name of an element are *)
(* those on whose last name getDefinition leads back to its path; asked    *)
(* from such a reference, where no name is read instead, it finds the      *)
(* same.                                                                   *)
THEOREM ReferencesAndDefinitions == Spec => []ReferencesInvertDefinition
BY QueryInvInvariant, ReferencesInvertDefinitionHolds, PTL

(* The hover on a name links to the definitions of the first references    *)
(* that its element owns, in their order and as many as there are, or      *)
(* fails because one of them leads nowhere (getHover).                     *)
THEOREM HoverLinks == Spec => []HoverLinksAreDefinitions
BY QueryInvInvariant, HoverLinksHold, PTL
===========================================================================
