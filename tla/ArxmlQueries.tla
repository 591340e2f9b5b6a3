---------------------------- MODULE ArxmlQueries ----------------------------
(***************************************************************************)
(* The queries of lsp::XmlParser (xmlParser.cpp: getHover, getDefinition,  *)
(* getReferences, getChildren, getOwner, getNearestShortname, getParent)   *)
(* on a storage that ArxmlParser has filled.                               *)
(*                                                                         *)
(* A query changes nothing and runs between two files: it is an operator   *)
(* of the storage and of its parameters.  A file is its index, and a       *)
(* position is the offset that getOffsetFromPosition makes of it.  A place *)
(* in an answer is <<file, offset>>.                                       *)
(*                                                                         *)
(* All names are equally long, so the slashes of a path are at known       *)
(* places.                                                                 *)
(***************************************************************************)
EXTENDS ArxmlParser

CONSTANT MaxLinks      \* references a hover lists: 10 in the code

ASSUME QueriesAssumption == MaxLinks \in Nat

(* Outcomes besides Found(_) and elementNotFound.                          *)
multipleDefinition == [outcome |-> "multipleDefinition"]
undefined == [outcome |-> "undefined"]

Place(elem) == <<elem.fileIndex, elem.charOffset>>

(* getOffsetFromPosition reads newlineOffsets_[file], which need not exist. *)
AtPosition(file, result) ==
  IF file \in DOMAIN newlineOffsets THEN result ELSE undefined

-----------------------------------------------------------------------------
(* The element a position points to.                                       *)

(* Mutant: a slash under the cursor is not counted.                        *)
SlashesAfter(path, d) ==
  Cardinality({k \in 1..(Len(path) - 1) : k * (NameWidth + 1) - 1 > d})

(* The number of slashes in a path from its character d on, d from 0.      *)
SlashesFrom(path, d) ==
  Cardinality({k \in 1..(Len(path) - 1) : k * (NameWidth + 1) - 1 >= d})

(* parent, taken n times: nullptr when there are not as many.              *)
Ancestor(p, n) ==
  LET climb[i \in 0..n] ==
        IF i = 0 \/ climb[i - 1] = nullptr
        THEN IF i = 0 THEN p ELSE nullptr
        ELSE shortnames[climb[i - 1]].parent
  IN climb[n]

helper_getShortnameFromInnerPath(r, offset) ==
  LET targets == getShortnamesByFullPath(references[r].targetPath)
      target == CHOOSE p \in targets : TRUE
      above == SlashesFrom(getFullPath(shortnames[target]),
                           offset - references[r].charOffset)
  IN IF Cardinality(targets) # 1 THEN multipleDefinition
     ELSE IF Ancestor(target, above) = nullptr THEN elementNotFound
     ELSE Found(Ancestor(target, above))

(* The element whose name is at the offset, or else the one that the       *)
(* reference at the offset leads to.                                       *)
ElementAt(file, offset) ==
  LET named == getShortnameByOffset(offset, file)
      reference == getReferenceByOffset(offset, file)
  IN IF named.outcome = "found" \/ reference.outcome # "found"
     THEN named
     ELSE helper_getShortnameFromInnerPath(reference.value, offset)

-----------------------------------------------------------------------------
(* The queries.                                                            *)

(* Mutant: the first references of the storage, not of the element.        *)
ListedOfAll(p) == [i \in 1..Min({MaxLinks, Len(ownReferences[p])}) |-> i]

(* The references of an element that a hover lists.                        *)
Listed(p) == SubSeq(ownReferences[p], 1, Min({MaxLinks, Len(ownReferences[p])}))

(* The element and, for each reference listed, the elements that have its  *)
(* path: one to link to, or several to complain about.                     *)
getHover(file, offset) ==
  LET elem == ElementAt(file, offset)
      listed == Listed(elem.value)
      targets(r) == getShortnamesByFullPath(references[r].targetPath)
  IN AtPosition(file,
       IF elem.outcome # "found" THEN elem
       ELSE IF \E i \in DOMAIN listed : targets(listed[i]) = {} THEN elementNotFound
       ELSE Found([element |-> elem.value,
                   links |-> [i \in DOMAIN listed |-> targets(listed[i])]]))

getDefinition(file, offset) ==
  LET reference == getReferenceByOffset(offset, file)
  IN AtPosition(file,
       IF reference.outcome # "found" THEN reference
       ELSE helper_getShortnameFromInnerPath(reference.value, offset))

(* For each reference to the element, its own place or, when the setting   *)
(* referenceLinkToParentShortname is on, that of its owner.                *)
getReferences(file, offset, linkToOwner) ==
  LET elem == ElementAt(file, offset)
      found == getReferencesByShortname(elem.value)
      owner(r) == references[r].owner
  IN AtPosition(file,
       IF elem.outcome # "found" THEN elem
       ELSE IF linkToOwner /\ \E r \in found : owner(r) = nullptr THEN undefined
       ELSE Found([r \in found |->
              <<references[r].fileIndex,
                IF linkToOwner THEN shortnames[owner(r)].charOffset
                               ELSE references[r].charOffset>>]))

(* Mutant: the marker is taken from the references.                        *)
TreeElementByReferences(p, once) ==
  [cState |-> IF ownReferences[p] # <<>> THEN 1 ELSE 0,
   name |-> shortnames[p].name, path |-> shortnames[p].path,
   place |-> Place(shortnames[p]), unique |-> once]

TreeElement(p, once) ==
  [cState |-> IF children[p] # <<>> THEN 1 ELSE 0,
   name |-> shortnames[p].name, path |-> shortnames[p].path,
   place |-> Place(shortnames[p]), unique |-> once]

(* Mutant: only the definitions of one file are compared.                  *)
SameInFile(elems, p) ==
  {q \in elems : /\ shortnames[q].name = shortnames[p].name
                 /\ shortnames[q].fileIndex = shortnames[p].fileIndex}

(* The elements of the same name as p, p included.                         *)
SameName(elems, p) ==
  {q \in elems : shortnames[q].name = shortnames[p].name}

(* The elements right below a path.  When the path itself is not unique,   *)
(* of several with the same name only the first in the index, so of the    *)
(* first file, is in the answer, and is marked.                            *)
getChildren(path, unique) ==
  LET elems == getShortnamesByPathOnly(path)
      first(p) == \A q \in SameName(elems, p) :
                    shortnames[p].fileIndex <= shortnames[q].fileIndex
  IN IF unique THEN {TreeElement(p, TRUE) : p \in elems}
     ELSE {TreeElement(p, Cardinality(SameName(elems, p)) = 1) :
             p \in {q \in elems : first(q)}}

(* The owner is looked up in the file of the request.                      *)
getOwner(file, offset) ==
  LET reference == getReferenceByOffset(offset, file)
      owner == references[reference.value].owner
  IN AtPosition(file,
       IF reference.outcome # "found" THEN reference
       ELSE IF owner = nullptr THEN undefined
       ELSE Found(<<file, shortnames[owner].charOffset>>))

(* Nothing found is an element with an empty name, not an exception.       *)
getNearestShortname(file, offset) ==
  LET shortname == getLastShortnameByOffset(offset, file)
  IN AtPosition(file,
       IF shortname.outcome # "found" THEN Found({})
       ELSE Found({TreeElement(shortname.value, TRUE)}))

(* Mutant: the element is looked up in every file.                         *)
getParentAnywhere(path, file) ==
  LET elems == getShortnamesByFullPath(path)
      parent == shortnames[CHOOSE p \in elems : TRUE].parent
  IN IF elems = {} THEN elementNotFound
     ELSE IF parent = nullptr THEN Found({})
     ELSE Found({[TreeElement(parent, TRUE) EXCEPT !.cState = 1]})

(* A root has none: an element with an empty name again.                   *)
getParent(path, file) ==
  LET shortname == getShortnameByFullPath(path, file)
      parent == shortnames[shortname.value].parent
  IN IF shortname.outcome # "found" THEN shortname
     ELSE IF parent = nullptr THEN Found({})
     ELSE Found({[TreeElement(parent, TRUE) EXCEPT !.cState = 1]})

-----------------------------------------------------------------------------
(* Properties.  They are about the storage when no file is being parsed.   *)

(* The last place of a reference in its file, as the server counts them,   *)
(* and all of them.                                                        *)
EndOf(r) == references[r].charOffset + PathWidth(references[r].targetPath)

Cursors(r) == references[r].charOffset..EndOf(r)

(* With the cursor on the k-th name of a reference's path or on the slash  *)
(* before it, the definition is the element whose full path is these k     *)
(* names, in the file that defines the whole path; and elementNotFound is  *)
(* never thrown, as there are always parents enough (xmlParser.cpp:29-37). *)
DefinitionOfPrefix ==
  mode = "idle" =>
    \A r \in DOMAIN references : \A offset \in Cursors(r) :
      LET path == references[r].targetPath
          targets == getShortnamesByFullPath(path)
          k == 1 + (offset - references[r].charOffset) \div (NameWidth + 1)
          answer == getDefinition(references[r].fileIndex, offset)
      IN IF Cardinality(targets) # 1 THEN answer = multipleDefinition
         ELSE /\ answer.outcome = "found"
              /\ getFullPath(shortnames[answer.value]) = SubSeq(path, 1, k)
              /\ \A p \in targets :
                   shortnames[answer.value].fileIndex = shortnames[p].fileIndex

(* References and definitions are inverse, from any file to any file: the  *)
(* references found from the name of an element are those on whose last    *)
(* name the cursor leads back to the path of the element, or that several  *)
(* elements share it; asked from such a reference they are the same, but   *)
(* where a name of another file is read instead (see NameOfOwnFile).       *)
ReferencesInvertDefinition ==
  mode = "idle" =>
    \A p \in DOMAIN shortnames :
      LET place == Place(shortnames[p])
          answer == getReferences(place[1], place[2], FALSE)
          definition(r) == getDefinition(references[r].fileIndex, EndOf(r))
          leadsTo(r) ==
            \/ definition(r) = Found(p)
            \/ /\ definition(r) = multipleDefinition
               /\ p \in getShortnamesByFullPath(references[r].targetPath)
          hidden(r) ==
            getShortnameByOffset(EndOf(r), references[r].fileIndex).outcome = "found"
      IN /\ answer.outcome = "found"
         /\ DOMAIN answer.value = {r \in DOMAIN references : leadsTo(r)}
         /\ \A r \in DOMAIN references :
              /\ definition(r) = Found(p)
              /\ ~hidden(r)
              => getReferences(references[r].fileIndex, EndOf(r), FALSE) = answer

(* The references of an element in the storage, in the order of the files, *)
(* and the place of one of them in this order.                             *)
Owned(p) == {r \in DOMAIN references : references[r].owner = p}
PlaceOf(r, p) == Cardinality({s \in Owned(p) : s <= r})

(* The hover on a name is about that element, and its n-th link leads      *)
(* where the definition of the element's n-th reference does; there is one *)
(* for each of the first MaxLinks references, and no other; the hover      *)
(* fails when one of them leads nowhere.                                   *)
HoverLinksAreDefinitions ==
  mode = "idle" =>
    \A p \in DOMAIN shortnames :
      LET elem == shortnames[p]
          first == {r \in Owned(p) : PlaceOf(r, p) <= MaxLinks}
          definition(r) == getDefinition(references[r].fileIndex, EndOf(r))
          hover == getHover(elem.fileIndex, elem.charOffset)
          link(r) == hover.value.links[PlaceOf(r, p)]
      IN IF hover.outcome = "found"
         THEN /\ hover.value.element = p
              /\ DOMAIN hover.value.links = {PlaceOf(r, p) : r \in first}
              /\ \A r \in first :
                   \/ \E q \in DOMAIN shortnames :
                        definition(r) = Found(q) /\ link(r) = {q}
                   \/ definition(r) = multipleDefinition /\ Cardinality(link(r)) > 1
         ELSE \E r \in first :
                getShortnamesByFullPath(references[r].targetPath) = {}

(* The owner a reference leads to is an element that lists the reference;  *)
(* getReferences, asked to link to owners, leads to the same place; and    *)
(* the nearest name before the reference is this one or comes after it.    *)
OwnerAgrees ==
  mode = "idle" =>
    \A r \in DOMAIN references :
      LET file == references[r].fileIndex
          owner == getOwner(file, references[r].charOffset)
          nearest == getNearestShortname(file, references[r].charOffset)
          named == getShortnameByOffset(owner.value[2], file)
      IN owner.outcome = "found" =>
           /\ named.outcome = "found"
           /\ \E i \in DOMAIN ownReferences[named.value] :
                ownReferences[named.value][i] = r
           /\ \E e \in nearest.value : e.place[1] = file /\ e.place[2] >= owner.value[2]
           /\ \A p \in getShortnamesByFullPath(references[r].targetPath) :
                LET place == Place(shortnames[p])
                    answer == getReferences(place[1], place[2], TRUE)
                IN answer.outcome = "found" => answer.value[r] = owner.value

(* The paths an element may have in the storage, and the empty one.        *)
Paths == {<<>>} \cup {getFullPath(shortnames[p]) : p \in DOMAIN shortnames}

(* The tree view has each name below a path once, whatever the files that  *)
(* define it, and below a unique path the check for duplicates makes no    *)
(* difference, as the comment at xmlParser.cpp:186 says.                   *)
ChildrenOnce ==
  mode = "idle" =>
    \A path \in Paths :
      /\ {e.name : e \in getChildren(path, FALSE)}
           = {shortnames[p].name : p \in getShortnamesByPathOnly(path)}
      /\ \A d, e \in getChildren(path, FALSE) : d.name = e.name => d = e
      /\ Cardinality(getShortnamesByFullPath(path)) = 1 =>
           getChildren(path, TRUE) = getChildren(path, FALSE)

(* A node of the tree view that can be unfolded has something below it,    *)
(* and one that cannot has not, as long as its name is not defined in      *)
(* several files.                                                          *)
FoldMarker ==
  mode = "idle" =>
    \A path \in Paths : \A e \in getChildren(path, FALSE) :
      LET below == getChildren(Append(path, e.name), e.unique)
      IN /\ e.cState = 1 => below # {}
         /\ e.unique => (e.cState = 1 <=> below # {})

(* getParent goes up where getChildren has gone down, in whichever of the  *)
(* files that define the name it is asked, and what it leads to has a fold *)
(* marker like the one getChildren gives it, if in the same file.          *)
ParentOfChild ==
  mode = "idle" =>
    \A path \in Paths : \A p \in getShortnamesByPathOnly(path) :
      LET up == getParent(getFullPath(shortnames[p]), shortnames[p].fileIndex)
      IN /\ up.outcome = "found"
         /\ up.value = {} <=> path = <<>>
         /\ \A parent \in up.value :
              /\ Append(parent.path, parent.name) = path
              /\ parent.place[1] = shortnames[p].fileIndex
              /\ \A e \in getChildren(parent.path, FALSE) :
                   e.place = parent.place => e.cState = parent.cState

(* What arxmlStorage.hpp:65 says of the index by offset: "it doesnt make   *)
(* much sense to search of an offset without saying what file"; so a name  *)
(* found at an offset is one of the file that was asked about; here, the   *)
(* last file, up to its end.                                               *)
NameOfOwnFile ==
  mode = "idle" =>
    \A offset \in TagWidth..(pos - 1) :
      LET named == getShortnameByOffset(offset, fileIndex)
      IN named.outcome = "found" =>
           shortnames[named.value].fileIndex = fileIndex

=============================================================================
