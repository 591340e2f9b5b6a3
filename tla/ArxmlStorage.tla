---------------------------- MODULE ArxmlStorage ----------------------------
(***************************************************************************)
(* The data structure that holds the parsed data of a set of files         *)
(* (lsp::ArxmlStorage: arxmlStorage.hpp, arxmlStorage.cpp): its state, the *)
(* insertions the parser makes and the lookups the requests make.          *)
(*                                                                         *)
(* A pointer to a ShortnameElement is its position in shortnames, a        *)
(* pointer to a ReferenceElement its position in references: elements are  *)
(* never moved nor removed.  A path "a/b/c" is the sequence of its names.  *)
(* File indices, 0-based in the code, are 1-based here.                    *)
(***************************************************************************)
EXTENDS Integers, Sequences, SequencesExt

CONSTANTS Name,        \* short names: not empty, without '/'
          NameWidth,   \* characters of a name
          Uri          \* URIs of files

ASSUME StorageAssumption == NameWidth \in Nat \ {0}

VARIABLES shortnames,      \* the elements of the multi-index container shortnames_
          children,        \* ShortnameElement::children, by element
          ownReferences,   \* ShortnameElement::references, by element
          references,      \* references_
          newlineOffsets,  \* newlineOffsets_: for each vector, the index of
                           \* the file whose newlines it holds
          URIs             \* URIs_

storageVars ==
  <<shortnames, children, ownReferences, references, newlineOffsets, URIs>>

nullptr == 0
Pointer == Nat \ {nullptr}
Path == Seq(Name)

ShortnameElement ==
  [name : Name, path : Path, charOffset : Nat, fileIndex : Pointer,
   parent : Nat]
ReferenceElement ==
  [targetPath : Path, charOffset : Nat, owner : Nat, fileIndex : Pointer]

StorageTypeOK ==
  /\ shortnames \in Seq(ShortnameElement)
  /\ children \in Seq(Seq(Pointer))
  /\ ownReferences \in Seq(Seq(Pointer))
  /\ references \in Seq(ReferenceElement)
  /\ newlineOffsets \in Seq(Pointer)
  /\ URIs \in Seq(Uri)

StorageInit ==
  /\ shortnames = <<>>
  /\ children = <<>>
  /\ ownReferences = <<>>
  /\ references = <<>>
  /\ newlineOffsets = <<>>
  /\ URIs = <<>>

getFullPath(elem) == Append(elem.path, elem.name)

-----------------------------------------------------------------------------
(* Insertions.                                                             *)

(* The container has two unique indices, (full path, file) and             *)
(* (file, offset): an element equal to one it holds in either of them is   *)
(* not inserted, and the pointer to the one it holds is returned.          *)
Conflicts(elem, other) ==
  /\ elem.fileIndex = other.fileIndex
  /\ \/ getFullPath(elem) = getFullPath(other)
     \/ elem.charOffset = other.charOffset

IsNew(elem) ==
  \A p \in 1..Len(shortnames) : ~Conflicts(elem, shortnames[p])

(* The pointer addShortname(elem) returns.                                 *)
SlotOf(elem) ==
  IF IsNew(elem)
  THEN Len(shortnames) + 1
  ELSE CHOOSE p \in 1..Len(shortnames) : Conflicts(elem, shortnames[p])

addShortname(elem) ==
  shortnames' = IF IsNew(elem) THEN Append(shortnames, elem) ELSE shortnames

addReference(elem) == references' = Append(references, elem)

addFileIndex(uri) == URIs' = Append(URIs, uri)

-----------------------------------------------------------------------------
(* Lookups.                                                                *)

containsFile(uri) == \E i \in 1..Len(URIs) : URIs[i] = uri

(* A lookup finds a pointer, or throws elementNotFoundException.           *)
Found(value) == [outcome |-> "found", value |-> value]
elementNotFound == [outcome |-> "elementNotFound"]

getShortnameByFullPath(fullPath, file) ==
  LET equal == {p \in DOMAIN shortnames :
                  /\ getFullPath(shortnames[p]) = fullPath
                  /\ shortnames[p].fileIndex = file}
  IN IF equal = {} THEN elementNotFound ELSE Found(CHOOSE p \in equal : TRUE)

(* The elements with a full path, in any file.                             *)
getShortnamesByFullPath(fullPath) ==
  {p \in DOMAIN shortnames : getFullPath(shortnames[p]) = fullPath}

(* Mutant: references to an element of the same name anywhere.             *)
referencesByName(p) ==
  {r \in DOMAIN references :
     references[r].targetPath # <<>>
       /\ Last(references[r].targetPath) = shortnames[p].name}

getReferencesByShortname(p) ==
  {r \in DOMAIN references :
     references[r].targetPath = getFullPath(shortnames[p])}

getShortnamesByPathOnly(path) ==
  {p \in DOMAIN shortnames : shortnames[p].path = path}

(* The elements that upper_bound passes in the index by (file, offset),    *)
(* and the last one of them.                                               *)
UpTo(file, offset) ==
  {p \in DOMAIN shortnames :
     \/ shortnames[p].fileIndex < file
     \/ shortnames[p].fileIndex = file /\ shortnames[p].charOffset <= offset}

LastOf(elems) ==
  CHOOSE p \in elems : \A q \in elems :
    q \in UpTo(shortnames[p].fileIndex, shortnames[p].charOffset)

PathWidth(path) ==
  IF path = <<>> THEN 0 ELSE Len(path) * (NameWidth + 1) - 1

(* The last element up to the offset, when the offset lies in it or at its *)
(* edge.                                                                   *)
getShortnameByOffset(offset, file) ==
  LET p == LastOf(UpTo(file, offset))
      elem == shortnames[p]
  IN IF /\ UpTo(file, offset) # {}
        /\ offset \in elem.charOffset..(elem.charOffset + NameWidth + 1)
     THEN Found(p) ELSE elementNotFound

getReferenceByOffset(offset, file) ==
  LET matching == {r \in DOMAIN references :
        /\ references[r].fileIndex = file
        /\ offset \in references[r].charOffset
             ..(references[r].charOffset + PathWidth(references[r].targetPath))}
  IN IF matching = {} THEN elementNotFound ELSE Found(Min(matching))

(* The last element of the file up to the offset.                          *)
getLastShortnameByOffset(offset, file) ==
  LET ofFile == {p \in UpTo(file, offset) : shortnames[p].fileIndex = file}
  IN IF ofFile = {} THEN elementNotFound ELSE Found(LastOf(ofFile))
=============================================================================
