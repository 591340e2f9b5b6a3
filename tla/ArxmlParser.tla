---------------------------- MODULE ArxmlParser ----------------------------
(***************************************************************************)
(* The parser of ARXML files (xmlParser.cpp: parseSingleFile,              *)
(* parseNewlines, parseShortnamesAndReferences) filling one ArxmlStorage   *)
(* with the files of a folder, one after the other.                        *)
(*                                                                         *)
(* The parser walks over the tags of a file and keeps no tree: it has a    *)
(* depth counter, the kinds of the last two tags, and the stack            *)
(* depthElements of the named elements it is in, each with the depth at    *)
(* which it was found.                                                     *)
(*                                                                         *)
(* The file is the environment: doc is the stack of its open elements, and *)
(* any tag that keeps the file well-formed may come next.  One step is one *)
(* tag.  The text in the next tag is at offset pos, which grows by         *)
(* TagWidth with each.                                                     *)
(*                                                                         *)
(* A start tag with DEST anywhere in it is a reference to the parser, be   *)
(* it <DESTINATION-URI-DEFS>: it does not count as open, and the tag after *)
(* it is skipped as if it were its end tag.  From then on, depth and doc   *)
(* are out of step; misread records it.                                    *)
(*                                                                         *)
(* A definition whose comment starts with "Mutant" is a variant of the one *)
(* that follows it, with a fault that a property has to detect.            *)
(***************************************************************************)
EXTENDS ArxmlStorage

CONSTANTS Target,      \* paths the references of a file may have
          MayBeEmpty,  \* may a file of the folder be empty?
          MayMisread,  \* may other tags than those of references have DEST?
          TagWidth,    \* characters from one text of a file to the next
          Uint32,      \* the number of values of a uint32_t: 2^32 in the code
          MaxFiles,    \* bound on the number of files
          MaxTags      \* bound on the number of tags of a file

ASSUME ParserAssumption ==
  /\ Target \subseteq Seq(Name)
  /\ MayBeEmpty \in BOOLEAN
  /\ MayMisread \in BOOLEAN
  /\ MaxFiles \in Nat
  /\ MaxTags \in Nat

(* A text ends before the next one begins, and offsets fit in 32 bits.     *)
ASSUME WidthAssumption ==
  /\ TagWidth \in Nat \ {0}
  /\ Uint32 \in Nat
  /\ (MaxTags + 1) * TagWidth < Uint32
  /\ \A target \in Target : PathWidth(target) < TagWidth

VARIABLES mode,           \* "idle", "parsing" or, after undefined behaviour, "undefined"
          doc,            \* the open elements of the file, outermost first
          pos,            \* offset of the text in the next tag
          misread,        \* has a tag of this file been taken for a reference?
          depth,
          depthElements,
          lastTag,
          currentTag

parserVars ==
  <<mode, doc, pos, misread, depth, depthElements, lastTag, currentTag>>
vars == <<storageVars, parserVars>>

uint32_t == 0..(Uint32 - 1)

Elements == {"IDENT", "OTHER"}
Contents == {"none", "shortname", "more"}
tagType == {"opening_tag", "closing_tag", "shortname", "reference",
            "undefined_tag"}

(* depth and the depths on the stack are unsigned and wrap around.  Up to  *)
(* the first misread tag of a file they do not: depth counts the open      *)
(* elements, as Developing.md:268 says ("keeping track of the current      *)
(* depth").                                                                *)
TypeOK ==
  /\ StorageTypeOK
  /\ mode \in {"idle", "parsing", "undefined"}
  /\ doc \in Seq([tag : Elements, content : Contents])
  /\ pos \in Nat
  /\ misread \in BOOLEAN
  /\ depth \in uint32_t
  /\ ~misread => depth = Len(doc)
  /\ depthElements \in Seq([depth : uint32_t, elem : Pointer])
  /\ lastTag \in tagType
  /\ currentTag \in tagType

(* The local variables at the start of parseShortnamesAndReferences.       *)
Init ==
  /\ StorageInit
  /\ mode = "idle"
  /\ doc = <<>>
  /\ pos = 0
  /\ misread = FALSE
  /\ depth = 0
  /\ depthElements = <<>>
  /\ lastTag = "undefined_tag"
  /\ currentTag = "undefined_tag"

fileIndex == Len(URIs)

-----------------------------------------------------------------------------
(* A file is opened.  Its URI goes to URIs_ in any case, a vector of       *)
(* newline offsets to newlineOffsets_ only when the file is not empty; the *)
(* code then writes to newlineOffsets_[fileIndex], which does not exist    *)
(* when an earlier file was empty.                                         *)
BeginFile(uri, empty) ==
  /\ mode = "idle"
  /\ Len(URIs) < MaxFiles
  /\ ~containsFile(uri)
  /\ addFileIndex(uri)
  /\ pos' = TagWidth
  /\ \/ /\ empty
        /\ UNCHANGED <<mode, newlineOffsets>>
     \/ /\ ~empty
        /\ newlineOffsets' = Append(newlineOffsets, Len(URIs'))
        /\ mode' = IF Len(URIs') <= Len(newlineOffsets')
                   THEN "parsing" ELSE "undefined"
  /\ UNCHANGED <<shortnames, children, ownReferences, references, doc,
                 misread, depth, depthElements, lastTag, currentTag>>

(* Mutant: the stack is not reset between two files.                       *)
EndFileKeepingStack ==
  /\ mode = "parsing"
  /\ doc = <<>>
  /\ mode' = "idle"
  /\ misread' = FALSE
  /\ depth' = 0
  /\ lastTag' = "undefined_tag"
  /\ currentTag' = "undefined_tag"
  /\ UNCHANGED <<storageVars, doc, pos, depthElements>>

(* No tag is left: the loop ends and its local variables are gone.         *)
EndFile ==
  /\ mode = "parsing"
  /\ doc = <<>>
  /\ mode' = "idle"
  /\ misread' = FALSE
  /\ depth' = 0
  /\ depthElements' = <<>>
  /\ lastTag' = "undefined_tag"
  /\ currentTag' = "undefined_tag"
  /\ UNCHANGED <<storageVars, doc, pos>>

-----------------------------------------------------------------------------
(* The next tag of the file.  content becomes what the innermost open      *)
(* element has held so far.                                                *)
NextTag ==
  /\ mode = "parsing"
  /\ pos <= MaxTags * TagWidth
  /\ pos' = pos + TagWidth

Holds(content) ==
  IF doc = <<>> THEN doc ELSE [doc EXCEPT ![Len(doc)].content = content]

SetTag(tag) ==
  /\ lastTag' = currentTag
  /\ currentTag' = tag

(* Mutant: the end of <TAG/> is not looked at.                             *)
SkipTagCounting ==
  /\ NextTag
  /\ depth' = (depth + 1) % Uint32
  /\ SetTag("opening_tag")
  /\ UNCHANGED <<storageVars, mode, doc, misread, depthElements>>

(* <!-- -->, <? ?> and <TAG/>: skipped, and not remembered as a tag.       *)
SkipTag ==
  /\ NextTag
  /\ UNCHANGED <<storageVars, mode, doc, misread, depth, depthElements, lastTag,
                 currentTag>>

(* A start tag without DEST.                                               *)
OpenTag(tag) ==
  /\ NextTag
  /\ doc' = Append(Holds("more"), [tag |-> tag, content |-> "none"])
  /\ depth' = (depth + 1) % Uint32
  /\ SetTag("opening_tag")
  /\ UNCHANGED <<storageVars, mode, misread, depthElements>>

(* Mutant: entries at the depth d itself are popped as well.               *)
KeptBelow(stack, d) ==
  CHOOSE k \in 0..Len(stack) :
    /\ k > 0 => stack[k].depth < d
    /\ \A i \in (k + 1)..Len(stack) : stack[i].depth >= d

(* How many entries of a stack remain when those deeper than d are popped  *)
(* from its end.                                                           *)
Kept(stack, d) ==
  CHOOSE k \in 0..Len(stack) :
    /\ k > 0 => stack[k].depth <= d
    /\ \A i \in (k + 1)..Len(stack) : stack[i].depth > d

PopDeeper(stack, d) == SubSeq(stack, 1, Kept(stack, d))

(* </IDENT> straight after the SHORT-NAME it holds: the name is raised to  *)
(* the depth of the element around <IDENT>.                                *)
RaiseIdent(tag) ==
  IF currentTag = "shortname" /\ lastTag = "opening_tag" /\ tag = "IDENT"
  THEN [depthElements EXCEPT ![Len(depthElements)].depth = (@ - 1) % Uint32]
  ELSE depthElements

CloseTag ==
  /\ NextTag
  /\ doc # <<>>
  /\ doc' = Front(doc)
  /\ depth' = (depth - 1) % Uint32
  /\ depthElements' = PopDeeper(RaiseIdent(Last(doc).tag), depth')
  /\ SetTag("closing_tag")
  /\ UNCHANGED <<storageVars, mode, misread>>

(* The names of the elements of depthElements, outermost first.            *)
NamesOf(stack) == [k \in 1..Len(stack) |-> shortnames[stack[k].elem].name]

(* Mutant: the other end of the stack.                                     *)
Outermost ==
  IF depthElements = <<>> THEN nullptr ELSE Head(depthElements).elem

(* The named element the parser is in.                                     *)
Innermost ==
  IF depthElements = <<>> THEN nullptr ELSE Last(depthElements).elem

(* Mutant: parent is left at nullptr.                                      *)
NewOrphan(n) ==
  [name |-> n, path |-> NamesOf(depthElements), charOffset |-> pos,
   fileIndex |-> fileIndex, parent |-> nullptr]

(* The element that a <SHORT-NAME> fills in.                               *)
NewShortname(n) ==
  [name |-> n, path |-> NamesOf(depthElements), charOffset |-> pos,
   fileIndex |-> fileIndex, parent |-> Innermost]

(* Mutant: an element keeps one pointer only.                              *)
PushOnce(lists, p, q) ==
  IF p = nullptr THEN lists ELSE [lists EXCEPT ![p] = <<q>>]

(* The lists of children or references, with q added to those of p.        *)
PushTo(lists, p, q) ==
  IF p = nullptr THEN lists ELSE [lists EXCEPT ![p] = Append(@, q)]

(* <SHORT-NAME>n</SHORT-NAME>                                              *)
ShortName(n) ==
  LET elem == NewShortname(n)
      slot == SlotOf(elem)
      grown(lists) == IF IsNew(elem) THEN Append(lists, <<>>) ELSE lists
  IN /\ NextTag
     /\ addShortname(elem)
     /\ children' = grown(PushTo(children, Innermost, slot))
     /\ ownReferences' = grown(ownReferences)
     /\ depthElements' = Append(depthElements, [depth |-> depth, elem |-> slot])
     /\ doc' = Holds(IF doc # <<>> /\ Last(doc).content = "none"
                     THEN "shortname" ELSE "more")
     /\ SetTag("shortname")
     /\ UNCHANGED <<references, newlineOffsets, URIs, mode, misread, depth>>

(* What a start tag with DEST leaves in the storage.                       *)
StoreReference(target) ==
  /\ NextTag
  /\ addReference([targetPath |-> target, charOffset |-> pos,
                   owner |-> Innermost, fileIndex |-> fileIndex])
  /\ ownReferences' = PushTo(ownReferences, Innermost, Len(references'))
  /\ SetTag("reference")
  /\ UNCHANGED <<shortnames, children, newlineOffsets, URIs, mode, depth,
                 depthElements>>

(* <... DEST="..."> with a path, and its end tag.                          *)
Reference(target) ==
  /\ StoreReference(target)
  /\ doc' = Holds("more")
  /\ UNCHANGED misread

Entered(elems, tag) == Append(elems, [tag |-> tag, content |-> "more"])

(* What may be open behind another tag with DEST and the tag that follows. *)
(* The first is a start tag or <TAG/>.  The second is <TAG/>, a comment or *)
(* the end tag of the first; a start tag; or, behind <TAG/>, the end tag   *)
(* of the element around it.                                               *)
AfterMisread ==
  LET inside == {Holds("more")} \cup {Entered(Holds("more"), tag) : tag \in Elements}
  IN inside \cup {Entered(elems, tag) : elems \in inside, tag \in Elements}
            \cup IF doc = <<>> THEN {} ELSE {Front(doc)}

(* Another start tag with DEST in it.  Its target is what stands between   *)
(* it and the next tag: no path of an element, as which the empty path     *)
(* stands for it.                                                          *)
MisreadTag ==
  /\ MayMisread
  /\ StoreReference(<<>>)
  /\ doc' \in AfterMisread
  /\ misread' = TRUE

Next ==
  \/ \E uri \in Uri : BeginFile(uri, FALSE)
  \/ MayBeEmpty /\ \E uri \in Uri : BeginFile(uri, TRUE)
  \/ EndFile
  \/ SkipTag
  \/ \E tag \in Elements : OpenTag(tag)
  \/ CloseTag
  \/ \E n \in Name : ShortName(n)
  \/ \E target \in Target : Reference(target)
  \/ MisreadTag

Spec == Init /\ [][Next]_vars

-----------------------------------------------------------------------------
(* Properties.                                                             *)

(* An element's parent is in the same file and its full path is the        *)
(* element's path; an element has no parent just when its path is empty.   *)
(* helper_getShortnameFromInnerPath climbs parents by counting '/' in the  *)
(* full path, and relies on it (xmlParser.cpp:29-37).  It is not obvious,  *)
(* because a second definition of a name is merged with the first, whose   *)
(* parent was set elsewhere.                                               *)
ParentChain ==
  \A p \in 1..Len(shortnames) :
    LET elem == shortnames[p]
    IN /\ elem.parent = nullptr <=> elem.path = <<>>
       /\ elem.parent # nullptr =>
            /\ elem.parent \in 1..(p - 1)
            /\ shortnames[elem.parent].fileIndex = elem.fileIndex
            /\ elem.path = getFullPath(shortnames[elem.parent])

(* An element has children just when another one names it as its parent,   *)
(* and every child is one of these: the fold marker cState, computed from  *)
(* children (xmlParser.cpp:199), agrees with what getChildren would list.  *)
ChildrenAgree ==
  /\ Len(children) = Len(shortnames)
  /\ \A p, q \in 1..Len(shortnames) :
       shortnames[q].parent = p <=> \E i \in DOMAIN children[p] : children[p][i] = q

(* A reference is owned by an element of its own file that stands before   *)
(* it, and the lists of references by element are the inverse of owner:    *)
(* getOwner answers with the owner's offset in the file of the reference   *)
(* (xmlParser.cpp:222-224).                                                *)
OwnersAgree ==
  /\ Len(ownReferences) = Len(shortnames)
  /\ \A r \in 1..Len(references) :
       LET p == references[r].owner
       IN p # nullptr =>
            /\ p \in 1..Len(shortnames)
            /\ shortnames[p].fileIndex = references[r].fileIndex
            /\ shortnames[p].charOffset < references[r].charOffset
  /\ \A p \in 1..Len(shortnames), r \in 1..Len(references) :
       references[r].owner = p
         <=> \E i \in DOMAIN ownReferences[p] : ownReferences[p][i] = r

(* What Developing.md:267 says: the parser "scans the document for all     *)
(* newlines, and saves their offsets", so a file whose tags are read has   *)
(* its newlines under its index.                                           *)
NewlinesSaved ==
  mode # "idle" =>
    fileIndex <= Len(newlineOffsets) /\ newlineOffsets[fileIndex] = fileIndex

(* What ArxmlScopes sees of the state: the open elements with the names in *)
(* scope at their start tags, the named elements, the owners of references. *)
OpenScopes ==
  [i \in 1..Len(doc) |->
     [tag |-> doc[i].tag, content |-> doc[i].content,
      outer |-> NamesOf(PopDeeper(depthElements, i - 1))]]

DefinedPaths ==
  {<<shortnames[p].fileIndex, getFullPath(shortnames[p])>> :
     p \in 1..Len(shortnames)}

OwnerPaths ==
  [r \in 1..Len(references) |->
     <<references[r].fileIndex,
       IF references[r].owner = nullptr THEN <<>>
       ELSE getFullPath(shortnames[references[r].owner])>>]

(* The parser's depth counter and stack of pointers implement the lexical  *)
(* scoping of SHORT-NAMEs, in each file up to the first tag that the       *)
(* search for DEST misreads (xmlParser.cpp:495).                           *)
Scopes == INSTANCE ArxmlScopes WITH
  file <- fileIndex,
  reading <- mode = "parsing",
  lost <- misread,
  open <- IF misread THEN <<>> ELSE OpenScopes,
  scope <- IF misread THEN <<>> ELSE NamesOf(depthElements),
  defined <- DefinedPaths,
  owners <- OwnerPaths

LexicalScoping == Scopes!Spec
=============================================================================
