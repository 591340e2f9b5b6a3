----------------------------- MODULE Positions -----------------------------
(***************************************************************************)
(* Positions, a line and a character, in requests and in answers: what the *)
(* server makes of them (arxmlStorage.cpp: getOffsetFromPosition and       *)
(* getPositionFromOffset; xmlParser.cpp: parseNewlines and the places in   *)
(* the answers of the queries), on files with line breaks that ArxmlParser *)
(* reads and that the user may edit afterwards.                            *)
(*                                                                         *)
(* Between two texts a tag begins, and a line may break before it: Gap     *)
(* characters ahead of the next text, at least "<", ">" and the slash      *)
(* before a path.  A file is in memory as it was parsed; the client shows  *)
(* it as it is after the edit.                                             *)
(***************************************************************************)
EXTENDS ArxmlQueries

CONSTANTS MayEdit,    \* may the user edit a file after it was parsed?
          Gap         \* characters from a line break to the text behind it

VARIABLES breaks,     \* for each file, the offsets of its newlines in order
          edit        \* what the user has inserted, and where

textVars == <<breaks, edit>>

(* A text ends before the next tag begins: at least "</" comes between.    *)
ASSUME PositionsAssumption ==
  /\ MayEdit \in BOOLEAN
  /\ Gap \in Nat /\ Gap >= 3
  /\ NameWidth < TagWidth - Gap
  /\ \A target \in Target : PathWidth(target) < TagWidth - Gap

NoEdit == [file |-> 0]

(* The types of types.hpp that answers are made of: all numbers in them    *)
(* are unsigned.                                                           *)
Position == [line : Nat, character : Nat]
PositionRange == [start : Position, end : Position]
Location == [uri : Nat, range : PositionRange]

-----------------------------------------------------------------------------
(* The text.                                                               *)

(* The line breaks before the next tag, if it does not yet.                *)
LineBreak ==
  LET before == breaks[fileIndex]
  IN /\ mode = "parsing"
     /\ pos <= MaxTags * TagWidth
     /\ \A i \in DOMAIN before : before[i] < pos - Gap
     /\ breaks' = [breaks EXCEPT ![fileIndex] = Append(before, pos - Gap)]
     /\ UNCHANGED <<vars, edit>>

(* The user inserts a newline or another character before a tag of a file  *)
(* that was parsed.                                                        *)
Edit ==
  /\ MayEdit
  /\ mode = "idle"
  /\ edit = NoEdit
  /\ \E file \in DOMAIN URIs, k \in 1..MaxTags, newline \in BOOLEAN :
       edit' = [file |-> file, at |-> k * TagWidth - Gap, newline |-> newline]
  /\ UNCHANGED <<vars, breaks>>

(* A step of the parser; a file that begins has no line breaks yet.        *)
ReadTag ==
  /\ Next
  /\ breaks' = IF URIs' = URIs THEN breaks ELSE Append(breaks, <<>>)
  /\ UNCHANGED edit

TextInit == Init /\ breaks = <<>> /\ edit = NoEdit
TextNext == ReadTag \/ LineBreak \/ Edit
TextSpec == TextInit /\ [][TextNext]_<<vars, textVars>>

(* The newlines of a file as the client shows it, and the offset there of  *)
(* the character that was parsed at an offset.                             *)
Moved(file, offset) ==
  IF edit.file = file /\ edit.at <= offset THEN offset + 1 ELSE offset

Shown(file) ==
  {Moved(file, breaks[file][i]) : i \in DOMAIN breaks[file]}
    \cup IF edit.file = file /\ edit.newline THEN {edit.at} ELSE {}

(* The position at which the client has that character.                    *)
Cursor(file, offset) ==
  LET shown == Moved(file, offset)
      before == {b \in Shown(file) : b < shown}
  IN [line |-> Cardinality(before),
      character |-> IF before = {} THEN shown ELSE shown - 1 - Max(before)]

-----------------------------------------------------------------------------
(* The server's conversions.                                               *)

(* Mutant: the offset after the newline is stored.                         *)
parseNewlinesAfter(file) ==
  <<0>> \o [i \in DOMAIN breaks[file] |-> breaks[file][i] + 1]

(* Mutant: the entry of the first line is forgotten.                       *)
parseNewlinesOnly(file) == breaks[file]

(* 0, and the offset of each newline.                                      *)
parseNewlines(file) == <<0>> \o breaks[file]

(* newlineOffsets_[file].                                                  *)
newlines(file) == parseNewlines(newlineOffsets[file])

(* The line is not checked: of one that is not there (-1, as that of       *)
(* offset 0, or one after the last) the code reads whatever is beside the  *)
(* vector, here a number that no file has.                                 *)
LineKnown(line, file) == line + 1 \in DOMAIN newlines(file)

newlineBefore(line, file) ==
  IF LineKnown(line, file) THEN newlines(file)[line + 1] ELSE -MaxTags * TagWidth

getOffsetFromPosition(position, file) ==
  newlineBefore(position.line, file) + position.character

(* lower_bound gives the number of newline offsets below the offset.       *)
getPositionFromOffset(offset, file) ==
  LET line == Cardinality({i \in DOMAIN newlines(file) :
                             newlines(file)[i] < offset}) - 1
  IN [line |-> line, character |-> offset - newlineBefore(line, file)]

-----------------------------------------------------------------------------
(* Requests at a position, and places in answers.                          *)

offsetOfRequest(position, file) == getOffsetFromPosition(position, file) + 2

RangeOf(first, last, file) ==
  [start |-> getPositionFromOffset(first, file),
   end |-> getPositionFromOffset(last, file)]

LocationOf(file, range) == [uri |-> file, range |-> range]

(* An element of the tree view: getChildren, getNearestShortname, getParent. *)
treePosition(p) ==
  getPositionFromOffset(shortnames[p].charOffset, shortnames[p].fileIndex)

(* Mutant: the target is located by the newlines of the file asked about.  *)
targetRangeHere(r, p) ==
  RangeOf(shortnames[p].charOffset, shortnames[p].charOffset + NameWidth,
          references[r].fileIndex)

(* The parts of the link from a reference to an element.                   *)
targetRange(r, p) ==
  RangeOf(shortnames[p].charOffset, shortnames[p].charOffset + NameWidth,
          shortnames[p].fileIndex)

(* Mutant: the whole reference is underlined.                              *)
originOfWholePath(r, p) ==
  RangeOf(references[r].charOffset - 2, EndOf(r) - 1, references[r].fileIndex)

originSelectionRange(r, p) ==
  RangeOf(references[r].charOffset - 2,
          references[r].charOffset + PathWidth(getFullPath(shortnames[p])) - 1,
          references[r].fileIndex)

(* getOwner, and getReferences when it links to owners.                    *)
ownerLocation(p) ==
  LET elem == shortnames[p]
  IN LocationOf(elem.fileIndex,
       RangeOf(elem.charOffset - 1, elem.charOffset + NameWidth - 1, elem.fileIndex))

(* getReferences when it does not.                                         *)
referenceLocation(r) ==
  LET file == references[r].fileIndex
  IN LocationOf(file, RangeOf(references[r].charOffset - 2, EndOf(r) - 1, file))

-----------------------------------------------------------------------------
(* Properties.  They are about the storage when no file is being parsed.   *)

(* No place in an answer has wrapped around below zero: offset 0 has line *)
(* -1 (arxmlStorage.cpp:149-152).                                          *)
TextTypeOK ==
  /\ TypeOK
  /\ breaks \in Seq(Seq(Nat)) /\ Len(breaks) = Len(URIs)
  /\ edit = NoEdit \/ edit \in [file : DOMAIN URIs, at : Nat, newline : BOOLEAN]
  /\ mode = "idle" =>
       /\ \A p \in DOMAIN shortnames :
            /\ treePosition(p) \in Position
            /\ ownerLocation(p) \in Location
            /\ \A r \in DOMAIN references :
                 /\ originSelectionRange(r, p) \in PositionRange
                 /\ targetRange(r, p) \in PositionRange
       /\ \A r \in DOMAIN references : referenceLocation(r) \in Location

(* The edit leaves the position of a character as it was parsed.           *)
Undisturbed(file, offset) ==
  \/ edit.file # file
  \/ edit.at > offset
  \/ /\ ~edit.newline
     /\ \E b \in Range(breaks[file]) : edit.at <= b /\ b < offset

(* The characters of a path: the first is 0, the slash ahead of it -1.     *)
Characters(r) == 0..(PathWidth(references[r].targetPath) - 1)

(* With the cursor on a character of a reference, the link leads to the    *)
(* element named by the path up to there, and the part of the reference    *)
(* that is selected is this path with the slash ahead of it.               *)
LinksAt(r, i) ==
  LET file == references[r].fileIndex
      start == references[r].charOffset
      path == references[r].targetPath
      position == Cursor(file, start + i)
      answer == getDefinition(file, offsetOfRequest(position, file))
      k == 1 + (i + 1) \div (NameWidth + 1)
  IN IF Cardinality(getShortnamesByFullPath(path)) # 1
     THEN answer = multipleDefinition
     ELSE /\ answer.outcome = "found"
          /\ getFullPath(shortnames[answer.value]) = SubSeq(path, 1, k)
          /\ originSelectionRange(r, answer.value) =
               [start |-> Cursor(file, start - 1),
                end |-> Cursor(file, start + PathWidth(SubSeq(path, 1, k)))]

(* This holds on all lines but the first one of a file, also after an edit *)
(* of another line or to the right.  The conversions are off by one there, *)
(* and the queries make up for it (xmlParser.cpp:115-123).                 *)
LinkUnderCursor ==
  mode = "idle" =>
    \A r \in DOMAIN references :
      LET file == references[r].fileIndex
          start == references[r].charOffset
      IN /\ Undisturbed(file, start)
         /\ Cursor(file, start).line > 0
         => \A i \in Characters(r) : LinksAt(r, i)

(* On these lines the places of owners and of references cover just the    *)
(* name, or the path and its slash, in the text that the client shows; and *)
(* a link leads into the name, if one to the right of its first character. *)
(* A target without a name in it is no path: it is what a misread tag left *)
(* (xmlParser.cpp:504), and a line may break in it.                        *)
RangesCoverText ==
  mode = "idle" =>
    /\ \A p \in DOMAIN shortnames :
         LET file == shortnames[p].fileIndex
             start == shortnames[p].charOffset
         IN /\ Undisturbed(file, start)
            /\ Cursor(file, start).line > 0
            => /\ ownerLocation(p).range =
                    [start |-> Cursor(file, start),
                     end |-> Cursor(file, start + NameWidth)]
               /\ \A r \in DOMAIN references :
                    targetRange(r, p).start = Cursor(file, start + 1)
    /\ \A r \in DOMAIN references :
         LET file == references[r].fileIndex
             start == references[r].charOffset
         IN /\ references[r].targetPath # <<>>
            /\ Undisturbed(file, start)
            /\ Cursor(file, start).line > 0
            => referenceLocation(r).range =
                 [start |-> Cursor(file, start - 1), end |-> Cursor(file, EndOf(r))]

(* A place that the server has given leads back: a request at it finds the *)
(* element, or the reference, that it was given for, in whichever line and *)
(* file.  The tree view works with such places (Developing.md:237).        *)
PlacesLeadBack ==
  mode = "idle" =>
    /\ \A p \in DOMAIN shortnames :
         LET file == shortnames[p].fileIndex
             given == {treePosition(p), ownerLocation(p).range.start,
                       ownerLocation(p).range.end}
                        \cup {targetRange(r, p).start : r \in DOMAIN references}
         IN /\ \A position \in given :
                 ElementAt(file, offsetOfRequest(position, file)) = Found(p)
            /\ getLastShortnameByOffset(
                 getOffsetFromPosition(treePosition(p), file), file) = Found(p)
    /\ \A r \in DOMAIN references :
         LET file == references[r].fileIndex
             place == referenceLocation(r).range.start
         IN getReferenceByOffset(offsetOfRequest(place, file), file) = Found(r)

=============================================================================
