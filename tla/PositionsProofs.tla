-------------------------- MODULE PositionsProofs --------------------------
(***************************************************************************)
(* Proofs about Positions, for any names, URIs, line breaks, edits and     *)
(* bounds: no place in an answer wraps around below zero, places lead back *)
(* to what they were given for, and behind the first line the server and   *)
(* the client mean the same characters.                                    *)
(***************************************************************************)
EXTENDS Positions, ArxmlQueriesProofs

-----------------------------------------------------------------------------
(* Where texts and newlines are.                                           *)

TextOffset == {k * TagWidth : k \in Nat \ {0}}
NewlineOffset == {k * TagWidth - Gap : k \in Nat \ {0}}

(* The widest text that fits between the slash ahead of it and a newline.  *)
Space == TagWidth - Gap - 1

OnGrid ==
  /\ mode = "parsing" => pos \in TextOffset
  /\ \A p \in 1..Len(shortnames) : shortnames[p].charOffset \in TextOffset
  /\ \A r \in 1..Len(references) :
       /\ references[r].charOffset \in TextOffset
       /\ PathWidth(references[r].targetPath) < TagWidth - Gap

(* A name fits, and its slash, the end of its tag and the beginning of the *)
(* next one fit into the gap.                                              *)
LEMMA Spaces ==
  /\ Gap \in Nat /\ Gap >= 3
  /\ Space \in Nat \ {0} /\ TagWidth \in Nat /\ TagWidth = Space + Gap + 1
  /\ NameWidth \in 1..Space
BY StorageAssumption, WidthAssumption, PositionsAssumption DEF Space

(* Texts are a tag apart from each other, and newlines keep away from them. *)
LEMMA Grid ==
  ASSUME NEW text \in TextOffset
  PROVE  /\ text \in Nat /\ text >= TagWidth
         /\ \A other \in TextOffset : text < other => text + TagWidth <= other
         /\ \A newline \in NewlineOffset :
              /\ newline \in Nat \ {0}
              /\ newline <= text - Gap \/ newline > text + Space
<1>1. PICK k \in Nat \ {0} : text = k * TagWidth
  BY DEF TextOffset
<1>2. TagWidth \in Nat
  BY Spaces
<1>3. ASSUME NEW j \in Nat \ {0}
      PROVE  /\ j * TagWidth \in Nat
             /\ j * TagWidth >= TagWidth
             /\ k < j => text + TagWidth <= j * TagWidth
             /\ j < k => j * TagWidth + TagWidth <= text
             /\ j = k => j * TagWidth = text
  <2>1. j * TagWidth \in Nat
    BY <1>2, Multiples
  <2>2. /\ k < j => k * TagWidth + TagWidth <= j * TagWidth
        /\ j < k => j * TagWidth + TagWidth <= k * TagWidth
    BY <1>2, Multiples
  <2>3. j * TagWidth >= TagWidth
    <3>1. 1 < j => 1 * TagWidth + TagWidth <= j * TagWidth
      BY <1>2, Multiples
    <3>2. 1 * TagWidth = TagWidth
      BY <1>2
    <3>3. j = 1 => j * TagWidth = TagWidth
      BY <3>2
    <3> DEFINE product == j * TagWidth
    <3>4. product \in Nat /\ (1 < j => TagWidth + TagWidth <= product)
          /\ (j = 1 => product = TagWidth)
      BY <2>1, <3>1, <3>2, <3>3
    <3> HIDE DEF product
    <3>5. product >= TagWidth
      BY <1>2, <3>4
    <3> QED
      BY <3>5 DEF product
  <2> QED
    BY <1>1, <2>1, <2>2, <2>3
<1>4. text \in Nat /\ text >= TagWidth
  BY <1>1, <1>3
<1>5. ASSUME NEW other \in TextOffset, text < other
      PROVE  text + TagWidth <= other
  <2>1. PICK j \in Nat \ {0} : other = j * TagWidth
    BY DEF TextOffset
  <2>2. /\ other \in Nat
        /\ k < j => text + TagWidth <= other
        /\ j < k => other + TagWidth <= text
        /\ j = k => other = text
    BY <1>3, <2>1
  <2> QED
    BY <1>2, <1>4, <1>5, <2>2
<1>6. ASSUME NEW newline \in NewlineOffset
      PROVE  /\ newline \in Nat \ {0}
             /\ newline <= text - Gap \/ newline > text + Space
  <2>1. PICK j \in Nat \ {0} : newline = j * TagWidth - Gap
    BY DEF NewlineOffset
  <2> DEFINE behind == j * TagWidth
  <2>2. /\ newline = behind - Gap
        /\ behind \in Nat /\ behind >= TagWidth
        /\ k < j => text + TagWidth <= behind
        /\ j < k => behind + TagWidth <= text
        /\ j = k => behind = text
    BY <1>3, <2>1
  <2> HIDE DEF behind
  <2> QED
    BY <1>4, <2>2, Spaces
<1> QED
  BY <1>4, <1>5, <1>6

(* One tag further on is a place for a text too.                           *)
LEMMA NextOnGrid ==
  ASSUME NEW offset \in TextOffset
  PROVE  offset + TagWidth \in TextOffset
<1>1. PICK k \in Nat \ {0} : offset = k * TagWidth
  BY DEF TextOffset
<1>2. k + 1 \in Nat \ {0} /\ offset + TagWidth = (k + 1) * TagWidth
  BY <1>1, Spaces, Multiples
<1> QED
  BY <1>2 DEF TextOffset

(* A reference is stored where the parser is.                              *)
LEMMA StoreReferenceOnGrid ==
  ASSUME TypeInv, OnGrid, NEW target \in Seq(Name), StoreReference(target),
         PathWidth(target) < TagWidth - Gap
  PROVE  OnGrid'
<1>1. NextTag /\ UNCHANGED <<shortnames, mode>>
  BY DEF StoreReference
<1>2. mode = "parsing" /\ pos \in TextOffset /\ pos' \in TextOffset
  BY <1>1, NextOnGrid DEF OnGrid, NextTag
<1>3. /\ Len(references) \in Nat
      /\ Len(references') = Len(references) + 1
      /\ \A r \in 1..Len(references) : references'[r] = references[r]
      /\ references'[Len(references) + 1].charOffset = pos
      /\ references'[Len(references) + 1].targetPath = target
  <2>1. references'[Len(references) + 1] =
          [targetPath |-> target, charOffset |-> pos,
           owner |-> Innermost, fileIndex |-> fileIndex]
    BY ReferenceStorage
  <2>2. /\ references'[Len(references) + 1].charOffset = pos
        /\ references'[Len(references) + 1].targetPath = target
    BY <2>1
  <2> QED
    BY <2>2, ReferenceStorage
<1>4. \A r \in 1..Len(references') :
        r \in 1..Len(references) \/ r = Len(references) + 1
  BY <1>3
<1>5. \A r \in 1..Len(references') :
        /\ references'[r].charOffset \in TextOffset
        /\ PathWidth(references'[r].targetPath) < TagWidth - Gap
  BY <1>2, <1>3, <1>4 DEF OnGrid
<1> QED
  BY <1>1, <1>2, <1>5 DEF OnGrid

(* The parser reads its tags from the grid.                                *)
LEMMA NextOnGridInv ==
  ASSUME TypeInv, OnGrid, [Next]_vars
  PROVE  OnGrid'
<1>1. ASSUME NEW uri \in Uri, NEW empty, BeginFile(uri, empty)
      PROVE  OnGrid'
  <2>1. 1 * TagWidth \in TextOffset
    BY DEF TextOffset
  <2>2. pos' \in TextOffset
    BY <1>1, <2>1, Spaces DEF BeginFile
  <2> QED
    BY <1>1, <2>2 DEF BeginFile, OnGrid
<1>2. NextTag => mode = "parsing" /\ pos \in TextOffset /\ pos' \in TextOffset
  BY NextOnGrid DEF OnGrid, NextTag
<1>3. ASSUME NEW n \in Name, ShortName(n)
      PROVE  OnGrid'
  <2>1. NextTag /\ UNCHANGED references /\ mode' = mode
    BY <1>3 DEF ShortName
  <2>2. shortnames' = IF IsNew(NewShortname(n))
                      THEN Append(shortnames, NewShortname(n)) ELSE shortnames
    BY <1>3 DEF ShortName, addShortname
  <2>3. /\ shortnames \in Seq(ShortnameElement)
        /\ NewShortname(n) \in ShortnameElement
        /\ Len(shortnames) \in Nat
    BY <1>3, <2>1, NewShortnameType, LenProperties
       DEF TypeInv, TypeOK, StorageTypeOK
  <2>4. NewShortname(n).charOffset = pos
    BY DEF NewShortname
  <2>5. /\ Len(shortnames') \in {Len(shortnames), Len(shortnames) + 1}
        /\ \A p \in 1..Len(shortnames) : shortnames'[p] = shortnames[p]
        /\ Len(shortnames') = Len(shortnames) + 1 =>
             shortnames'[Len(shortnames) + 1] = NewShortname(n)
    BY <2>2, <2>3, AppendProperties
  <2>6. \A p \in 1..Len(shortnames') :
          p \in 1..Len(shortnames)
            \/ (p = Len(shortnames) + 1 /\ Len(shortnames') = Len(shortnames) + 1)
    BY <2>3, <2>5
  <2>7. \A p \in 1..Len(shortnames') : shortnames'[p].charOffset \in TextOffset
    BY <1>2, <2>1, <2>4, <2>5, <2>6 DEF OnGrid
  <2> QED
    BY <1>2, <2>1, <2>7 DEF OnGrid
<1>4. ASSUME NEW target \in Target, Reference(target)
      PROVE  OnGrid'
  <2>1. PathWidth(target) < TagWidth - Gap
    BY PositionsAssumption
  <2> QED
    BY <1>4, <2>1, ReferenceStores, StoreReferenceOnGrid
<1>5. CASE EndFile \/ UNCHANGED vars
  BY <1>5 DEF EndFile, vars, storageVars, parserVars, OnGrid
<1>6. CASE SkipTag \/ CloseTag \/ \E tag \in Elements : OpenTag(tag)
  <2>1. NextTag /\ UNCHANGED <<shortnames, references, mode>>
    BY <1>6 DEF SkipTag, CloseTag, OpenTag, storageVars
  <2> QED
    BY <1>2, <2>1 DEF OnGrid
<1>7. CASE MisreadTag
  <2>1. PathWidth(<<>>) < TagWidth - Gap
    BY Spaces DEF PathWidth
  <2> QED
    BY <1>7, <2>1, ReferenceStores, StoreReferenceOnGrid
<1> QED
  BY <1>1, <1>3, <1>4, <1>5, <1>6, <1>7 DEF Next

-----------------------------------------------------------------------------
(* The lines of files, and an edit of one.                                 *)

(* The newlines of a file are in their order.                              *)
InLines(list) ==
  /\ list \in Seq(Nat)
  /\ \A i \in 1..Len(list) : list[i] \in NewlineOffset
  /\ \A i, j \in 1..Len(list) : i < j => list[i] < list[j]

LinesInv ==
  /\ breaks \in Seq(Seq(Nat))
  /\ Len(breaks) = Len(URIs)
  /\ \A file \in 1..Len(breaks) : InLines(breaks[file])

EditInv ==
  \/ edit = NoEdit
  \/ edit \in [file : 1..Len(URIs), at : NewlineOffset, newline : BOOLEAN]

TextInv == OnGrid /\ LinesInv /\ EditInv

(* Newlines are at natural numbers.                                        *)
LEMMA NewlineNumbers ==
  ASSUME NEW offset \in NewlineOffset
  PROVE  offset \in Nat /\ offset > 0
<1>1. 1 * TagWidth \in TextOffset
  BY DEF TextOffset
<1> QED
  BY <1>1, Grid

(* A new line is the last one.                                             *)
LEMMA LineAdded ==
  ASSUME NEW list, InLines(list), NEW offset \in NewlineOffset,
         \A i \in 1..Len(list) : list[i] < offset
  PROVE  InLines(Append(list, offset))
<1> DEFINE longer == Append(list, offset)
<1>1. offset \in Nat /\ list \in Seq(Nat) /\ Len(list) \in Nat
  BY NewlineNumbers, LenProperties DEF InLines
<1>2. /\ longer \in Seq(Nat)
      /\ Len(longer) = Len(list) + 1
      /\ \A i \in 1..Len(list) : longer[i] = list[i]
      /\ longer[Len(list) + 1] = offset
  BY <1>1, AppendProperties
<1> HIDE DEF longer
<1>3. \A i \in 1..Len(longer) : i \in 1..Len(list) \/ i = Len(list) + 1
  BY <1>1, <1>2
<1>4. \A i \in 1..Len(longer) : longer[i] \in NewlineOffset
  BY <1>2, <1>3 DEF InLines
<1>5. ASSUME NEW i \in 1..Len(longer), NEW j \in 1..Len(longer), i < j
      PROVE  longer[i] < longer[j]
  <2>1. i \in 1..Len(list)
    BY <1>1, <1>2, <1>5
  <2>2. CASE j \in 1..Len(list)
    BY <1>2, <1>5, <2>1, <2>2 DEF InLines
  <2>3. CASE j = Len(list) + 1
    BY <1>2, <2>1, <2>3
  <2> QED
    BY <1>3, <2>2, <2>3
<1>6. InLines(longer)
  BY <1>2, <1>4, <1>5 DEF InLines
<1> QED
  BY <1>6 DEF longer

(* A step of the parser leaves the text of the files as it is; a file that *)
(* begins has one line.                                                    *)
LEMMA ReadTagText ==
  ASSUME TypeInv, LinesInv, EditInv, ReadTag
  PROVE  LinesInv' /\ EditInv'
<1>1. URIs \in Seq(Uri) /\ Len(URIs) \in Nat /\ Len(breaks) \in Nat
  BY LenProperties DEF TypeInv, TypeOK, StorageTypeOK, LinesInv
<1>2. URIs' = URIs \/ \E uri \in Uri : URIs' = Append(URIs, uri)
  BY DEF ReadTag, Next, BeginFile, addFileIndex, EndFile, SkipTag, OpenTag,
         CloseTag, ShortName, Reference, MisreadTag, StoreReference, storageVars
<1>3. CASE URIs' = URIs
  BY <1>3 DEF ReadTag, LinesInv, EditInv
<1>4. ASSUME NEW uri \in Uri, URIs' = Append(URIs, uri)
      PROVE  LinesInv' /\ EditInv'
  <2>1. Len(URIs') = Len(URIs) + 1
    BY <1>1, <1>4, AppendProperties
  <2>2. URIs' # URIs
    BY <1>1, <2>1
  <2>3. breaks' = Append(breaks, <<>>) /\ edit' = edit
    BY <2>2 DEF ReadTag
  <2>4. <<>> \in Seq(Nat) /\ Len(<<>>) = 0
    BY EmptySeq
  <2>5. breaks \in Seq(Seq(Nat))
    BY DEF LinesInv
  <2>6. /\ breaks' \in Seq(Seq(Nat))
        /\ Len(breaks') = Len(breaks) + 1
        /\ \A f \in 1..Len(breaks) : breaks'[f] = breaks[f]
        /\ breaks'[Len(breaks) + 1] = <<>>
    BY <2>3, <2>4, <2>5, AppendProperties
  <2>7. InLines(<<>>)
    BY <2>4 DEF InLines
  <2>8. \A f \in 1..Len(breaks') : f \in 1..Len(breaks) \/ f = Len(breaks) + 1
    BY <1>1, <2>6
  <2>9. \A f \in 1..Len(breaks') : InLines(breaks'[f])
    BY <2>6, <2>7, <2>8 DEF LinesInv
  <2>10. LinesInv'
    BY <2>1, <2>6, <2>9 DEF LinesInv, InLines, NewlineOffset
  <2>11. EditInv'
    BY <1>1, <2>1, <2>3 DEF EditInv, NewlineOffset, NoEdit
  <2> QED
    BY <2>10, <2>11
<1> QED
  BY <1>2, <1>3, <1>4

(* A line breaks before the tag that the parser reads next, so after all   *)
(* newlines of the file.                                                   *)
LEMMA LineBreakText ==
  ASSUME TypeInv, OnGrid, LinesInv, EditInv, LineBreak
  PROVE  LinesInv' /\ EditInv'
<1> DEFINE list == breaks[fileIndex]
           offset == pos - Gap
<1>1. /\ breaks \in Seq(Seq(Nat)) /\ Len(breaks) \in Nat
      /\ Len(breaks) = Len(URIs) /\ Len(URIs) \in Nat
  BY LenProperties DEF LinesInv
<1>2. fileIndex \in 1..Len(breaks)
  <2>1. URIs \in Seq(Uri) /\ URIs # <<>>
    BY DEF TypeInv, TypeOK, StorageTypeOK, DepthCounts, LineBreak
  <2>2. Len(URIs) # 0
    BY <2>1, EmptySeq
  <2> QED
    BY <1>1, <2>2 DEF fileIndex
<1>3. InLines(list) /\ list \in Seq(Nat) /\ DOMAIN list = 1..Len(list)
  <2>1. InLines(list) /\ list \in Seq(Nat)
    BY <1>2 DEF LinesInv, InLines
  <2> QED
    BY <2>1, LenProperties
<1>4. offset \in NewlineOffset
  <2>1. PICK k \in Nat \ {0} : pos = k * TagWidth
    BY DEF OnGrid, LineBreak, TextOffset
  <2>2. offset = k * TagWidth - Gap
    BY <2>1
  <2> QED
    BY <2>2 DEF NewlineOffset
<1>5. \A i \in 1..Len(list) : list[i] < offset
  BY <1>3 DEF LineBreak
<1>6. breaks' = [breaks EXCEPT ![fileIndex] = Append(list, offset)]
  BY DEF LineBreak
<1>7. UNCHANGED <<URIs, edit>>
  BY DEF LineBreak, vars, storageVars
<1> HIDE DEF list, offset
<1>8. InLines(Append(list, offset))
  BY <1>3, <1>4, <1>5, LineAdded
<1>9. Append(list, offset) \in Seq(Nat)
  BY <1>8 DEF InLines
<1>10. /\ breaks' \in Seq(Seq(Nat))
       /\ Len(breaks') = Len(breaks)
       /\ \A f \in 1..Len(breaks) :
            breaks'[f] = IF f = fileIndex THEN Append(list, offset) ELSE breaks[f]
  BY <1>1, <1>2, <1>6, <1>9, ExceptSeq
<1>11. \A f \in 1..Len(breaks') : InLines(breaks'[f])
  BY <1>8, <1>10 DEF LinesInv
<1>12. LinesInv'
  BY <1>7, <1>10, <1>11 DEF LinesInv, InLines, NewlineOffset
<1>13. EditInv'
  BY <1>7 DEF EditInv, NewlineOffset, NoEdit
<1> QED
  BY <1>12, <1>13

(* An edit is at the end of a line or before a tag.                        *)
LEMMA EditText ==
  ASSUME TypeInv, LinesInv, Edit
  PROVE  LinesInv' /\ EditInv'
<1>1. PICK file \in DOMAIN URIs, k \in 1..MaxTags, newline \in BOOLEAN :
        edit' = [file |-> file, at |-> k * TagWidth - Gap, newline |-> newline]
  BY DEF Edit
<1>2. k \in Nat \ {0}
  BY ParserAssumption
<1>3. k * TagWidth - Gap \in NewlineOffset
  BY <1>2 DEF NewlineOffset
<1>4. UNCHANGED <<URIs, breaks>>
  BY DEF Edit, vars, storageVars
<1>5. DOMAIN URIs = 1..Len(URIs)
  BY LenProperties DEF TypeInv, TypeOK, StorageTypeOK
<1>6. LinesInv'
  BY <1>4 DEF LinesInv, InLines, NewlineOffset
<1>7. EditInv'
  BY <1>1, <1>3, <1>4, <1>5 DEF EditInv, NewlineOffset
<1> QED
  BY <1>6, <1>7

(* Whatever is read, broken or edited, the parser sees steps of its own or *)
(* none.                                                                   *)
LEMMA TextIsParsed == TextSpec => Spec
<1>1. TextInit => Init
  BY DEF TextInit
<1>2. [TextNext]_<<vars, textVars>> => [Next]_vars
  BY DEF TextNext, ReadTag, LineBreak, Edit
<1> QED
  BY <1>1, <1>2, PTL DEF TextSpec, Spec

(* The lines of all files, and the edit, are as they should be.            *)
LEMMA TextInvInvariant == TextSpec => [](QueryInv /\ TextInv)
<1>1. TextInit => TextInv
  <2>1. SUFFICES ASSUME TextInit
                 PROVE  TextInv
    OBVIOUS
  <2>2. Len(<<>>) = 0 /\ <<>> \in Seq(Seq(Nat))
    BY EmptySeq
  <2>3. OnGrid /\ LinesInv /\ EditInv
    BY <2>1, <2>2 DEF TextInit, Init, StorageInit, OnGrid, LinesInv, EditInv
  <2> QED
    BY <2>3 DEF TextInv
<1>2. TypeInv /\ TextInv /\ [TextNext]_<<vars, textVars>> => TextInv'
  <2> SUFFICES ASSUME TypeInv, TextInv, [TextNext]_<<vars, textVars>>
               PROVE  TextInv'
    OBVIOUS
  <2>1. OnGrid /\ LinesInv /\ EditInv
    BY DEF TextInv
  <2>2. [Next]_vars
    BY DEF TextNext, ReadTag, LineBreak, Edit
  <2>3. OnGrid'
    BY <2>1, <2>2, NextOnGridInv
  <2>4. LinesInv' /\ EditInv'
    <3>1. CASE ReadTag
      BY <2>1, <3>1, ReadTagText
    <3>2. CASE LineBreak
      BY <2>1, <3>2, LineBreakText
    <3>3. CASE Edit
      BY <2>1, <3>3, EditText
    <3>4. CASE UNCHANGED <<vars, textVars>>
      BY <2>1, <3>4 DEF vars, storageVars, textVars, LinesInv, InLines, EditInv,
                        NewlineOffset
    <3> QED
      BY <3>1, <3>2, <3>3, <3>4 DEF TextNext
  <2> QED
    BY <2>3, <2>4 DEF TextInv
<1> QED
  BY <1>1, <1>2, TextIsParsed, TypeInvInvariant, QueryInvInvariant, PTL
     DEF TextSpec

-----------------------------------------------------------------------------
(* Lines.  An offset is in line n, from 0, if it is behind n newlines.     *)

OnLine(file, offset, n) ==
  /\ n \in 0..Len(breaks[file])
  /\ \A i \in 1..Len(breaks[file]) : breaks[file][i] < offset <=> i <= n

(* The newlines of a file that is in newlineOffsets_.                      *)
LEMMA LinesOfFile ==
  ASSUME QueryInv, TextInv, NEW file, HasNewlines(file)
  PROVE  /\ InLines(breaks[file])
         /\ breaks[file] \in Seq(Nat)
         /\ Len(breaks[file]) \in Nat
         /\ DOMAIN breaks[file] = 1..Len(breaks[file])
         /\ \A i \in 1..Len(breaks[file]) : breaks[file][i] \in Nat
         /\ file \in Nat \ {0}
<1>1. file \in 1..Len(newlineOffsets) /\ Len(newlineOffsets) <= Len(URIs)
  BY DEF QueryInv, NewlineInv, HasNewlines
<1>2. Len(newlineOffsets) \in Nat /\ Len(URIs) \in Nat
  BY LenProperties
     DEF QueryInv, StorageInv, TypeInv, TypeOK, StorageTypeOK
<1>3. file \in 1..Len(breaks)
  BY <1>1, <1>2 DEF TextInv, LinesInv
<1>4. InLines(breaks[file]) /\ breaks[file] \in Seq(Nat)
  BY <1>3 DEF TextInv, LinesInv, InLines
<1> QED
  BY <1>1, <1>2, <1>4, LenProperties, ElementOfSeq

(* Every offset is in a line.                                              *)
LEMMA LineOfOffset ==
  ASSUME QueryInv, TextInv, NEW file, HasNewlines(file), NEW offset \in Nat
  PROVE  \E n : OnLine(file, offset, n)
<1> DEFINE list == breaks[file]
           len == Len(list)
           before == {i \in 1..len : list[i] < offset}
<1>1. /\ len \in Nat
      /\ \A i \in 1..len : list[i] \in Nat
      /\ \A i, j \in 1..len : i < j => list[i] < list[j]
  BY LinesOfFile DEF InLines
<1> HIDE DEF list, len
<1>2. CASE before = {}
  <2>1. 0 \in 0..len /\ \A i \in 1..len : ~(list[i] < offset) /\ ~(i <= 0)
    BY <1>1, <1>2
  <2> QED
    BY <2>1 DEF OnLine, list, len
<1>3. CASE before # {}
  <2>1. PICK n \in before : \A i \in before : i <= n
    <3>1. before \in SUBSET (0..len)
      BY <1>1
    <3> HIDE DEF before
    <3> QED
      BY <1>1, <1>3, <3>1, Greatest
  <2>2. n \in 0..len /\ n \in 1..len /\ list[n] < offset
    BY <1>1
  <2>3. ASSUME NEW i \in 1..len
        PROVE  list[i] < offset <=> i <= n
    <3>1. list[i] < offset => i <= n
      BY <2>1
    <3>2. i < n => list[i] < list[n]
      BY <1>1, <2>2
    <3>3. i \in Nat /\ list[i] \in Nat /\ list[n] \in Nat /\ n \in Nat
      BY <1>1, <2>2
    <3>4. i < n => list[i] < offset
      BY <2>2, <3>2, <3>3
    <3> QED
      BY <2>2, <3>1, <3>3, <3>4
  <2> QED
    BY <2>2, <2>3 DEF OnLine, list, len
<1> QED
  BY <1>2, <1>3

(* No line begins or ends within a text.                                   *)
Around(offset) == (offset - 2)..(offset + Space)

(* A text is in one line.                                                  *)
LEMMA TextInLine ==
  ASSUME QueryInv, TextInv, NEW file, HasNewlines(file),
         NEW text \in TextOffset, NEW offset \in Around(text), NEW n,
         OnLine(file, text, n)
  PROVE  OnLine(file, offset, n)
<1>1. text \in Nat
  BY Grid
<1>2. ASSUME NEW i \in 1..Len(breaks[file])
      PROVE  breaks[file][i] < offset <=> breaks[file][i] < text
  <2> DEFINE newline == breaks[file][i]
  <2>1. newline \in NewlineOffset
    BY LinesOfFile DEF InLines
  <2>2. /\ newline \in Nat
        /\ newline <= text - Gap \/ newline > text + Space
    BY <2>1, Grid
  <2> HIDE DEF newline
  <2>3. newline < offset <=> newline < text
    BY <1>1, <2>2, Spaces DEF Around
  <2> QED
    BY <2>3 DEF newline
<1> QED
  BY <1>2 DEF OnLine

(* Offsets of texts are numbers, and so are those around them.             *)
LEMMA TextNumbers ==
  ASSUME NEW text \in TextOffset
  PROVE  /\ text \in Nat /\ text >= 5
         /\ text \in Around(text)
         /\ Around(text) \subseteq Nat \ {0}
<1>1. text \in Nat /\ text >= 5
  BY Grid, Spaces
<1> QED
  BY <1>1, Spaces DEF Around

-----------------------------------------------------------------------------
(* The server's positions.                                                 *)

(* newlineOffsets_ has 0 and then the newlines of the file.                *)
LEMMA NewlinesOfFile ==
  ASSUME QueryInv, TextInv, NEW file, HasNewlines(file)
  PROVE  /\ DOMAIN newlines(file) = 1..(Len(breaks[file]) + 1)
         /\ newlines(file)[1] = 0
         /\ \A i \in 1..Len(breaks[file]) : newlines(file)[i + 1] = breaks[file][i]
<1>1. newlines(file) = <<0>> \o breaks[file]
  BY DEF newlines, parseNewlines, HasNewlines
<1>2. /\ breaks[file] \in Seq(Nat) /\ Len(breaks[file]) \in Nat
      /\ <<0>> \in Seq(Nat) /\ Len(<<0>>) = 1 /\ <<0>>[1] = 0
  BY LinesOfFile
<1> DEFINE one == <<0>>
           list == breaks[file]
<1>3. one \in Seq(Nat) /\ Len(one) = 1 /\ one[1] = 0 /\ list \in Seq(Nat)
  BY <1>2
<1> HIDE DEF one, list
<1>4. /\ one \o list \in Seq(Nat)
      /\ Len(one \o list) = 1 + Len(list)
      /\ \A i \in 1..(1 + Len(list)) :
           (one \o list)[i] = IF i <= 1 THEN one[i] ELSE list[i - 1]
  <2>1. /\ one \o list \in Seq(Nat)
        /\ Len(one \o list) = Len(one) + Len(list)
        /\ \A i \in 1..(Len(one) + Len(list)) :
             (one \o list)[i] =
               IF i <= Len(one) THEN one[i] ELSE list[i - Len(one)]
    BY <1>3, ConcatProperties
  <2> QED
    BY <1>3, <2>1
<1>5. Len(list) \in Nat /\ DOMAIN (one \o list) = 1..(Len(list) + 1)
  BY <1>3, <1>4, LenProperties
<1>6. (one \o list)[1] = 0
  BY <1>3, <1>4, <1>5
<1>7. ASSUME NEW i \in 1..Len(list)
      PROVE  (one \o list)[i + 1] = list[i]
  <2>1. i + 1 \in 1..(1 + Len(list)) /\ ~(i + 1 <= 1) /\ (i + 1) - 1 = i
    BY <1>5
  <2> QED
    BY <1>4, <2>1
<1> QED
  BY <1>1, <1>5, <1>6, <1>7 DEF one, list

(* lower_bound finds the line that an offset is in.                        *)
LEMMA ServerPosition ==
  ASSUME QueryInv, TextInv, NEW file, HasNewlines(file),
         NEW offset \in Nat \ {0}, NEW n, OnLine(file, offset, n)
  PROVE  /\ getPositionFromOffset(offset, file)
              = [line |-> n, character |-> offset - newlines(file)[n + 1]]
         /\ n \in Nat
         /\ newlines(file)[n + 1] \in Nat
         /\ newlines(file)[n + 1] < offset
         /\ LineKnown(n, file)
<1> DEFINE len == Len(breaks[file])
           list == newlines(file)
           before == {i \in DOMAIN list : list[i] < offset}
<1>1. /\ len \in Nat
      /\ \A i \in 1..len : breaks[file][i] \in Nat
  BY LinesOfFile
<1>2. /\ DOMAIN list = 1..(len + 1)
      /\ list[1] = 0
      /\ \A i \in 1..len : list[i + 1] = breaks[file][i]
  BY NewlinesOfFile
<1>3. /\ n \in 0..len
      /\ \A i \in 1..len : breaks[file][i] < offset <=> i <= n
  BY DEF OnLine
<1> HIDE DEF len, list
<1>4. ASSUME NEW i \in 1..(len + 1)
      PROVE  list[i] \in Nat /\ (list[i] < offset <=> i <= n + 1)
  <2>1. CASE i = 1
    BY <1>1, <1>2, <1>3, <2>1
  <2>2. CASE i # 1
    <3>1. i - 1 \in 1..len /\ (i - 1) + 1 = i
      BY <1>1, <2>2
    <3>2. list[i] = breaks[file][i - 1]
      BY <1>2, <3>1
    <3> QED
      BY <1>1, <1>3, <3>1, <3>2
  <2> QED
    BY <2>1, <2>2
<1>5. before = 1..(n + 1)
  BY <1>1, <1>2, <1>3, <1>4
<1>6. n \in Nat /\ Cardinality(1..(n + 1)) = n + 1
  BY <1>1, <1>3, FS_Interval
<1>7. LineKnown(n, file)
  BY <1>1, <1>2, <1>3 DEF LineKnown, list
<1>8. Cardinality(before) - 1 = n
  <2>1. Cardinality(before) = n + 1
    BY <1>5, <1>6
  <2> HIDE DEF before
  <2> QED
    BY <1>6, <2>1
<1>9. getPositionFromOffset(offset, file)
        = [line |-> n, character |-> offset - list[n + 1]]
  BY <1>7, <1>8 DEF getPositionFromOffset, newlineBefore, list
<1>10. n + 1 \in 1..(len + 1)
  BY <1>1, <1>3
<1> QED
  BY <1>4, <1>6, <1>7, <1>9, <1>10 DEF list

(* It is a position, and the offset can be told from it.                   *)
LEMMA PositionAndBack ==
  ASSUME QueryInv, TextInv, NEW file, HasNewlines(file),
         NEW offset \in Nat \ {0}
  PROVE  /\ getPositionFromOffset(offset, file) \in Position
         /\ getOffsetFromPosition(getPositionFromOffset(offset, file), file) = offset
         /\ offsetOfRequest(getPositionFromOffset(offset, file), file) = offset + 2
<1>1. PICK n : OnLine(file, offset, n)
  BY LineOfOffset
<1> DEFINE b == newlines(file)[n + 1]
           position == getPositionFromOffset(offset, file)
<1>2. /\ position = [line |-> n, character |-> offset - b]
      /\ n \in Nat /\ b \in Nat /\ b < offset /\ LineKnown(n, file)
  BY <1>1, ServerPosition
<1>3. position.line = n /\ position.character = offset - b
  BY <1>2
<1>4. newlineBefore(n, file) = b
  BY <1>2 DEF newlineBefore
<1>5. offset - b \in Nat /\ b + (offset - b) = offset
  BY <1>2
<1> HIDE DEF b
<1>6. position \in Position
  BY <1>2, <1>5 DEF Position
<1> HIDE DEF position
<1>7. getOffsetFromPosition(position, file) = offset
  BY <1>3, <1>4, <1>5 DEF getOffsetFromPosition
<1> QED
  BY <1>6, <1>7 DEF position, offsetOfRequest

(* Elements and references are texts in files with newlines.               *)
LEMMA StoredTexts ==
  ASSUME QueryInv, TextInv
  PROVE  /\ \A p \in DOMAIN shortnames :
              /\ HasNewlines(shortnames[p].fileIndex)
              /\ shortnames[p].charOffset \in TextOffset
              /\ shortnames[p].fileIndex \in Nat
         /\ \A r \in DOMAIN references :
              /\ HasNewlines(references[r].fileIndex)
              /\ references[r].charOffset \in TextOffset
              /\ references[r].fileIndex \in Nat
              /\ references[r].targetPath \in Seq(Name)
              /\ PathWidth(references[r].targetPath) \in 0..Space
              /\ EndOf(r) = references[r].charOffset
                              + PathWidth(references[r].targetPath)
<1>1. /\ DOMAIN shortnames = 1..Len(shortnames)
      /\ DOMAIN references = 1..Len(references)
  BY StoredElements, StoredReferences DEF QueryInv
<1>2. ASSUME NEW p \in DOMAIN shortnames
      PROVE  /\ HasNewlines(shortnames[p].fileIndex)
             /\ shortnames[p].charOffset \in TextOffset
             /\ shortnames[p].fileIndex \in Nat
  BY <1>1, StoredElements DEF QueryInv, NewlineInv, TextInv, OnGrid
<1>3. ASSUME NEW r \in DOMAIN references
      PROVE  /\ HasNewlines(references[r].fileIndex)
             /\ references[r].charOffset \in TextOffset
             /\ references[r].fileIndex \in Nat
             /\ references[r].targetPath \in Seq(Name)
             /\ PathWidth(references[r].targetPath) \in 0..Space
  <2>1. /\ HasNewlines(references[r].fileIndex)
        /\ references[r].charOffset \in TextOffset
        /\ PathWidth(references[r].targetPath) < TagWidth - Gap
    BY <1>1 DEF QueryInv, NewlineInv, TextInv, OnGrid
  <2>2. references[r].fileIndex \in Nat
    BY <2>1, LinesOfFile
  <2>3. /\ references[r].targetPath \in Seq(Name)
        /\ PathWidth(references[r].targetPath) \in Nat
    BY StoredReferences, WidthOfPath
  <2>4. PathWidth(references[r].targetPath) \in 0..Space
    BY <2>1, <2>3, Spaces DEF Space
  <2> QED
    BY <2>1, <2>2, <2>3, <2>4
<1> QED
  BY <1>2, <1>3 DEF EndOf

(* A range between two offsets has two positions.                          *)
LEMMA RangeTyped ==
  ASSUME QueryInv, TextInv, NEW file, HasNewlines(file),
         NEW first \in Nat \ {0}, NEW last \in Nat \ {0}
  PROVE  /\ RangeOf(first, last, file) \in PositionRange
         /\ LocationOf(file, RangeOf(first, last, file)) \in Location
         /\ RangeOf(first, last, file).start = getPositionFromOffset(first, file)
         /\ RangeOf(first, last, file).end = getPositionFromOffset(last, file)
         /\ LocationOf(file, RangeOf(first, last, file)).range
              = RangeOf(first, last, file)
<1>1. /\ getPositionFromOffset(first, file) \in Position
      /\ getPositionFromOffset(last, file) \in Position
  BY PositionAndBack
<1>2. file \in Nat
  BY LinesOfFile
<1> QED
  BY <1>1, <1>2 DEF RangeOf, LocationOf, PositionRange, Location

(* The width of names.                                                     *)
LEMMA NameWidths == NameWidth \in 1..Space /\ Space \in Nat
BY Spaces

(* TextTypeOK holds.                                                       *)
LEMMA TextTypeHolds == QueryInv /\ TextInv => TextTypeOK
<1> SUFFICES ASSUME QueryInv, TextInv
             PROVE  TextTypeOK
  OBVIOUS
<1>1. TypeOK
  BY DEF QueryInv, StorageInv, TypeInv
<1>2. breaks \in Seq(Seq(Nat)) /\ Len(breaks) = Len(URIs)
  BY DEF TextInv, LinesInv
<1>3. edit = NoEdit \/ edit \in [file : DOMAIN URIs, at : Nat, newline : BOOLEAN]
  <2>1. DOMAIN URIs = 1..Len(URIs)
    BY LenProperties DEF QueryInv, StorageInv, TypeInv, TypeOK, StorageTypeOK
  <2> QED
    BY <2>1, NewlineNumbers DEF TextInv, EditInv
<1>4. ASSUME NEW p \in DOMAIN shortnames
      PROVE  /\ treePosition(p) \in Position
             /\ ownerLocation(p) \in Location
             /\ \A r \in DOMAIN references :
                  /\ originSelectionRange(r, p) \in PositionRange
                  /\ targetRange(r, p) \in PositionRange
  <2> DEFINE file == shortnames[p].fileIndex
             start == shortnames[p].charOffset
  <2>1. HasNewlines(file) /\ start \in Nat /\ start >= 5
    BY StoredTexts, TextNumbers
  <2>2. /\ start \in Nat \ {0} /\ start - 1 \in Nat \ {0}
        /\ start + NameWidth \in Nat \ {0} /\ start + NameWidth - 1 \in Nat \ {0}
    <3> HIDE DEF start
    <3> QED
      BY <2>1, NameWidths
  <2>3. treePosition(p) \in Position
    BY <2>1, <2>2, PositionAndBack DEF treePosition
  <2>4. ownerLocation(p) \in Location
    BY <2>1, <2>2, RangeTyped DEF ownerLocation
  <2>5. ASSUME NEW r \in DOMAIN references
        PROVE  /\ originSelectionRange(r, p) \in PositionRange
               /\ targetRange(r, p) \in PositionRange
    <3> DEFINE begin == references[r].charOffset
               width == PathWidth(getFullPath(shortnames[p]))
    <3>1. /\ HasNewlines(references[r].fileIndex)
          /\ begin \in Nat /\ begin >= 5
      BY StoredTexts, TextNumbers
    <3>2. width \in Nat
      BY StoredElements, WidthOfPath DEF QueryInv
    <3>3. begin - 2 \in Nat \ {0} /\ begin + width - 1 \in Nat \ {0}
      <4> HIDE DEF begin, width
      <4> QED
        BY <3>1, <3>2
    <3>4. originSelectionRange(r, p) \in PositionRange
      BY <3>1, <3>3, RangeTyped DEF originSelectionRange
    <3>5. targetRange(r, p) \in PositionRange
      BY <2>1, <2>2, RangeTyped DEF targetRange
    <3> QED
      BY <3>4, <3>5
  <2> QED
    BY <2>3, <2>4, <2>5
<1>5. ASSUME NEW r \in DOMAIN references
      PROVE  referenceLocation(r) \in Location
  <2> DEFINE begin == references[r].charOffset
  <2>1. /\ HasNewlines(references[r].fileIndex)
        /\ begin \in Nat /\ begin >= 5
        /\ EndOf(r) - begin \in 0..Space
        /\ EndOf(r) \in Nat
    BY StoredTexts, TextNumbers
  <2>2. begin - 2 \in Nat \ {0} /\ EndOf(r) - 1 \in Nat \ {0}
    <3> HIDE DEF begin
    <3> QED
      BY <2>1
  <2> QED
    BY <2>1, <2>2, RangeTyped DEF referenceLocation
<1> QED
  BY <1>1, <1>2, <1>3, <1>4, <1>5 DEF TextTypeOK

-----------------------------------------------------------------------------
(* Places lead back.                                                       *)

(* From the offset of an element to just behind it that element is found.  *)
LEMMA NameNearItsOffset ==
  ASSUME QueryInv, TextInv, NEW p \in DOMAIN shortnames, NEW d \in 0..(NameWidth + 1)
  PROVE  /\ getShortnameByOffset(shortnames[p].charOffset + d,
                                 shortnames[p].fileIndex) = Found(p)
         /\ ElementAt(shortnames[p].fileIndex, shortnames[p].charOffset + d)
              = Found(p)
<1> DEFINE file == shortnames[p].fileIndex
           offset == shortnames[p].charOffset + d
           upTo == UpTo(file, offset)
           upToOf(q) == UpTo(shortnames[q].fileIndex, shortnames[q].charOffset)
<1>1. \A q \in DOMAIN shortnames :
        /\ shortnames[q].fileIndex \in Nat
        /\ shortnames[q].charOffset \in Nat
        /\ shortnames[q].charOffset \in TextOffset
  BY StoredElements, StoredTexts DEF QueryInv
<1>2. d \in 0..(Space + 1) /\ d \in 0..(NameWidth + 1) /\ NameWidth \in Nat
  BY NameWidths
<1>3. p \in upTo
  BY <1>1, <1>2 DEF UpTo
<1>4. ASSUME NEW q \in upTo
      PROVE  /\ q \in DOMAIN shortnames
             /\ q \in upToOf(p)
             /\ p \in upToOf(q) => q = p
  <2>1. /\ q \in DOMAIN shortnames
        /\ \/ shortnames[q].fileIndex < file
           \/ /\ shortnames[q].fileIndex = file
              /\ shortnames[q].charOffset <= offset
    BY DEF UpTo
  <2>2. shortnames[q].charOffset <= offset
          => shortnames[q].charOffset <= shortnames[p].charOffset
    <3> DEFINE a == shortnames[p].charOffset
               b == shortnames[q].charOffset
    <3>1. a \in Nat /\ b \in Nat /\ (a < b => a + TagWidth <= b)
      BY <1>1, <2>1, Grid
    <3> HIDE DEF a, b
    <3>2. b <= a + d => b <= a
      BY <1>2, <3>1, Spaces
    <3> QED
      BY <3>2 DEF a, b
  <2>3. q \in upToOf(p)
    BY <2>1, <2>2 DEF UpTo
  <2>4. ASSUME p \in upToOf(q)
        PROVE  q = p
    <3>1. /\ shortnames[q].fileIndex = shortnames[p].fileIndex
          /\ shortnames[q].charOffset = shortnames[p].charOffset
      BY <1>1, <2>1, <2>3, <2>4 DEF UpTo
    <3> QED
      BY <2>1, <3>1, SameElement DEF QueryInv
  <2> QED
    BY <2>1, <2>3, <2>4
<1> HIDE DEF upTo
<1>5. LastOf(upTo) = p
  BY <1>3, <1>4 DEF LastOf
<1>6. offset \in shortnames[p].charOffset..(shortnames[p].charOffset + NameWidth + 1)
  BY <1>1, <1>2
<1>7. getShortnameByOffset(offset, file) = Found(p)
  BY <1>3, <1>5, <1>6 DEF getShortnameByOffset, upTo
<1>8. ElementAt(file, offset) = Found(p)
  BY <1>7, FoundParts DEF ElementAt
<1> QED
  BY <1>7, <1>8

(* And it is the last of its file up to its offset.                        *)
LEMMA LastAtItsOffset ==
  ASSUME QueryInv, NEW p \in DOMAIN shortnames
  PROVE  getLastShortnameByOffset(shortnames[p].charOffset,
                                  shortnames[p].fileIndex) = Found(p)
<1> DEFINE file == shortnames[p].fileIndex
           offset == shortnames[p].charOffset
           ofFile == {q \in UpTo(file, offset) : shortnames[q].fileIndex = file}
           upToOf(q) == UpTo(shortnames[q].fileIndex, shortnames[q].charOffset)
<1>1. \A q \in DOMAIN shortnames :
        shortnames[q].fileIndex \in Nat /\ shortnames[q].charOffset \in Nat
  BY StoredElements DEF QueryInv
<1>2. p \in ofFile
  BY <1>1 DEF UpTo
<1>3. ASSUME NEW q \in ofFile
      PROVE  q \in upToOf(p) /\ (p \in upToOf(q) => q = p)
  <2>1. /\ q \in DOMAIN shortnames
        /\ q \in upToOf(p)
        /\ shortnames[q].fileIndex = file
    BY DEF UpTo
  <2>2. ASSUME p \in upToOf(q)
        PROVE  q = p
    <3>1. shortnames[q].charOffset = offset
      BY <1>1, <2>1, <2>2 DEF UpTo
    <3> QED
      BY <2>1, <3>1, SameElement DEF QueryInv
  <2> QED
    BY <2>1, <2>2
<1> HIDE DEF ofFile
<1>4. LastOf(ofFile) = p
  BY <1>2, <1>3 DEF LastOf
<1> QED
  BY <1>2, <1>4 DEF getLastShortnameByOffset, ofFile

(* PlacesLeadBack holds.                                                   *)
LEMMA PlacesLeadBackHolds == QueryInv /\ TextInv => PlacesLeadBack
<1> SUFFICES ASSUME QueryInv, TextInv
             PROVE  PlacesLeadBack
  OBVIOUS
<1>1. ASSUME NEW p \in DOMAIN shortnames
      PROVE  LET file == shortnames[p].fileIndex
                 given == {treePosition(p), ownerLocation(p).range.start,
                           ownerLocation(p).range.end}
                            \cup {targetRange(r, p).start : r \in DOMAIN references}
             IN /\ \A position \in given :
                     ElementAt(file, offsetOfRequest(position, file)) = Found(p)
                /\ getLastShortnameByOffset(
                     getOffsetFromPosition(treePosition(p), file), file) = Found(p)
  <2> DEFINE file == shortnames[p].fileIndex
             start == shortnames[p].charOffset
             at(offset) == getPositionFromOffset(offset, file)
  <2>1. HasNewlines(file) /\ start \in Nat /\ start >= 5
    BY StoredTexts, TextNumbers
  <2>2. ASSUME NEW offset \in (start - 1)..(start + NameWidth - 1)
        PROVE  ElementAt(file, offsetOfRequest(at(offset), file)) = Found(p)
    <3> DEFINE d == offset + 2 - start
    <3>1. /\ offset \in Nat \ {0} /\ d \in 0..(NameWidth + 1)
          /\ start + d = offset + 2
      <4> HIDE DEF start
      <4> QED
        BY <2>1, <2>2, NameWidths
    <3>2. offsetOfRequest(at(offset), file) = offset + 2
      BY <2>1, <3>1, PositionAndBack
    <3>3. ElementAt(file, start + d) = Found(p)
      <4> HIDE DEF d
      <4> QED
        BY <3>1, NameNearItsOffset
    <3> HIDE DEF start, d
    <3> QED
      BY <3>1, <3>2, <3>3
  <2>3. /\ start \in (start - 1)..(start + NameWidth - 1)
        /\ start - 1 \in (start - 1)..(start + NameWidth - 1)
        /\ start + NameWidth - 1 \in (start - 1)..(start + NameWidth - 1)
        /\ start \in Nat \ {0} /\ start - 1 \in Nat \ {0}
        /\ start + NameWidth \in Nat \ {0} /\ start + NameWidth - 1 \in Nat \ {0}
    <3> HIDE DEF start
    <3> QED
      BY <2>1, NameWidths
  <2>4. treePosition(p) = at(start)
    BY DEF treePosition
  <2>5. /\ ownerLocation(p).range.start = at(start - 1)
        /\ ownerLocation(p).range.end = at(start + NameWidth - 1)
    BY <2>1, <2>3, RangeTyped DEF ownerLocation
  <2>6. \A r \in DOMAIN references : targetRange(r, p).start = at(start)
    BY <2>1, <2>3, RangeTyped DEF targetRange
  <2>7. getOffsetFromPosition(treePosition(p), file) = start
    BY <2>1, <2>3, <2>4, PositionAndBack
  <2>8. getLastShortnameByOffset(start, file) = Found(p)
    BY LastAtItsOffset
  <2> HIDE DEF at
  <2> QED
    BY <2>2, <2>3, <2>4, <2>5, <2>6, <2>7, <2>8
<1>2. ASSUME NEW r \in DOMAIN references
      PROVE  getReferenceByOffset(
               offsetOfRequest(referenceLocation(r).range.start,
                               references[r].fileIndex),
               references[r].fileIndex) = Found(r)
  <2> DEFINE file == references[r].fileIndex
             start == references[r].charOffset
             at(offset) == getPositionFromOffset(offset, file)
  <2>1. /\ HasNewlines(file) /\ start \in Nat /\ start >= 5
        /\ EndOf(r) \in Nat /\ EndOf(r) >= start
    BY StoredTexts, TextNumbers
  <2>2. /\ start - 2 \in Nat \ {0} /\ (start - 2) + 2 = start
        /\ EndOf(r) - 1 \in Nat \ {0}
    <3> HIDE DEF start
    <3> QED
      BY <2>1
  <2>3. referenceLocation(r).range.start = at(start - 2)
    BY <2>1, <2>2, RangeTyped DEF referenceLocation
  <2>4. offsetOfRequest(at(start - 2), file) = (start - 2) + 2
    BY <2>1, <2>2, PositionAndBack
  <2>5. getReferenceByOffset(start, file) = Found(r)
    BY ReferenceAtCursor, CursorAtStart
  <2> HIDE DEF start, at
  <2> QED
    BY <2>2, <2>3, <2>4, <2>5
<1> QED
  BY <1>1, <1>2 DEF PlacesLeadBack

-----------------------------------------------------------------------------
(* The client's positions.                                                 *)

(* A growing list of numbers has as many values as places, and the last is *)
(* the greatest.                                                           *)
LEMMA GrowingList ==
  ASSUME NEW n \in Nat, NEW f \in [1..n -> Nat],
         \A i, j \in 1..n : i < j => f[i] < f[j]
  PROVE  LET values == {f[i] : i \in 1..n}
         IN /\ Cardinality(values) = n
            /\ values = {} <=> n = 0
            /\ n > 0 => Max(values) = f[n]
<1> DEFINE values == {f[i] : i \in 1..n}
<1>1. Cardinality(values) = n
  <2>1. IsFiniteSet(1..n) /\ Cardinality(1..n) = n
    BY FS_Interval
  <2>2. f \in Surjection(1..n, values)
    BY DEF Surjection
  <2>3. f \in Injection(1..n, values)
    <3>1. \A i, j \in 1..n : f[i] = f[j] => i = j
      <4>1. ASSUME NEW i \in 1..n, NEW j \in 1..n, f[i] = f[j]
            PROVE  i = j
        <5>1. ~(i < j) /\ ~(j < i)
          BY <4>1
        <5> QED
          BY <5>1
      <4> QED
        BY <4>1
    <3> QED
      BY <3>1 DEF Injection, IsInjective
  <2> QED
    BY <2>1, <2>2, <2>3, FS_Surjection
<1>2. values = {} <=> n = 0
  <2>1. n # 0 => f[n] \in values
    OBVIOUS
  <2>2. n = 0 => 1..n = {}
    OBVIOUS
  <2> QED
    BY <2>1, <2>2
<1>3. ASSUME n > 0
      PROVE  Max(values) = f[n]
  <2>1. f[n] \in values /\ values \subseteq Nat
    BY <1>3
  <2>2. \A i \in 1..n : f[n] >= f[i]
    <3>1. ASSUME NEW i \in 1..n
          PROVE  f[n] >= f[i]
      <4>1. CASE i = n
        BY <4>1
      <4>2. CASE i < n
        BY <1>3, <4>2
      <4> QED
        BY <4>1, <4>2
    <3> QED
      BY <3>1
  <2>3. \A y \in values : f[n] >= y
    BY <2>2
  <2>4. \A x \in values : (\A y \in values : x >= y) => x = f[n]
    <3> HIDE DEF values
    <3>1. ASSUME NEW x \in values, \A y \in values : x >= y
          PROVE  x = f[n]
      <4>1. x >= f[n] /\ f[n] >= x /\ x \in Nat /\ f[n] \in Nat
        BY <2>1, <2>3, <3>1
      <4> QED
        BY <4>1
    <3> QED
      BY <3>1
  <2> HIDE DEF values
  <2> QED
    BY <2>1, <2>3, <2>4 DEF Max
<1> QED
  BY <1>1, <1>2, <1>3

(* An edit of this file.                                                   *)
LEMMA EditOfFile ==
  ASSUME QueryInv, TextInv, NEW file, HasNewlines(file), edit.file = file
  PROVE  edit.at \in NewlineOffset /\ edit.at \in Nat /\ edit.newline \in BOOLEAN
<1>1. file # 0
  BY LinesOfFile
<1>2. edit # NoEdit
  BY <1>1 DEF NoEdit
<1>3. edit \in [file : 1..Len(URIs), at : NewlineOffset, newline : BOOLEAN]
  BY <1>2 DEF TextInv, EditInv
<1>4. edit.at \in NewlineOffset /\ edit.newline \in BOOLEAN
  BY <1>3
<1> QED
  BY <1>4, NewlineNumbers

(* Characters of a file stay in their order, moved or not.                 *)
LEMMA MovedInOrder ==
  ASSUME QueryInv, TextInv, NEW file, HasNewlines(file),
         NEW x \in Nat, NEW y \in Nat
  PROVE  /\ Moved(file, x) \in Nat
         /\ x < y => Moved(file, x) < Moved(file, y)
         /\ Moved(file, x) < Moved(file, y) => x < y
<1>1. CASE edit.file # file
  BY <1>1 DEF Moved
<1>2. CASE edit.file = file
  <2>1. edit.at \in Nat
    BY <1>2, EditOfFile
  <2> QED
    BY <1>2, <2>1 DEF Moved
<1> QED
  BY <1>1, <1>2

(* The newlines that the client counts before an undisturbed character are *)
(* those that the server knows.                                            *)
LEMMA NewlinesBefore ==
  ASSUME QueryInv, TextInv, NEW file, HasNewlines(file),
         NEW offset \in Nat \ {0}, NEW n, OnLine(file, offset, n),
         Undisturbed(file, offset)
  PROVE  {b \in Shown(file) : b < Moved(file, offset)}
           = {Moved(file, breaks[file][i]) : i \in 1..n}
<1> DEFINE list == breaks[file]
           len == Len(list)
           moved == {Moved(file, list[i]) : i \in DOMAIN list}
<1>1. /\ len \in Nat
      /\ DOMAIN list = 1..len
      /\ \A i \in 1..len : list[i] \in Nat
  BY LinesOfFile
<1>2. /\ n \in 0..len
      /\ \A i \in 1..len : list[i] < offset <=> i <= n
  BY DEF OnLine
<1> HIDE DEF list, len
<1>3. \A i \in 1..len : Moved(file, list[i]) < Moved(file, offset) <=> i <= n
  BY <1>1, <1>2, MovedInOrder
<1>4. {b \in moved : b < Moved(file, offset)} = {Moved(file, list[i]) : i \in 1..n}
  <2>1. \A i : i \in 1..n <=> i \in 1..len /\ i <= n
    BY <1>1, <1>2
  <2>2. \A b : b \in {Moved(file, list[i]) : i \in 1..n}
                 <=> \E i \in 1..len : i <= n /\ b = Moved(file, list[i])
    BY <2>1
  <2>3. \A b : b \in {c \in moved : c < Moved(file, offset)}
                 <=> \E i \in 1..len : i <= n /\ b = Moved(file, list[i])
    BY <1>1, <1>3
  <2> QED
    BY <2>2, <2>3
<1>5. ASSUME edit.file = file, edit.newline
      PROVE  ~(edit.at < Moved(file, offset))
  <2>1. edit.at \in Nat /\ edit.newline \in BOOLEAN
    BY <1>5, EditOfFile
  <2>2. edit.at > offset
    BY <1>5 DEF Undisturbed
  <2> QED
    BY <2>1, <2>2 DEF Moved
<1>6. Shown(file) = moved \cup (IF edit.file = file /\ edit.newline
                                THEN {edit.at} ELSE {})
  BY DEF Shown, list
<1> HIDE DEF moved
<1>7. {b \in Shown(file) : b < Moved(file, offset)}
        = {b \in moved : b < Moved(file, offset)}
  BY <1>5, <1>6
<1> QED
  BY <1>4, <1>7 DEF list

(* So both have it in the same line, and in all lines but the first one    *)
(* the client counts from the newline.                                     *)
LEMMA ClientPosition ==
  ASSUME QueryInv, TextInv, NEW file, HasNewlines(file),
         NEW offset \in Nat \ {0}, NEW n, OnLine(file, offset, n),
         Undisturbed(file, offset)
  PROVE  /\ Cursor(file, offset).line = n
         /\ n > 0 => Cursor(file, offset) =
              [line |-> n, character |-> offset - 1 - breaks[file][n]]
<1> DEFINE list == breaks[file]
           m == [i \in 1..n |-> Moved(file, list[i])]
           before == {b \in Shown(file) : b < Moved(file, offset)}
<1>1. /\ Len(list) \in Nat
      /\ \A i \in 1..Len(list) : list[i] \in Nat
      /\ \A i, j \in 1..Len(list) : i < j => list[i] < list[j]
  BY LinesOfFile DEF InLines
<1>2. /\ n \in 0..Len(list) /\ n \in Nat
      /\ \A i \in 1..Len(list) : list[i] < offset <=> i <= n
      /\ \A i \in 1..n : i \in 1..Len(list)
  BY <1>1 DEF OnLine
<1> HIDE DEF list
<1>3. before = {Moved(file, list[i]) : i \in 1..n}
  BY NewlinesBefore DEF list
<1>4. before = {m[i] : i \in 1..n}
  BY <1>3
<1>5. m \in [1..n -> Nat]
  BY <1>1, <1>2, MovedInOrder
<1>6. \A i, j \in 1..n : i < j => m[i] < m[j]
  BY <1>1, <1>2, MovedInOrder
<1>7. n > 0 => m[n] = Moved(file, list[n])
  BY <1>2
<1> HIDE DEF m
<1>8. /\ Cardinality(before) = n
      /\ before = {} <=> n = 0
      /\ n > 0 => Max(before) = m[n]
  BY <1>2, <1>4, <1>5, <1>6, GrowingList
<1>9. Cursor(file, offset) =
        [line |-> Cardinality(before),
         character |-> IF before = {} THEN Moved(file, offset)
                       ELSE Moved(file, offset) - 1 - Max(before)]
  BY DEF Cursor
<1> HIDE DEF before
<1>10. ASSUME n > 0
       PROVE  Moved(file, offset) - 1 - Moved(file, list[n]) = offset - 1 - list[n]
  <2>1. n \in 1..Len(list) /\ list[n] \in Nat /\ list[n] < offset
    BY <1>1, <1>2, <1>10
  <2>2. CASE edit.file # file
    BY <2>2 DEF Moved
  <2>3. CASE edit.file = file /\ edit.at > offset
    <3>1. edit.at \in Nat
      BY <2>3, EditOfFile
    <3>2. ~(edit.at <= offset) /\ ~(edit.at <= list[n])
      BY <2>1, <2>3, <3>1
    <3> QED
      BY <3>2 DEF Moved
  <2>4. CASE edit.file = file /\ \E b \in Range(list) : edit.at <= b /\ b < offset
    <3>1. edit.at \in Nat
      BY <2>4, EditOfFile
    <3>2. DOMAIN list = 1..Len(list)
      BY LinesOfFile DEF list
    <3>3. PICK i \in 1..Len(list) : edit.at <= list[i] /\ list[i] < offset
      BY <2>4, <3>2 DEF Range
    <3>4. i <= n
      BY <1>2, <3>3
    <3>5. list[i] <= list[n]
      <4>1. CASE i = n
        BY <1>1, <2>1, <4>1
      <4>2. CASE i < n
        BY <1>1, <2>1, <4>2
      <4> QED
        BY <2>1, <3>4, <4>1, <4>2
    <3>6. edit.at <= list[n] /\ edit.at <= offset
      BY <1>1, <2>1, <3>1, <3>3, <3>5
    <3>7. /\ Moved(file, offset) = offset + 1
          /\ Moved(file, list[n]) = list[n] + 1
      BY <2>4, <3>6 DEF Moved
    <3> QED
      BY <2>1, <3>7
  <2> QED
    BY <2>2, <2>3, <2>4 DEF Undisturbed, list
<1>11. Cursor(file, offset).line = n
  BY <1>8, <1>9
<1>12. ASSUME n > 0
       PROVE  Cursor(file, offset) =
                [line |-> n, character |-> offset - 1 - list[n]]
  <2>1. before # {}
    BY <1>2, <1>8, <1>12
  <2>2. Moved(file, offset) - 1 - Max(before) = offset - 1 - list[n]
    BY <1>7, <1>8, <1>10, <1>12
  <2> QED
    BY <1>8, <1>9, <2>1, <2>2
<1> QED
  BY <1>11, <1>12 DEF list


(* What leaves a text as it was parsed leaves what is around it so.        *)
LEMMA UndisturbedAround ==
  ASSUME QueryInv, TextInv, NEW file, HasNewlines(file),
         NEW text \in TextOffset, NEW offset \in Around(text),
         Undisturbed(file, text)
  PROVE  Undisturbed(file, offset)
<1>1. text \in Nat
  BY Grid
<1>2. CASE edit.file # file
  BY <1>2 DEF Undisturbed
<1>3. CASE edit.file = file /\ edit.at > text
  <2>1. edit.at \in NewlineOffset
    BY <1>3, EditOfFile
  <2>2. edit.at \in Nat /\ (edit.at <= text - Gap \/ edit.at > text + Space)
    BY <2>1, Grid
  <2>3. edit.at > offset
    BY <1>1, <1>3, <2>2, Spaces DEF Around
  <2> QED
    BY <2>3 DEF Undisturbed
<1>4. CASE /\ ~edit.newline
           /\ \E b \in Range(breaks[file]) : edit.at <= b /\ b < text
  <2>1. PICK b \in Range(breaks[file]) : edit.at <= b /\ b < text
    BY <1>4
  <2>2. b \in NewlineOffset
    BY LinesOfFile DEF Range, InLines
  <2>3. b \in Nat /\ (b <= text - Gap \/ b > text + Space)
    BY <2>2, Grid
  <2>4. b < offset
    BY <1>1, <2>1, <2>3, Spaces DEF Around
  <2> QED
    BY <1>4, <2>1, <2>4 DEF Undisturbed
<1> QED
  BY <1>2, <1>3, <1>4 DEF Undisturbed

(* Behind the first line the server is one character ahead of the client,  *)
(* and a request there is understood as one at the character behind.       *)
LEMMA OneAhead ==
  ASSUME QueryInv, TextInv, NEW file, HasNewlines(file),
         NEW text \in TextOffset, Undisturbed(file, text),
         Cursor(file, text).line > 0,
         NEW offset, offset \in Around(text), offset + 1 \in Around(text)
  PROVE  /\ getPositionFromOffset(offset, file) = Cursor(file, offset + 1)
         /\ offsetOfRequest(Cursor(file, offset + 1), file) = offset + 2
<1>1. /\ text \in Nat \ {0}
      /\ offset \in Nat \ {0} /\ offset + 1 \in Nat \ {0}
      /\ text \in Nat
  BY TextNumbers
<1>2. PICK n : OnLine(file, text, n)
  BY <1>1, LineOfOffset
<1>3. OnLine(file, offset, n) /\ OnLine(file, offset + 1, n)
  BY <1>2, TextInLine
<1>4. n > 0
  <2>1. Cursor(file, text).line = n
    BY <1>1, <1>2, ClientPosition
  <2> QED
    BY <2>1
<1>5. Undisturbed(file, offset + 1)
  BY UndisturbedAround
<1> DEFINE o == offset + 1
<1>6. Cursor(file, offset + 1) =
        [line |-> n, character |-> (offset + 1) - 1 - breaks[file][n]]
  <2>1. o \in Nat \ {0} /\ OnLine(file, o, n) /\ Undisturbed(file, o)
    BY <1>1, <1>3, <1>5
  <2> HIDE DEF o
  <2>2. Cursor(file, o) = [line |-> n, character |-> o - 1 - breaks[file][n]]
    BY <1>4, <2>1, ClientPosition
  <2> QED
    BY <2>2 DEF o
<1>7. /\ getPositionFromOffset(offset, file)
           = [line |-> n, character |-> offset - newlines(file)[n + 1]]
      /\ newlines(file)[n + 1] \in Nat
  BY <1>1, <1>3, ServerPosition
<1>8. newlines(file)[n + 1] = breaks[file][n]
  <2>1. n \in 1..Len(breaks[file])
    BY <1>2, <1>4, LinesOfFile DEF OnLine
  <2> QED
    BY <2>1, NewlinesOfFile
<1>9. (offset + 1) - 1 - breaks[file][n] = offset - breaks[file][n]
  BY <1>1, <1>7, <1>8
<1>10. getPositionFromOffset(offset, file) = Cursor(file, offset + 1)
  BY <1>6, <1>7, <1>8, <1>9
<1>11. offsetOfRequest(getPositionFromOffset(offset, file), file) = offset + 2
  BY <1>1, PositionAndBack
<1> QED
  BY <1>10, <1>11

(* RangesCoverText holds.                                                  *)
LEMMA RangesCoverHolds == QueryInv /\ TextInv => RangesCoverText
<1> SUFFICES ASSUME QueryInv, TextInv
             PROVE  RangesCoverText
  OBVIOUS
<1>1. ASSUME NEW p \in DOMAIN shortnames,
             Undisturbed(shortnames[p].fileIndex, shortnames[p].charOffset),
             Cursor(shortnames[p].fileIndex, shortnames[p].charOffset).line > 0
      PROVE  LET file == shortnames[p].fileIndex
                 start == shortnames[p].charOffset
             IN /\ ownerLocation(p).range =
                     [start |-> Cursor(file, start),
                      end |-> Cursor(file, start + NameWidth)]
                /\ \A r \in DOMAIN references :
                     targetRange(r, p).start = Cursor(file, start + 1)
  <2> DEFINE file == shortnames[p].fileIndex
             start == shortnames[p].charOffset
             at(offset) == getPositionFromOffset(offset, file)
  <2>1. /\ HasNewlines(file) /\ start \in TextOffset
        /\ start \in Nat /\ start >= 5
    BY StoredTexts, TextNumbers
  <2>2. ASSUME NEW offset, offset \in Around(start), offset + 1 \in Around(start)
        PROVE  at(offset) = Cursor(file, offset + 1)
    BY <1>1, <2>1, <2>2, OneAhead
  <2> HIDE DEF start, at
  <2>3. /\ start - 1 \in Around(start) /\ (start - 1) + 1 = start
        /\ start \in Around(start) /\ start + 1 \in Around(start)
        /\ start + NameWidth - 1 \in Around(start)
        /\ start + NameWidth \in Around(start)
        /\ (start + NameWidth - 1) + 1 = start + NameWidth
        /\ start - 1 \in Nat \ {0} /\ start \in Nat \ {0}
        /\ start + NameWidth - 1 \in Nat \ {0} /\ start + NameWidth \in Nat \ {0}
    BY <2>1, NameWidths DEF Around
  <2>4. /\ at(start - 1) = Cursor(file, start)
        /\ at(start) = Cursor(file, start + 1)
        /\ at(start + NameWidth - 1) = Cursor(file, start + NameWidth)
    <3>1. at(start - 1) = Cursor(file, (start - 1) + 1)
      BY <2>2, <2>3
    <3>2. at(start) = Cursor(file, start + 1)
      BY <2>2, <2>3
    <3>3. at(start + NameWidth - 1) = Cursor(file, (start + NameWidth - 1) + 1)
      BY <2>2, <2>3
    <3> QED
      BY <2>3, <3>1, <3>2, <3>3
  <2>5. ownerLocation(p).range = [start |-> at(start - 1),
                                  end |-> at(start + NameWidth - 1)]
    BY <2>1, <2>3, RangeTyped DEF ownerLocation, RangeOf, start, at
  <2>6. \A r \in DOMAIN references : targetRange(r, p).start = at(start)
    BY <2>1, <2>3, RangeTyped DEF targetRange, start, at
  <2> QED
    BY <2>4, <2>5, <2>6 DEF start
<1>2. ASSUME NEW r \in DOMAIN references,
             Undisturbed(references[r].fileIndex, references[r].charOffset),
             Cursor(references[r].fileIndex, references[r].charOffset).line > 0
      PROVE  LET file == references[r].fileIndex
                 start == references[r].charOffset
             IN referenceLocation(r).range =
                  [start |-> Cursor(file, start - 1), end |-> Cursor(file, EndOf(r))]
  <2> DEFINE file == references[r].fileIndex
             start == references[r].charOffset
             end == EndOf(r)
             at(offset) == getPositionFromOffset(offset, file)
  <2>1. /\ HasNewlines(file) /\ start \in TextOffset
        /\ start \in Nat /\ start >= 5
        /\ \E w \in 0..Space : end = start + w
    BY StoredTexts, TextNumbers
  <2>2. ASSUME NEW offset, offset \in Around(start), offset + 1 \in Around(start)
        PROVE  at(offset) = Cursor(file, offset + 1)
    BY <1>2, <2>1, <2>2, OneAhead
  <2> HIDE DEF start, at, end
  <2>3. /\ start - 2 \in Around(start) /\ start - 1 \in Around(start)
        /\ (start - 2) + 1 = start - 1
        /\ end - 1 \in Around(start) /\ end \in Around(start)
        /\ (end - 1) + 1 = end
        /\ start - 2 \in Nat \ {0} /\ end - 1 \in Nat \ {0}
    BY <2>1, Spaces DEF Around
  <2>4. at(start - 2) = Cursor(file, start - 1) /\ at(end - 1) = Cursor(file, end)
    <3>1. at(start - 2) = Cursor(file, (start - 2) + 1)
      BY <2>2, <2>3
    <3>2. at(end - 1) = Cursor(file, (end - 1) + 1)
      BY <2>2, <2>3
    <3> QED
      BY <2>3, <3>1, <3>2
  <2>5. referenceLocation(r).range = [start |-> at(start - 2), end |-> at(end - 1)]
    BY <2>1, <2>3, RangeTyped DEF referenceLocation, RangeOf, start, end, at
  <2> QED
    BY <2>4, <2>5 DEF start, end
<1> QED
  BY <1>1, <1>2 DEF RangesCoverText


(* The beginning of a path is no longer than the path.                     *)
LEMMA WidthOfPrefix ==
  ASSUME NEW path \in Seq(Name), NEW k \in 1..Len(path)
  PROVE  PathWidth(SubSeq(path, 1, k)) \in 0..PathWidth(path)
<1> DEFINE prefix == SubSeq(path, 1, k)
           w == NameWidth + 1
           len == Len(path)
<1>1. len \in Nat /\ k \in Nat \ {0} /\ k <= len /\ w \in Nat
  BY LenProperties, StorageAssumption
<1>2. prefix \in Seq(Name) /\ Len(prefix) = k
  BY <1>1, SubSeqProperties
<1>3. path # <<>> /\ prefix # <<>>
  <2> HIDE DEF prefix
  <2> QED
    BY <1>1, <1>2, EmptySeq
<1>4. /\ PathWidth(prefix) \in Nat /\ PathWidth(prefix) = k * w - 1
      /\ PathWidth(path) \in Nat /\ PathWidth(path) = len * w - 1
  <2> HIDE DEF prefix
  <2> QED
    BY <1>2, <1>3, WidthOfPath
<1> HIDE DEF prefix, w, len
<1>5. k * w <= len * w
  <2>1. k * w \in Nat /\ len * w \in Nat /\ (k < len => k * w + w <= len * w)
    BY <1>1, Multiples
  <2> DEFINE a == k * w
             b == len * w
  <2>2. k = len => a = b
    OBVIOUS
  <2> HIDE DEF a, b
  <2>3. a \in Nat /\ b \in Nat /\ (k < len => a + w <= b)
    BY <2>1 DEF a, b
  <2>4. a <= b
    BY <1>1, <2>2, <2>3
  <2> QED
    BY <2>4 DEF a, b
<1>6. k * w \in Nat /\ len * w \in Nat
  BY <1>1, Multiples
<1> QED
  BY <1>4, <1>5, <1>6 DEF prefix

(* LinkUnderCursor holds.                                                  *)
LEMMA LinkUnderCursorHolds == QueryInv /\ TextInv => LinkUnderCursor
<1> SUFFICES ASSUME QueryInv, TextInv, mode = "idle", NEW r \in DOMAIN references,
                    Undisturbed(references[r].fileIndex, references[r].charOffset),
                    Cursor(references[r].fileIndex, references[r].charOffset).line > 0,
                    NEW i \in Characters(r)
             PROVE  LinksAt(r, i)
  BY DEF LinkUnderCursor
<1> DEFINE file == references[r].fileIndex
           start == references[r].charOffset
           path == references[r].targetPath
           width == PathWidth(path)
           targets == getShortnamesByFullPath(path)
           request == start + i + 1
           k == 1 + (i + 1) \div (NameWidth + 1)
           answer == getDefinition(file, offsetOfRequest(Cursor(file, start + i), file))
           at(offset) == getPositionFromOffset(offset, file)
<1>1. /\ HasNewlines(file) /\ start \in TextOffset
      /\ start \in Nat /\ start >= 5
      /\ path \in Seq(Name) /\ width \in 0..Space
      /\ EndOf(r) = start + width
  BY StoredTexts, TextNumbers
<1>2. i \in 0..(width - 1)
  BY DEF Characters
<1>3. ASSUME NEW offset, offset \in Around(start), offset + 1 \in Around(start)
      PROVE  /\ at(offset) = Cursor(file, offset + 1)
             /\ offsetOfRequest(Cursor(file, offset + 1), file) = offset + 2
  BY <1>1, <1>3, OneAhead
<1>4. offsetOfRequest(Cursor(file, start + i), file) = request
  <2> HIDE DEF start, width, at
  <2>1. /\ start + i - 1 \in Around(start) /\ (start + i - 1) + 1 \in Around(start)
        /\ (start + i - 1) + 1 = start + i /\ (start + i - 1) + 2 = request
    BY <1>1, <1>2, Spaces DEF Around
  <2>2. offsetOfRequest(Cursor(file, (start + i - 1) + 1), file)
          = (start + i - 1) + 2
    BY <1>3, <2>1
  <2> QED
    BY <2>1, <2>2
<1>5. request \in Cursors(r) /\ request - start = i + 1
  <2> HIDE DEF start, width
  <2>1. request \in start..(start + width) /\ request - start = i + 1
    BY <1>1, <1>2
  <2> QED
    BY <1>1, <2>1 DEF Cursors, start
<1> DEFINE found == getDefinition(file, request)
<1>6. answer = found
  BY <1>4
<1>7. CASE Cardinality(targets) # 1
  <2>1. found = multipleDefinition
    BY <1>5, <1>7, DefinitionAtCursor
  <2> QED
    BY <1>6, <1>7, <2>1 DEF LinksAt
<1>8. CASE Cardinality(targets) = 1
  <2>1. /\ found.outcome = "found"
        /\ getFullPath(shortnames[found.value])
             = SubSeq(path, 1, 1 + (request - start) \div (NameWidth + 1))
    BY <1>5, <1>8, DefinitionOfPrefixHolds DEF DefinitionOfPrefix
  <2>2. 1 + (request - start) \div (NameWidth + 1) \in 1..Len(path)
    BY <1>5, <1>8, DefinitionAtCursor
  <2>3. /\ getFullPath(shortnames[found.value]) = SubSeq(path, 1, k)
        /\ k \in 1..Len(path)
    <3> HIDE DEF request, start, path, found
    <3> QED
      BY <1>5, <2>1, <2>2
  <2> DEFINE w == PathWidth(SubSeq(path, 1, k))
  <2>4. w \in 0..width
    <3> HIDE DEF k, path
    <3> QED
      BY <1>1, <2>3, WidthOfPrefix
  <2>5. originSelectionRange(r, found.value)
          = [start |-> at(start - 2), end |-> at(start + w - 1)]
    <3> HIDE DEF found
    <3> QED
      BY <2>3 DEF originSelectionRange, RangeOf
  <2>6. /\ at(start - 2) = Cursor(file, start - 1)
        /\ at(start + w - 1) = Cursor(file, start + w)
    <3> HIDE DEF start, w, width, at
    <3>1. /\ start - 2 \in Around(start) /\ (start - 2) + 1 \in Around(start)
          /\ (start - 2) + 1 = start - 1
          /\ start + w - 1 \in Around(start) /\ (start + w - 1) + 1 \in Around(start)
          /\ (start + w - 1) + 1 = start + w
      BY <1>1, <2>4, Spaces DEF Around
    <3>2. at(start - 2) = Cursor(file, (start - 2) + 1)
      BY <1>3, <3>1
    <3>3. at(start + w - 1) = Cursor(file, (start + w - 1) + 1)
      BY <1>3, <3>1
    <3> QED
      BY <3>1, <3>2, <3>3
  <2>7. originSelectionRange(r, found.value)
          = [start |-> Cursor(file, start - 1), end |-> Cursor(file, start + w)]
    <3> HIDE DEF start, w, at, found
    <3> QED
      BY <2>5, <2>6
  <2>8. LinksAt(r, i) <=>
          IF Cardinality(targets) # 1 THEN answer = multipleDefinition
          ELSE /\ answer.outcome = "found"
               /\ getFullPath(shortnames[answer.value]) = SubSeq(path, 1, k)
               /\ originSelectionRange(r, answer.value) =
                    [start |-> Cursor(file, start - 1), end |-> Cursor(file, start + w)]
    BY DEF LinksAt
  <2> HIDE DEF found, answer, targets, path, start, k, w
  <2> QED
    BY <1>6, <1>8, <2>1, <2>3, <2>7, <2>8
<1> QED
  BY <1>7, <1>8

-----------------------------------------------------------------------------
(* The theorems.                                                           *)

(* No place in an answer has wrapped around below zero: none is offset 0,  *)
(* which is in line -1 (arxmlStorage.cpp: getPositionFromOffset), however  *)
(* many files there are and wherever their lines break.                    *)
THEOREM PlacesAreTyped == TextSpec => []TextTypeOK
BY TextInvInvariant, TextTypeHolds, PTL

(* A request at a place that the server has given finds the element or the *)
(* reference that it was given for: the 2 that the queries add to an       *)
(* offset never leads out of a name (xmlParser.cpp:115-123).               *)
THEOREM PlacesAnswerForThemselves == TextSpec => []PlacesLeadBack
BY TextInvInvariant, PlacesLeadBackHolds, PTL

(* Behind the first line, the ranges of owners and references cover just   *)
(* their text in the file that the client shows, edited elsewhere or not.  *)
THEOREM RangesMatchTheText == TextSpec => []RangesCoverText
BY TextInvInvariant, RangesCoverHolds, PTL

(* Behind the first line, the cursor on any character of a reference leads *)
(* to the element named by the path up to there, and just that part of the *)
(* reference is selected (xmlParser.cpp: getDefinition).                   *)
THEOREM LinksFollowTheCursor == TextSpec => []LinkUnderCursor
BY TextInvInvariant, LinkUnderCursorHolds, PTL
=============================================================================
