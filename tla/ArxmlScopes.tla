---------------------------- MODULE ArxmlScopes ----------------------------
(***************************************************************************)
(* What the ARXML parser promises, without its depth counter and without   *)
(* pointers: the SHORT-NAMEs of an XML document are scoped lexically.      *)
(*                                                                         *)
(* A SHORT-NAME is in scope from where it stands to the end of the XML     *)
(* element it stands in, and the path of a named element or of the owner   *)
(* of a reference is the sequence of the names in scope.  Closing an       *)
(* element restores the scope its start tag saw.  There is one exception:  *)
(* an <IDENT> element that holds just a SHORT-NAME is transparent, its     *)
(* name belongs to the element around it.                                  *)
(*                                                                         *)
(* The promise ends, until the end of a document, at a tag that is taken   *)
(* for a reference and is none: after it the scope is lost.                *)
(*                                                                         *)
(* ArxmlParser, the parser of xmlParser.cpp, implements this module.       *)
(***************************************************************************)
EXTENDS Integers, Sequences, SequencesExt

CONSTANT Name         \* the short names a document may use

VARIABLES file,      \* number of the document being read, 0 before the first
          reading,   \* is a document being read?
          lost,      \* has the scope been lost in this document?
          open,      \* the open XML elements, outermost first
          scope,     \* the names in scope, outermost first
          defined,   \* <<document, full path>> of every named element
          owners     \* for each reference, <<document, path of its owner>>

vars == <<file, reading, lost, open, scope, defined, owners>>

(* An open XML element: is it an <IDENT>, which tags did it hold so far,   *)
(* and which names were in scope at its start tag.                         *)
Tags == {"IDENT", "OTHER"}
Contents == {"none", "shortname", "more"}
OpenElement == [tag : Tags, content : Contents, outer : Seq(Name)]

TypeOK ==
  /\ file \in Nat
  /\ reading \in BOOLEAN
  /\ lost \in BOOLEAN
  /\ open \in Seq(OpenElement)
  /\ scope \in Seq(Name)
  /\ defined \subseteq Nat \X Seq(Name)
  /\ owners \in Seq(Nat \X Seq(Name))

Init ==
  /\ file = 0
  /\ reading = FALSE
  /\ lost = FALSE
  /\ open = <<>>
  /\ scope = <<>>
  /\ defined = {}
  /\ owners = <<>>

(* The innermost open element has received one more tag.                   *)
Note(elems, content) ==
  IF elems = <<>> THEN elems
  ELSE [elems EXCEPT ![Len(elems)].content = content]

Begin ==
  /\ ~reading
  /\ file' = file + 1
  /\ reading' \in BOOLEAN          \* an empty document has no tags to read
  /\ UNCHANGED <<lost, open, scope, defined, owners>>

End ==
  /\ reading
  /\ open = <<>>
  /\ reading' = FALSE
  /\ lost' = FALSE
  /\ scope' = <<>>
  /\ UNCHANGED <<file, open, defined, owners>>

(* A tag is read in a known scope.                                         *)
InScope == reading /\ ~lost

OpenTag(tag) ==
  /\ InScope
  /\ open' = Append(Note(open, "more"),
                    [tag |-> tag, content |-> "none", outer |-> scope])
  /\ UNCHANGED <<file, reading, lost, scope, defined, owners>>

CloseTag ==
  /\ InScope
  /\ open # <<>>
  /\ LET closed == Last(open)
     IN scope' = IF closed.tag = "IDENT" /\ closed.content = "shortname"
                 THEN scope
                 ELSE closed.outer
  /\ open' = Front(open)
  /\ UNCHANGED <<file, reading, lost, defined, owners>>

ShortName(n) ==
  /\ InScope
  /\ scope' = Append(scope, n)
  /\ defined' = defined \cup {<<file, scope'>>}
  /\ open' = Note(open, IF open # <<>> /\ Last(open).content = "none"
                        THEN "shortname" ELSE "more")
  /\ UNCHANGED <<file, reading, lost, owners>>

Reference ==
  /\ InScope
  /\ owners' = Append(owners, <<file, scope>>)
  /\ open' = Note(open, "more")
  /\ UNCHANGED <<file, reading, lost, scope, defined>>

(* A tag that is none is taken for a reference, whose owner is still right. *)
Lose ==
  /\ InScope
  /\ lost' = TRUE
  /\ owners' = Append(owners, <<file, scope>>)
  /\ open' = <<>>
  /\ scope' = <<>>
  /\ UNCHANGED <<file, reading, defined>>

(* Afterwards elements get any paths and references any owners, but all of *)
(* this document; what is there already stays as it is.                    *)
Guess ==
  /\ reading
  /\ lost
  /\ defined \subseteq defined'
  /\ \A d \in defined' \ defined : d \in {file} \X Seq(Name)
  /\ \/ owners' = owners
     \/ /\ owners' # <<>>
        /\ Front(owners') = owners
        /\ Last(owners') \in {file} \X Seq(Name)
  /\ UNCHANGED <<file, reading, lost, open, scope>>

Next ==
  \/ Begin
  \/ End
  \/ \E tag \in Tags : OpenTag(tag)
  \/ CloseTag
  \/ \E n \in Name : ShortName(n)
  \/ Reference
  \/ Lose
  \/ Guess

Spec == Init /\ [][Next]_vars
=============================================================================
