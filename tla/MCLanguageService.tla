------------------------- MODULE MCLanguageService -------------------------
(* Instances of LanguageService for TLC: a workspace folder with two files *)
(* in it, one of them with a blank in its path, another file beside it,    *)
(* and a folder that is gone.                                              *)
EXTENDS LanguageService

CONSTANTS root, gone, inside, outside, blank, blankEscaped

MCText == {root, gone, inside, outside, blank, blankEscaped}
MCEscaped == [text \in MCText |-> IF text = blank THEN blankEscaped ELSE text]
MCOnDisk == {inside, outside, blank}
MCDirectory == {root}

untitled == [colon |-> "no ///", text |-> inside]

(* As another editor writes the URI of the same file.                      *)
otherEditor == [colon |-> ":", text |-> inside]

MCClientUri ==
  {editorUri(inside), editorUri(outside), editorUri(blank), otherEditor, untitled}
MCInFolder == {editorUri(inside)}

folder == [uri |-> editorUri(root), files |-> {inside, blank}]
noFolder == [uri |-> editorUri(gone), files |-> {}]

MCFolderLists == {<<>>, <<folder>>, <<folder, noFolder>>}
MCOneFolder == {<<folder>>}
=============================================================================
