----------------------------- MODULE Workspace -----------------------------
(***************************************************************************)
(* The storages of lsp::XmlParser (xmlParser.cpp: getStorageForUri,        *)
(* parseFullFolder): which files were parsed into which storage.  What a   *)
(* storage holds of its files is the subject of ArxmlParser; here it is    *)
(* the set of its URIs (containsFile).                                     *)
(*                                                                         *)
(* URIs are compared as they are written, those that the server makes of   *)
(* the paths in a workspace folder with those that the editor sends.  A    *)
(* path is a drive letter, a colon and a text; a URI is "file:///", the    *)
(* letter, the colon as it is or as "%3A", and a text; or it has no "///". *)
(*                                                                         *)
(* lastUsedID is written and never read: it is left out.                   *)
(***************************************************************************)
EXTENDS Integers, Sequences, SequencesExt

CONSTANTS Text,         \* texts of paths and URIs
          Escaped,      \* how the editor writes a text: a blank as "%20", etc.
          OnDisk,       \* texts of the paths of files
          Directory     \* and of directories

ASSUME FilesAssumption ==
  /\ Escaped \in [Text -> Text]
  /\ OnDisk \subseteq Text
  /\ Directory \subseteq Text \ OnDisk

DocumentUri == [colon : {"%3A", ":", "no ///"}, text : Text]

(* A workspace folder, and the .arxml files right in it.                   *)
Folder == [uri : DocumentUri, files : SUBSET OnDisk]

(* How Visual Studio Code writes the URI of a path.                        *)
editorUri(text) == [colon |-> "%3A", text |-> Escaped[text]]

(* The character behind the drive letter is replaced; the text is kept.    *)
helper_makeURI(text) == [colon |-> "%3A", text |-> text]

(* Without "%3A" replace gets npos and throws std::out_of_range.           *)
throwsOutOfRange(uri) == uri.colon # "%3A"

(* The path of the URI is one of these: nothing in it is unescaped.        *)
helper_sanitizeUri(uri, paths) == ~throwsOutOfRange(uri) /\ uri.text \in paths

VARIABLE storages     \* storages_, each as the set of its URIs

StoragesTypeOK == storages \in Seq(SUBSET DocumentUri)

StoragesInit == storages = <<>>

(* The positions in a list of storages of those that contain a file.       *)
Containing(list, uri) == {k \in DOMAIN list : uri \in list[k]}

(* Mutant: the list is searched from its end.                              *)
ServedByLast(list, uri) ==
  CHOOSE k \in Containing(list, uri) : \A j \in Containing(list, uri) : k >= j

(* getStorageForUri serves a file from the first storage that contains it. *)
ServedBy(list, uri) ==
  CHOOSE k \in Containing(list, uri) : \A j \in Containing(list, uri) : k <= j

(* The outcomes of getStorageForUri(uri).                                  *)
throwsBadUri(uri) == uri.colon = "no ///"

findsStorage(uri) ==
  /\ ~throwsBadUri(uri)
  /\ Containing(storages, uri) # {}

parsesFile(uri) ==
  /\ ~throwsBadUri(uri)
  /\ Containing(storages, uri) = {}
  /\ helper_sanitizeUri(uri, OnDisk)

(* Sanitizing the URI, file_size or the mapping throws; nothing catches it. *)
throwsUncaught(uri) ==
  ~(throwsBadUri(uri) \/ findsStorage(uri) \/ parsesFile(uri))

getStorageForUri(uri) ==
  storages' = IF parsesFile(uri) THEN Append(storages, {uri}) ELSE storages

(* parseFullFolder for each folder in turn, up to the first that cannot be *)
(* opened: that one throws, and those before it are parsed already.        *)
Opens(folder) ==
  /\ helper_sanitizeUri(folder.uri, Directory)
  /\ \A file \in folder.files : helper_sanitizeUri(helper_makeURI(file), OnDisk)

Parsed(folders) ==
  CHOOSE k \in 0..Len(folders) :
    /\ \A i \in 1..k : Opens(folders[i])
    /\ k < Len(folders) => ~Opens(folders[k + 1])

AllParsed(folders) == Parsed(folders) = Len(folders)

(* Mutant: files are entered by their paths.                               *)
parseFullFoldersByPath(folders) ==
  storages' = storages \o
    [i \in 1..Parsed(folders) |->
       {[colon |-> ":", text |-> file] : file \in folders[i].files}]

parseFullFolders(folders) ==
  storages' = storages \o
    [i \in 1..Parsed(folders) |->
       {helper_makeURI(file) : file \in folders[i].files}]
=============================================================================
