# A specification of the ARXML language server

TLA+ modules of the ARXML language server of this repository: the parser that
turns ARXML files into a tree of named elements, the storages it fills, the
queries on them, with their positions and URIs, and the service that answers an
editor over a socket, down to the bytes it reads. TLC checks the modules on
small instances; TLAPS proves theorems about the parser, the queries, positions,
the service and the socket for all of them.

    tlc -config parser_one_file.cfg MCArxmlParser     # one run
    tlapm ArxmlParserProofs.tla                       # one module's proofs

`PROJECT.json` lists the runs, the source lines of each definition, the hazards
and the findings.

## The system

The server is one process with one thread. An editor (the client) starts it,
and they exchange JSON-RPC messages over a socket.

| part | state | operations | called by |
|---|---|---|---|
| `LanguageService` (`languageService.cpp`) | static pointers to the parts below; the counter of `getNextRequestID` | `start`, `run`, callbacks for 3 notifications, 9 requests and 3 kinds of response, requests and events to the client | `main`, `MessageParser` |
| `MessageParser` (`messageParser.cpp`) | tables of callbacks: by method (fixed after `start`), by id for responses | `register_…_callback`, `parse` | `run` |
| `IOHandler` (`ioHandler.cpp`) | `sendStack_`, the socket | `addMessageToSend`, `readNextMessage`, `writeAllMessages` | `run`, callbacks |
| `XmlParser` (`xmlParser.cpp`) | `storages_` | `getStorageForUri`, `parseFullFolder`, `parseSingleFile`; the queries `getHover`, `getDefinition`, `getReferences`, `getChildren`, `getOwner`, `getNearestShortname`, `getParent` | request and response callbacks |
| `ArxmlStorage` (`arxmlStorage.cpp`) | `shortnames_` with two unique indices, `references_`, `newlineOffsets_`, `URIs_` | insertions, lookups by path and by offset, conversion between offsets and positions | `XmlParser` |
| `config` (`config.cpp`) | `shutdown`, `referenceLinkToParentShortname` | – | callbacks, `run`, `XmlParser` |
| `main`, `types.hpp`, `lspExceptions.hpp` | – | – | |
| vendored `json.hpp`, `jsonrpcpp.hpp`; boost | – | – | |

What makes each part correct, and what is hard about it:

* **Parsing.** The parser keeps no tree of the file: only a depth counter, the
  kinds of the last two tags and a stack of named elements with depths, one of
  which an `</IDENT>` lowers. From these it has to give every name the right
  path and parent and every reference the right owner. It finds references by
  the text `DEST` anywhere in a start tag, so also in tags that are none, and
  from there on its counter is wrong. A name defined twice is
  merged with its first definition. Storage is shared by the files of a folder,
  and pointers into it are kept for ever.
* **Storages.** A folder is parsed into one storage; a file asked for earlier,
  or outside of the folders, gets one of its own. Files are never parsed again
  on purpose, and nothing is ever removed.
* **Positions.** An editor asks at a line and a character; the storage knows
  offsets and, for each file, where its newlines are. Each query has constants
  of its own that make up for where offsets and characters begin. Nothing tells
  the server that a file was edited.
* **URIs.** They are compared as they are written. Those of a folder's files are
  made by the server, those of requests by the editor.
* **The socket.** It is a stream, and what arrives may end in the middle of a
  header or hold several messages. `read_` waits for 30 bytes, takes them as a
  header, and has to account for each byte of the content among them.
* **The service.** There is no concurrency in the server, but there is between
  it and its client: requests several ahead, the server's own requests answered
  late and in any order, settings that change meanwhile, an exit behind
  unanswered requests. What a callback pushes is sent in reverse order.
* **Failures.** Some exceptions are turned into `null`, one is forgotten by
  `run`, and all others end the process.

The hazards these lead to are listed, line by line, in `PROJECT.json`.

## Modules

| module | models |
|---|---|
| `ArxmlStorage` | the data structure: state, insertions and lookups |
| `ArxmlParser` | extends it: `parseSingleFile`, `parseNewlines`, `parseShortnamesAndReferences` |
| `ArxmlScopes` | what the parser promises: lexical scoping of names; `ArxmlParser` implements it |
| `ArxmlQueries` | extends it: the queries `getHover` … `getParent` |
| `Positions` | extends it: the text of files, edits, `newlineOffsets_`, `getOffsetFromPosition`, `getPositionFromOffset`, the places in answers |
| `Workspace` | `storages_`: `getStorageForUri`, `parseFullFolder`; `helper_makeURI`, `helper_sanitizeUri` and URIs as editors write them |
| `LanguageService` | extends it: `run`, all callbacks, dispatch, the send stack, and the client |
| `SerialServer` | what the service promises: a serial server; `LanguageService` implements it |
| `FrameReader` | `read_` and `write_`, on a stream of bytes |
| `MessageChannel` | what the server's loop takes the socket for: a queue of whole messages; `FrameReader` implements it |
| `MCArxmlParser`, `MCArxmlQueries`, `MCPositions`, `MCFrameReader`, `MCLanguageService` | values of the constants for TLC |
| `ArxmlParserProofs` | types of the parser's state, parents and paths |
| `ArxmlListsProofs` | extends it: newlines, children and owners |
| `ArxmlScopesProofs` | extends that: `ArxmlParser` implements `ArxmlScopes` |
| `ArxmlQueriesProofs` | extends `ArxmlListsProofs`: the answers of `ArxmlQueries` |
| `PositionsProofs` | extends that: the conversions of positions and the places in answers |
| `LanguageServiceProofs` | types, callbacks, storages, URIs and settings of the service |
| `SerialServerProofs` | extends it: `LanguageService` implements `SerialServer` |
| `FrameReaderProofs` | `FrameReader`, and that it implements `MessageChannel` |

Definitions marked "Mutant" in a comment are faulty variants of the definition
after them. They are used nowhere: put in its place, each makes a property fail,
which shows that the property depends on it.

### ArxmlStorage and ArxmlParser

The file is the environment: `doc` is the stack of its open elements, and any
tag that keeps it well-formed may come next. One step is one round of the
parser's loop, so one tag.

| code | model |
|---|---|
| `ShortnameElement*`, `ReferenceElement*` | position in `shortnames`, `references`; 0 is `nullptr` |
| `ShortnameElement::children`, `::references` | `children`, `ownReferences`: they are `mutable` and change after insertion |
| path string `"a/b"` | the sequence of its names |
| offset of a tag | `pos`, a multiple of `TagWidth` |
| `newlineOffsets_[i]` | the index of the file whose newlines the vector holds |
| the two unique indices of the container | `Conflicts` |
| `depth`, `depthElements`, `lastTag`, `currentTag` | variables of the same names |
| file index | from 1 on |
| comment, `<?…?>`, `<TAG/>` | `SkipTag` |
| start tag without `DEST` in it | `OpenTag`; only `IDENT` is told from the others |
| end tag: the raise of `</IDENT>`, then the loop that pops | `CloseTag` with `RaiseIdent`, `PopDeeper` |
| `<SHORT-NAME>n</SHORT-NAME>` | `ShortName` |
| any start tag with `DEST` in it, also in its name, and `<… DEST=…/>` | `StoreReference` |
| `<… DEST="…">path</…>` | `Reference` |
| all others of these, such as `<DESTINATION-URI-DEFS>`, and the tag that follows, which is skipped | `MisreadTag`, `AfterMisread` |
| `uint32_t` | `0..(Uint32 - 1)`; `depth` and the depths on the stack wrap around |

`parseFullFolder` opens the files of a directory one after the other, each once
(`BeginFile`, `EndFile`); a storage of a single file is the case of one file.
After a `MisreadTag`, `depth` no longer counts the open elements: end tags take
it past zero, and names leave their scope too early. `misread` records that
there was one in the file being parsed, and `EndFile`, where the function's local
variables end, clears it. The parser stores a reference for such a tag too, whose
path is the text up to the next tag: white space in a file, no element's path,
and here the empty path. `AfterMisread` has what may be open in the file once the
parser has skipped the tag behind it.

After a write past the end of `newlineOffsets_`, which C++ leaves undefined,
`mode` is `"undefined"` and nothing is claimed of what comes next.

The documents have matching tags, a SHORT-NAME has no blanks or attributes, and
names are not empty and have no `/`, as in any ARXML file; they need not have a
single root. An attribute has no `>` in its value, there is no `<!DOCTYPE …>` or
`CDATA` section, and no tag is commented out just behind a misread one. The
parser does not promise anything for others (`Developing.md`, "ARXML Parser").

### ArxmlQueries

A query reads the storage and changes nothing, and it runs when no file is being
parsed. So it is an operator, and a property of queries is an invariant of
`ArxmlParser`'s states with `mode = "idle"`, quantified over what may be asked.
An outcome is `Found(value)` or one of the exceptions, or `undefined` where the
code follows a null `owner` or reads newlines that do not exist.

The position of a request is the offset the code computes from it (`+ 2`
included); names are all `NameWidth` characters long, so the slashes of a path
are at known places. A place in an answer is `<<file, offset>>` instead of a range. The
order of the answer does not matter to a client, so `getChildren` is a set, and
`getReferences` a function of the references found.

### Positions

`Positions` gives the files of `ArxmlParser` lines. A line may break before any
tag, `Gap` characters ahead of the next text (both it and `TagWidth` are how
the model lays files out, and the code has no part in it); `breaks` has the offsets of the
newlines of each file, in their order. When a file is parsed, `newlineOffsets_` gets 0 and these
offsets (`parseNewlines`). Later the user may insert one character or one
newline (`Edit`): the server's state stays, and the client sees the file shifted
(`Moved`, `Shown`). `Cursor` is the position at which the client has a
character, independent of the code's conversions: the number of newlines before
it, and the distance from the last. The properties compare what the server makes
of positions with that.

For a line that the vector has no entry for, the code reads beside it; the model
uses a number far below zero there, so that whatever is computed from it is
recognizably wrong.

| code | model |
|---|---|
| `Position`, `Range`, `Location` | record types whose numbers are natural: `TextTypeOK` says that none has wrapped |
| `getOffsetFromPosition`, `getPositionFromOffset` | operators of the same names |
| `getOffsetFromPosition(...) + 2` | `offsetOfRequest` |
| `originSelectionRange`, `targetRange` of `getDefinition` and `getHover` | operators of the same names |
| places in the answers of `getReferences` and `getOwner` | `ownerLocation`, `referenceLocation` |
| `pos` of a tree element | `treePosition` |

### FrameReader and MessageChannel

A byte is the pair of the number of its message and its place in the frame;
`CharOf` is all that is known of the contents, whether a byte is blank. `Write`
puts a frame on the `wire`, `Arrive` moves any first part of it to the `socket`,
and the three steps of `read_` are `ReadHeader`, `ReadContent` (one transfer of
whatever has arrived, as `asio::read` makes them until it has enough) and
`ReturnMessage`. The header is as wide as the code makes it, 20 characters and
the digits of the length, which `HeaderWidth` abstracts; the buffer of 30 is
`BufferSize`. `FrameAssumption` says that a body fills what is left of the buffer
after its header: at most nine characters, while the shortest JSON-RPC
message, which names its version and a method or an id, is longer than that.

`Vanish` ends the peer's half of the stream anywhere. The code ignores the error
and returns what it has. Where the reader would take a header and is not in step
with the frames, it has `failed`: the message it returned before had lost a part
and ended with bytes of the next frame, which is not JSON; the
`ParseErrorException` of `jsonrpcpp` that this leads to is not caught in `run`,
and has ended the process. (Read on, `read_` itself might not notice: of
`ontent-Length: 105` it would take `05` for the length.)

### Workspace and LanguageService

A storage is here the set of its URIs. A URI is a spelling of the colon behind
the drive letter and a text, or has no `///` (`badUriException`). The path in it
is that of a file if the colon is `%3A` and the text, in which nothing is
unescaped, is that of a path on disk; on any other URI that is not in memory an
exception is thrown that nobody catches. The server spells the URIs of a
folder's files with `helper_makeURI`; Visual Studio Code spells its own as
`editorUri`, with every text `Escaped`; a client may also ask with the colon as
it is. The list of folders in the client's answer is opened one by one, up to
the first that is not there.

The server reads one message and runs its callback in one step, because nothing
else can see or change its state in between, then writes what was pushed, one
message a step, interleaved with the client. `pc` says which half of the loop it
is in. What a query answers is not modelled, which kinds of outcome it has is:
`request_document` may answer, report several definitions and answer `null`
(only the methods that look up a link catch `multipleDefinitionException`), or
crash.

The client is external. It keeps to the protocol: `initialize` first,
`initialized` after its response, `exit` after the response to `shutdown`; it
answers every request of the server, in any order, with the setting it has at
that moment, an unusable one, or a list of folders. It announces changes of the
setting once the server has registered for them.

## Runs

| run | instance | shows |
|---|---|---|
| `parser_one_file` | 1 file, 6 tags, 2 names, misread tags too | `TypeOK`: among others, the depth counter is the number of open elements up to the first misread tag; `ParentChain`, `ChildrenAgree`, `OwnersAgree`: parents, children and references are consistent with the paths, merged definitions included, whatever was misread; `LexicalScoping`: up to the first misread tag, depth counter and stack implement `ArxmlScopes` |
| `queries_two_files` | 2 files of 3 tags, empty ones and misread tags too, 2 names of 2 characters, targets `a` and `a/b` | `ParentChain`, `OwnersAgree`, `LexicalScoping`: the same across files, with the scopes right again in a file after one that was misread; `DefinitionOfPrefix`: a link leads to the prefix under the cursor; `ReferencesInvertDefinition`, `HoverLinksAreDefinitions`, `OwnerAgrees`: the queries agree with each other; `ChildrenOnce`, `FoldMarker`, `ParentOfChild`: the tree view |
| `positions_text` | 2 files of 2 tags, misread ones too, any line breaks, one edit | `TextTypeOK`: no place in an answer wraps below zero; `LinkUnderCursor`: in all lines but the first, a link follows the character under the cursor and selects the path up to there, if no edit has moved it within its line or to another; `RangesCoverText`: the other places cover just the text they stand for; `PlacesLeadBack`: a place the server gave, sent back, finds what it was given for |
| `frames_stream` | 3 messages of 4 kinds, a peer that may vanish, fairness | `TypeOK`: what is missing of a message is never below zero; `FramesInStep`: only the last message may be cut short, and only a message with a blank in its first characters disturbs those after it; `WholeMessages`: up to such a message, `FrameReader` implements `MessageChannel`; `MessagesArrive`: no message waits for the next |
| `service_requests` | 2 requests, 5 URIs, 3 lists of folders | `SerialAnswers`: the service implements `SerialServer`; `ServedFromOneStorage`; `PlainFilesServed`: the server's and the editor's spelling of URIs agree, when nothing but the colon needs an escape |
| `service_settings` | 1 request, 2 changes of the setting, fairness | `CallbackPerRequest`, `AnnouncedSettingArrives`, `RequestsAnswered`, `ShutdownStops` |
| `parser_empty_file` | 2 files | `NewlinesSaved` is violated: see the findings |
| `queries_wrong_file` | 2 files of 3 tags | `NameOfOwnFile` is violated |
| `frames_blank` | 2 messages | `LeftoverExtracted` is violated |
| `service_unregistered` | 1 request | `EveryRequestAnswered` is violated |
| `service_parsed_twice` | 1 request | `ParsedOnce` is violated |
| `service_escaped_path` | 1 request | `FilesServed` is violated |

**Bounds.** Six tags in a file are enough for an `IDENT` with its name inside
an element that has a name, and for a name, its duplicate, and a child or
reference of the duplicate; they open three elements and close them again, and take the depth past zero
behind a misread tag. `Uint32` is 1000, and `TagWidth` 10: offsets stay below
the one, names and paths below the other. The theorems below have no bound. Two files are enough for an empty one before or after another. Two files of three tags give a path of two names in one file,
a reference to it in the same or in the other, and the same names in both;
`MaxLinks` is 1, so that a hover can have more references than it lists. Two tags in each of two files give a name and a reference to it in two files
and in any lines, four tags in one a path of two names; names of two characters
have a first and a last one. The buffer of five bytes with headers of three or
four leaves two bytes or one of it to the content, so bodies end with the buffer
or go on after it, and have blanks before its end or behind it; with three messages
one can be in pieces together with the one before it and the one after.
Two requests besides `initialize` and `shutdown` can be on
their way together and overtake the server's three own requests; a second one
for the same file meets the storage the first has made. Two changes give, with the server's first question, three
answers under way in any order. Deadlock is not checked: the parser stops when
no tag or file is left, the server after `exit` or a crash.

**Fairness.** `FairSpec` has weak fairness of the server as a whole, one thread
in a loop that never waits but for a message; of `ClientReceive`, an editor
reading its socket; and of `ClientAnswer`, as the protocol has a client answer
every request. Nothing makes the client ask, change its setting or shut down.

`FrameReader`'s `FairSpec` has weak fairness of `Arrive`, as what was written
to a socket arrives while both ends are there, and of the reader, whose loop
wakes up every five milliseconds. The peer need not write.

**Findings.** Six statements of the documentation and the comments do not hold of the code:

* an empty file in a folder misplaces the newline vectors of all later files
  (`NewlinesSaved`);
* the lookup of a name by offset may answer with a name of the previous file
  (`NameOfOwnFile`); `ReferencesInvertDefinition` excepts these offsets;
* a blank in the first characters of a message is lost, with what follows it in
  the header's buffer, and the next message is cut into (`LeftoverExtracted`);
* a request without a callback is never answered; the `MethodNotFound` response
  is built where it cannot be reached, and dropped (`EveryRequestAnswered`);
* a request read before the folders are parsed makes the server parse its file
  twice, and answers for it come from a storage without the rest of the
  workspace ever after (`ParsedOnce`);
* a file with a blank, or another character that URIs escape, in its path is
  parsed with its folder but not found for requests, which end the server
  (`FilesServed`).

Some limits of the code are written into the properties that hold:

* `TypeOK` of `ArxmlParser`, `LexicalScoping`: behind a start tag that the search
  for `DEST` takes for a reference and is none, nothing holds of depths and
  scopes to the end of the file. `Developing.md:268` says that the parser
  is "keeping track of the current depth" without such an exception; TLC finds
  `TypeOK` violated if its condition `~misread` is left out;
* `RangesCoverText` leaves out the references stored for such tags, as what
  stands there is not a path and may have lines;
* `DefinitionOfPrefix`: a dangling reference is reported as one with multiple
  definitions;
* `AnnouncedSettingArrives`: a change of the setting before the server has
  registered for changes is lost (`unannounced`);
* `LinkUnderCursor`, `RangesCoverText`: in the first line of a file a request is
  answered for the next character, because its characters are counted from 0
  and those of other lines from the newline before them; and nothing holds
  where an edit has moved a text within its line or to another line;
* `FramesInStep`: a client that vanishes in the middle of a message has its
  first part returned as a message.

## Proofs

The theorems hold for all values of the constants that the named assumptions
allow, so for files of any length, any names and any number of requests. A
property of a run has the same name in a theorem's statement. Hardly any of them
is inductive; the table names the invariant that is, and the text says what it
adds and why.

| theorem | property | inductive invariant |
|---|---|---|
| `TypeCorrect` | `TypeOK` of `ArxmlParser` | `TypeInv` |
| `ParentsFollowPaths` | `ParentChain` | `ScopeInv` |
| `ChildrenAgreeWithParents` | `ChildrenAgree` | `ChildrenInv` |
| `OwnersAgreeWithReferences` | `OwnersAgree` | `OwnersInv` |
| `ScopesImplemented` | `LexicalScoping` | `TagInv` |
| `NamesListedOnce`, `FoldMarkersAreRight`, `ParentsLeadUp` | `ChildrenOnce`, `FoldMarker`, `ParentOfChild` | `StorageInv` |
| `OwnersLeadToElements`, `DefinitionsFollowPaths`, `ReferencesAndDefinitions`, `HoverLinks` | `OwnerAgrees`, `DefinitionOfPrefix`, `ReferencesInvertDefinition`, `HoverLinksAreDefinitions` | `QueryInv` |
| `PlacesAreTyped`, `PlacesAnswerForThemselves`, `RangesMatchTheText`, `LinksFollowTheCursor` | `TextTypeOK`, `PlacesLeadBack`, `RangesCoverText`, `LinkUnderCursor` | `TextInv` |
| `ServiceTypes`, `CallbacksAnswered` | `TypeOK` of `LanguageService`, `CallbackPerRequest` | `TypeInv` |
| `ServedFromThere`, `PlainFilesFound` | `ServedFromOneStorage`, `PlainFilesServed` | `TypeInv`, itself |
| `SettingArrives` | `AnnouncedSettingArrives` | `SettingInv` |
| `SerialImplemented` | `SerialAnswers` | `SerialInv` |
| `FrameTypes` | `TypeOK` of `FrameReader` | `TypeInv` |
| `StaysInStep`, `ChannelImplemented` | `FramesInStep`, `WholeMessages` | `FrameInv` |

`TypeOK` is not inductive: that `depth` counts the open
elements needs that they are fewer than the characters read, so that none is lost
to 32 bits, that the raise by `</IDENT>` finds an entry to raise needs that the
entry of a SHORT-NAME that was the last tag is on top of the stack
(`DepthCounts`), and that `Innermost` is a pointer needs that the stack points to
stored elements (`StackPoints`) and the lists are as long as the container
(`ListsMatch`). Behind a misread tag `depth` may have any value, and these parts
hold all the same: an entry on top of the stack is missing only if an end tag has
popped it, and that is the last tag then. So parents, children and owners hold of
every well-formed file, and only `TagInv`, from which `ScopesImplemented` follows,
is limited to what stands before the misread tag: the name on top of the stack is
not deeper than the parser is, and the last two tags tell what the innermost open
element has held. `ScopeInv` adds that the elements on the stack are of
this file and each one's path is the names below it (`InScope`), and that stored
elements lie behind the parser (`BehindPos`), which makes the offset of a new one
unique; a merged element then has the same path as the one the tag would have
made, and so a parent with the right full path.

`NewlineInv`, which the theorems about positions need, says that all elements and
references are of files that have their newlines under their own index; a file
that has none there ends in `"undefined"`, and no claim about the code's
behaviour from there on is made. `ChildrenInv` needs that no two stored elements conflict, as the two
unique indices see to, and that the lists hold stored elements only: otherwise a
merged element could be entered under its parent again. `OwnersInv` says the same
of the lists of references, which are also in the order of the file; the order is
what the links of a hover need.

**The queries.** They read a storage and change nothing, so their properties
follow from invariants of the parser. `StorageInv` and `QueryInv` collect these;
`ReferencesApart` is the one to be added: the text of a reference ends before
that of the next one in the file begins, so that an offset lies in one of them
only. The lemmas in between say what each lookup returns; climbing parents
(`helper_getShortnameFromInnerPath`) is proved by induction on the number of
steps.

**Positions.** `TextSpec` implements the parser's `Spec` (`TextIsParsed`), so all
that is proved of the storage holds with lines and edits too. `TextInv` adds where
things are: texts at the multiples of `TagWidth` and newlines and the edit `Gap`
ahead of one (`OnGrid`, `EditInv`), and the newlines of a file in their order
(`LinesInv`). So no line begins or ends within a text or the characters around it
that the code reaches by adding and subtracting 1 or 2 (`TextInLine`), and what
leaves a text as it was parsed leaves these characters so (`UndisturbedAround`).
`ServerPosition` and `ClientPosition` say what `lower_bound` and the editor make
of an offset in line n; both count the same newlines, as a growing list has as many
values as places and its last one is the greatest (`GrowingList`). From this,
behind the first line the server's position of a character is the client's of the
next one (`OneAhead`), which is what all corrections in the queries rest on.

**The service.** Every message in the exchange of requests and responses is
counted, with the one callback that waits for it (`Exchange`, `OnePerCallback`);
the types of the state depend on it, because what the server takes from a
response has a type only if the response fits its callback. `TypeInv` therefore
has both. `AnnouncedSettingArrives` is not inductive: a setting that the two ends
agree on is lost to an older answer still to be read. `SettingInv` has the last
of these answers up to date.

`SerialImplemented` maps each step to one of `SerialServer` or to a stutter.
`SerialInv` says that the stack is empty whenever the server reads, which makes
its reversed order harmless; that every id under way is smaller than the next;
and that the number of requests is bounded where the client may go on.

**The socket.** `TypeOK` needs to know what stands in the stream: `StreamInv`
says that, in the bytes that have arrived and those on their way, the rest of a
frame follows each of its bytes and then the next frame begins. `FrameInv` adds
where in it the reader is in each of its three steps, up to the first message
that is not plain. The refinement maps the messages written and not yet returned
to the queue of `MessageChannel`; `Write` and `ReturnMessage` are its two steps
and all others are stutters.

**Assumptions.** `StorageAssumption`, `ParserAssumption` and `QueriesAssumption`
say that bounds are numbers and targets are paths. `WidthAssumption` says that a
path fits into the text of its tag and that no offset reaches 2^32, and
`PositionsAssumption` that a name or a path also ends before the next tag
begins. Both are how the model lays files out, and no limit on names or paths:
`TagWidth` is a constant, and for any finite set of them there is a width that
is wide enough. `FilesAssumption` and `ServiceAssumption` say which methods and
files there are, `FrameAssumption` what `FrameReader` is described with above.
TLC evaluates all of them in the runs. Every invariant in the table was checked
by TLC on the instances above before it was proved.

Where an argument goes by induction over a list or a count, it is one over a set
of natural numbers, with the least element of what remains (`LeastNumber`,
`NumberInduction`). `OfType` is a recursive function, and
`HoverLinksAreDefinitions` speaks of lists by their entries, because the prover
knows no facts about `SelectSeq`.

**Only model-checked.** Liveness under fairness is beyond the prover:
`MessagesArrive`, `RequestsAnswered` and `ShutdownStops` are checked by TLC
alone; every other property of a passing run is a theorem. A run that finds a
violation needs no proof.

## Not modelled

* The text of hovers and the JSON of messages: they are made by generated
  conversions, and no state depends on them. `types.hpp` is modelled as far as
  positions go.
* Ill-formed ARXML and JSON, and a client that breaks the protocol: the
  documentation promises nothing for them.
* Connecting the socket and errors of writing to it (the constructor of
  `IOHandler`, `asio::write`), where an exception ends the process; and the
  console output.
* Offsets and lengths beyond 32 bits, and paths too short to have an extension
  (`xmlParser.cpp:47`).
* What `getNearestShortname` sends when it finds nothing, an element whose other
  fields are uninitialized: no document says what it should be.
* `main`, which reads a port and starts the service; vendored and boost code.
  The model of the socket says what it is used for.

## Plan

1. Done: `ArxmlStorage`, `ArxmlParser`, `ArxmlScopes`, `ArxmlQueries`,
   `Workspace`, `LanguageService`, `SerialServer`, first proofs; `Positions`,
   `FrameReader`, `MessageChannel`, URIs in `Workspace`.
2. Done: proofs of the other invariants and of the refinements.
3. Done: `PositionsProofs`: that places in answers do not wrap, lead back, and
   mean the same characters to the server and the client.
4. Next: what is left to prove is liveness, which the prover does not reach. The
   safety half of it can be: that no request is dropped between the stack of
   messages to send and the socket, and that the reader's loop is never without a
   step when a whole message has arrived.
