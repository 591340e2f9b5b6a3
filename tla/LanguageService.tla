-------------------------- MODULE LanguageService --------------------------
(***************************************************************************)
(* The main loop of the server (languageService.cpp: run and the           *)
(* callbacks), the dispatch of a message (messageParser.cpp) and the stack *)
(* of messages to send (ioHandler.cpp), with a client at the other end of  *)
(* two FIFO channels.                                                      *)
(*                                                                         *)
(* The server has one thread.  It reads a message and runs its callback:   *)
(* one step, as nothing else touches the server's state meanwhile.  Then   *)
(* it writes the messages the callback has pushed, the last one first,     *)
(* each in a step of its own, while the client goes on.                    *)
(*                                                                         *)
(* The client is the environment.  It keeps to the Language Server         *)
(* Protocol, asks at any time, several requests ahead, and answers the     *)
(* server's own requests late and in any order.                            *)
(*                                                                         *)
(* A definition whose comment starts with "Mutant" is a variant of the one *)
(* that follows it, with a fault that a property has to detect.            *)
(***************************************************************************)
EXTENDS Workspace, Functions

CONSTANTS ClientUri,       \* URIs that the client asks about
          LinkMethod,      \* methods that look up a link or a definition
          TreeMethod,      \* the other methods on a document
          OtherMethod,     \* methods of requests without a callback
          FolderLists,     \* the answers to workspace/workspaceFolders
          MaxRequests,     \* bound on the client's requests on documents
          MaxChanges       \* bound on the changes of the client's setting

DocumentMethod == LinkMethod \cup TreeMethod
Registered == {"initialize", "shutdown"} \cup DocumentMethod

ASSUME ServiceAssumption ==
  /\ LinkMethod \subseteq {"textDocument/definition", "textDocument/references",
                           "textDocument/hover"}
  /\ TreeMethod \subseteq {"textDocument/goToOwner", "treeView/getChildren",
                           "treeView/getNearestShortname",
                           "treeView/getParentElement"}
  /\ OtherMethod \cap Registered = {}
  /\ ClientUri \subseteq DocumentUri
  /\ FolderLists \subseteq Seq(Folder)
  /\ MaxRequests \in Nat
  /\ MaxChanges \in Nat

VARIABLES pc,                \* "read", "write", "stopped" or "crashed"
          sendStack,         \* sendStack_, the top is the last element
          responseCallbacks, \* response_callbacks_: by id, the method asked
          nextId,            \* the counter of getNextRequestID
          setting,           \* config::referenceLinkToParentShortname
          toServer,          \* messages on their way to the server
          toClient,          \* messages on their way to the client
          phase,             \* the client's part of the protocol
          asked,             \* number of requests the client sent
          answered,          \* ids of the responses the client got, in order
          toAnswer,          \* the server's requests the client has to answer
          clientSetting,     \* the setting at the client
          unannounced,       \* may the server not know of it?
          registered,        \* does the client announce its changes?
          changes            \* number of changes of the setting

serverVars == <<pc, sendStack, responseCallbacks, nextId, setting, storages>>
clientVars ==
  <<phase, asked, answered, toAnswer, clientSetting, unannounced, registered,
    changes>>
vars == <<serverVars, toServer, toClient, clientVars>>

(* Where a link to a reference leads, to the owner or to the reference:    *)
(* referenceLinkToParentShortname.                                         *)
Setting == {"owner", "reference"}

(* Messages.  A response of the client carries what its callback reads;    *)
(* "unusable" stands for an error response and for a result without the    *)
(* setting.                                                                *)
Method == Registered \cup OtherMethod
ServerMethod == {"workspace/workspaceFolders", "workspace/configuration",
                 "client/registerCapability"}
DocumentRequest(id, method, uri) ==
  [type |-> "request", id |-> id, method |-> method, uri |-> uri]
Request(id, method) == [type |-> "request", id |-> id, method |-> method]
Notification(method) == [type |-> "notification", method |-> method]
SettingResponse(id, value) ==
  [type |-> "response", id |-> id, setting |-> value]
FoldersResponse(id, folders) ==
  [type |-> "response", id |-> id, folders |-> folders]
VoidResponse(id) == [type |-> "response", id |-> id]
treeViewReady == Notification("telemetry/treeViewReady")
telemetryError == Notification("telemetry/error")

ClientMessage ==
  [type : {"request"}, id : Nat, method : DocumentMethod, uri : ClientUri]
    \cup [type : {"request"}, id : Nat, method : Method \ DocumentMethod]
    \cup [type : {"notification"}, method : {"initialized", "exit",
            "workspace/didChangeConfiguration", "other"}]
    \cup [type : {"response"}, id : Nat, setting : Setting \cup {"unusable"}]
    \cup [type : {"response"}, id : Nat, folders : FolderLists]
    \cup [type : {"response"}, id : Nat]
ServerMessage ==
  [type : {"request"}, id : Nat, method : ServerMethod]
    \cup {treeViewReady, telemetryError}
    \cup [type : {"response"}, id : Nat]

TypeOK ==
  /\ StoragesTypeOK
  /\ pc \in {"read", "write", "stopped", "crashed"}
  /\ sendStack \in Seq(ServerMessage)
  /\ DOMAIN responseCallbacks \subseteq Nat
  /\ \A id \in DOMAIN responseCallbacks : responseCallbacks[id] \in ServerMethod
  /\ nextId \in Nat
  /\ setting \in Setting
  /\ toServer \in Seq(ClientMessage)
  /\ toClient \in Seq(ServerMessage)
  /\ phase \in {"start", "initializing", "running", "shutdown", "exited"}
  /\ asked \in Nat
  /\ answered \in Seq(Nat)
  /\ toAnswer \subseteq [type : {"request"}, id : Nat, method : ServerMethod]
  /\ clientSetting \in Setting
  /\ unannounced \in BOOLEAN
  /\ registered \in BOOLEAN
  /\ changes \in Nat

Init ==
  /\ StoragesInit
  /\ pc = "read"
  /\ sendStack = <<>>
  /\ responseCallbacks = <<>>
  /\ nextId = 0
  /\ setting = "owner"
  /\ toServer = <<>>
  /\ toClient = <<>>
  /\ phase = "start"
  /\ asked = 0
  /\ answered = <<>>
  /\ toAnswer = {}
  /\ clientSetting \in Setting
  /\ unannounced = TRUE
  /\ registered = FALSE
  /\ changes = 0

-----------------------------------------------------------------------------
(* The server: one message read and dispatched.                            *)

(* readNextMessage returns m.                                              *)
Read(m) ==
  /\ pc = "read"
  /\ toServer # <<>>
  /\ m = Head(toServer)
  /\ toServer' = Tail(toServer)
  /\ UNCHANGED <<toClient, clientVars>>

(* Push messages on the stack of messages to send, and go and write it.    *)
Push(messages) ==
  /\ sendStack' = sendStack \o messages
  /\ pc' = "write"

(* An exception that run() does not catch ends the process.                *)
Crash ==
  /\ pc' = "crashed"
  /\ UNCHANGED sendStack

(* toClient_request_...: a request to the client for each of the methods,  *)
(* with the next ids, and a callback for its response.                     *)
toClient_requests(methods, callbacks) ==
  /\ nextId' = nextId + Len(methods)
  /\ responseCallbacks' =
       [id \in DOMAIN callbacks \cup nextId..(nextId + Len(methods) - 1) |->
          IF id >= nextId THEN methods[id - nextId + 1] ELSE callbacks[id]]

notification_initialized(m) ==
  /\ m.type = "notification" /\ m.method = "initialized"
  /\ Push(<<Request(nextId, "workspace/workspaceFolders"),
            Request(nextId + 1, "workspace/configuration")>>)
  /\ toClient_requests(<<"workspace/workspaceFolders",
                         "workspace/configuration">>, responseCallbacks)
  /\ UNCHANGED <<setting, storages>>

(* Mutant: no callback is registered for the answer.                       *)
didChangeConfiguration_unregistered(m) ==
  /\ m.type = "notification" /\ m.method = "workspace/didChangeConfiguration"
  /\ Push(<<Request(nextId, "workspace/configuration")>>)
  /\ nextId' = nextId + 1
  /\ UNCHANGED <<responseCallbacks, setting, storages>>

notification_workspace_didChangeConfiguration(m) ==
  /\ m.type = "notification" /\ m.method = "workspace/didChangeConfiguration"
  /\ Push(<<Request(nextId, "workspace/configuration")>>)
  /\ toClient_requests(<<"workspace/configuration">>, responseCallbacks)
  /\ UNCHANGED <<setting, storages>>

(* Mutant: the loop goes on after exit.                                    *)
notification_exit_ignored(m) ==
  /\ m.type = "notification" /\ m.method = "exit"
  /\ pc' = "write"
  /\ UNCHANGED <<sendStack, responseCallbacks, nextId, setting, storages>>

(* config::shutdown is set, and run() breaks before it writes.             *)
notification_exit(m) ==
  /\ m.type = "notification" /\ m.method = "exit"
  /\ pc' = "stopped"
  /\ UNCHANGED <<sendStack, responseCallbacks, nextId, setting, storages>>

request_initialize_shutdown(m) ==
  /\ m.type = "request" /\ m.method \in {"initialize", "shutdown"}
  /\ Push(<<VoidResponse(m.id)>>)
  /\ UNCHANGED <<responseCallbacks, nextId, setting, storages>>

(* The requests on documents: null for a bad URI; else the storage is      *)
(* found or made, and the lookup in it has a result or null (an element    *)
(* not found), or finds several definitions, which the methods that look   *)
(* up a link report, or behaves in a way nothing catches (as on a          *)
(* reference without an owner).                                            *)
request_document(m) ==
  /\ m.type = "request" /\ m.method \in DocumentMethod
  /\ getStorageForUri(m.uri)
  /\ \/ ~throwsUncaught(m.uri) /\ Push(<<VoidResponse(m.id)>>)
     \/ /\ findsStorage(m.uri) \/ parsesFile(m.uri)
        /\ m.method \in LinkMethod
        /\ Push(<<telemetryError, VoidResponse(m.id)>>)
     \/ ~throwsBadUri(m.uri) /\ Crash
  /\ UNCHANGED <<responseCallbacks, nextId, setting>>

(* A response for which a callback is waiting.                             *)
Awaited(m) == m.type = "response" /\ m.id \in DOMAIN responseCallbacks

(* Mutant: the callback is not erased.                                     *)
KeepingCallback(id) == responseCallbacks

(* The callbacks without that of id, erased before it runs.                *)
WithoutCallback(id) == Restrict(responseCallbacks, DOMAIN responseCallbacks \ {id})

(* Mutant: whatever the client answers is stored.                          *)
response_configuration_unchecked(m) ==
  /\ Awaited(m) /\ responseCallbacks[m.id] = "workspace/configuration"
  /\ responseCallbacks' = WithoutCallback(m.id)
  /\ setting' = m.setting
  /\ Push(<<>>)
  /\ UNCHANGED <<nextId, storages>>

response_workspace_configuration(m) ==
  /\ Awaited(m) /\ responseCallbacks[m.id] = "workspace/configuration"
  /\ responseCallbacks' = WithoutCallback(m.id)
  /\ \/ /\ m.setting # "unusable"
        /\ setting' = m.setting
        /\ Push(<<>>)
     \/ /\ m.setting = "unusable"
        /\ Crash
        /\ UNCHANGED setting
  /\ UNCHANGED <<nextId, storages>>

response_workspace_workspaceFolders(m) ==
  /\ Awaited(m) /\ responseCallbacks[m.id] = "workspace/workspaceFolders"
  /\ parseFullFolders(m.folders)
  /\ \/ /\ AllParsed(m.folders)
        /\ Push(<<treeViewReady,
                  Request(nextId, "client/registerCapability")>>)
        /\ toClient_requests(<<"client/registerCapability">>,
                             WithoutCallback(m.id))
     \/ /\ ~AllParsed(m.folders)
        /\ Crash
        /\ responseCallbacks' = WithoutCallback(m.id)
        /\ UNCHANGED nextId
  /\ UNCHANGED setting

response_void(m) ==
  /\ Awaited(m) /\ responseCallbacks[m.id] = "client/registerCapability"
  /\ responseCallbacks' = WithoutCallback(m.id)
  /\ Push(<<>>)
  /\ UNCHANGED <<nextId, setting, storages>>

(* Mutant: any request may be refused.                                     *)
badEntityForAny(m) ==
  /\ \/ m.type = "notification" /\ m.method = "other"
     \/ m.type = "request"
     \/ m.type = "response" /\ m.id \notin DOMAIN responseCallbacks
  /\ UNCHANGED serverVars

(* No callback is found: badEntityException, which run() catches and       *)
(* forgets.                                                                *)
badEntity(m) ==
  /\ \/ m.type = "notification" /\ m.method = "other"
     \/ m.type = "request" /\ m.method \notin Registered
     \/ m.type = "response" /\ m.id \notin DOMAIN responseCallbacks
  /\ UNCHANGED serverVars

-----------------------------------------------------------------------------
(* The server: writeAllMessages.                                           *)

WriteMessage ==
  /\ pc = "write"
  /\ sendStack # <<>>
  /\ toClient' = Append(toClient, Last(sendStack))
  /\ sendStack' = Front(sendStack)
  /\ UNCHANGED <<pc, responseCallbacks, nextId, setting, storages, toServer,
                 clientVars>>

WriteDone ==
  /\ pc = "write"
  /\ sendStack = <<>>
  /\ pc' = "read"
  /\ UNCHANGED <<sendStack, responseCallbacks, nextId, setting, storages,
                 toServer, toClient, clientVars>>

Server ==
  \/ \E m \in {toServer[i] : i \in 1..Len(toServer)} :
       /\ Read(m)
       /\ \/ notification_initialized(m)
          \/ notification_workspace_didChangeConfiguration(m)
          \/ notification_exit(m)
          \/ request_initialize_shutdown(m)
          \/ request_document(m)
          \/ response_workspace_configuration(m)
          \/ response_workspace_workspaceFolders(m)
          \/ response_void(m)
          \/ badEntity(m)
  \/ WriteMessage
  \/ WriteDone

-----------------------------------------------------------------------------
(* The client.                                                             *)

Send(m) == toServer' = Append(toServer, m)

(* Requests have the ids 0, 1, 2...: initialize has 0.                     *)
Ask(m) ==
  /\ Send(m)
  /\ asked' = asked + 1

ClientInitialize ==
  /\ phase = "start"
  /\ phase' = "initializing"
  /\ Ask(Request(asked, "initialize"))
  /\ UNCHANGED <<serverVars, toClient, answered, toAnswer, clientSetting,
                 unannounced, registered, changes>>

ClientRequest ==
  /\ phase = "running"
  /\ asked <= MaxRequests
  /\ \/ \E method \in DocumentMethod, uri \in ClientUri :
          Ask(DocumentRequest(asked, method, uri))
     \/ \E method \in OtherMethod : Ask(Request(asked, method))
  /\ UNCHANGED <<serverVars, toClient, phase, answered, toAnswer,
                 clientSetting, unannounced, registered, changes>>

ClientShutdown ==
  /\ phase = "running"
  /\ phase' = "shutdown"
  /\ Ask(Request(asked, "shutdown"))
  /\ UNCHANGED <<serverVars, toClient, answered, toAnswer, clientSetting,
                 unannounced, registered, changes>>

(* A response is handled: the protocol has the client send initialized and *)
(* exit upon two of them.                                                  *)
ClientResponse(m) ==
  /\ m.type = "response"
  /\ answered' = Append(answered, m.id)
  /\ \/ /\ phase = "initializing"
        /\ phase' = "running"
        /\ Send(Notification("initialized"))
     \/ /\ phase = "shutdown" /\ m.id = asked - 1
        /\ phase' = "exited"
        /\ Send(Notification("exit"))
     \/ /\ phase # "initializing"
        /\ ~(phase = "shutdown" /\ m.id = asked - 1)
        /\ UNCHANGED <<phase, toServer>>
  /\ UNCHANGED toAnswer

ClientReceive ==
  /\ toClient # <<>>
  /\ toClient' = Tail(toClient)
  /\ LET m == Head(toClient)
     IN \/ ClientResponse(m)
        \/ /\ m.type = "request"
           /\ toAnswer' = toAnswer \cup {m}
           /\ UNCHANGED <<phase, answered, toServer>>
        \/ /\ m.type = "notification"
           /\ UNCHANGED <<phase, answered, toAnswer, toServer>>
  /\ UNCHANGED <<serverVars, asked, clientSetting, unannounced, registered,
                 changes>>

(* A request of the server is answered, with the setting as it is now.     *)
ClientAnswer ==
  /\ \E m \in toAnswer :
       /\ toAnswer' = toAnswer \ {m}
       /\ \/ /\ m.method = "workspace/configuration"
             /\ \E value \in {clientSetting, "unusable"} :
                  Send(SettingResponse(m.id, value))
             /\ unannounced' = FALSE
             /\ UNCHANGED registered
          \/ /\ m.method = "workspace/workspaceFolders"
             /\ \E folders \in FolderLists : Send(FoldersResponse(m.id, folders))
             /\ UNCHANGED <<unannounced, registered>>
          \/ /\ m.method = "client/registerCapability"
             /\ registered' = TRUE
             /\ Send(VoidResponse(m.id))
             /\ UNCHANGED unannounced
  /\ UNCHANGED <<serverVars, toClient, phase, asked, answered, clientSetting,
                 changes>>

(* The user changes the setting.                                           *)
ClientChange ==
  /\ changes < MaxChanges
  /\ phase # "exited"
  /\ changes' = changes + 1
  /\ clientSetting' \in Setting \ {clientSetting}
  /\ \/ /\ registered
        /\ Send(Notification("workspace/didChangeConfiguration"))
        /\ UNCHANGED unannounced
     \/ /\ ~registered
        /\ unannounced' = TRUE
        /\ UNCHANGED toServer
  /\ UNCHANGED <<serverVars, toClient, phase, asked, answered, toAnswer,
                 registered>>

(* A notification the server has no callback for, as $/cancelRequest: at   *)
(* most one of them is on its way.                                         *)
ClientOther ==
  /\ phase = "running"
  /\ \A i \in 1..Len(toServer) : toServer[i] # Notification("other")
  /\ Send(Notification("other"))
  /\ UNCHANGED <<serverVars, toClient, clientVars>>

Client ==
  \/ ClientInitialize \/ ClientRequest \/ ClientShutdown \/ ClientReceive
  \/ ClientAnswer \/ ClientChange \/ ClientOther

Next == Server \/ Client

Spec == Init /\ [][Next]_vars

(* The server's loop goes on as long as it has a message to read or to     *)
(* write, and the client's event loop reads its socket and answers; no     *)
(* fairness makes the client ask, change its setting or shut down.         *)
Fairness ==
  /\ WF_vars(Server)
  /\ WF_vars(ClientReceive)
  /\ WF_vars(ClientAnswer)

FairSpec == Spec /\ Fairness

-----------------------------------------------------------------------------
(* Properties.                                                             *)

RequestsFor(messages, id) ==
  {i \in 1..Len(messages) : messages[i].type = "request" /\ messages[i].id = id}

ResponsesFor(messages, id) ==
  {i \in 1..Len(messages) : messages[i].type = "response" /\ messages[i].id = id}

(* Does the response hold what the callback for the method reads?          *)
Fits(m, method) ==
  /\ "setting" \in DOMAIN m <=> method = "workspace/configuration"
  /\ "folders" \in DOMAIN m <=> method = "workspace/workspaceFolders"

(* A callback waits just as long as its request is unanswered: for each id *)
(* the server has used, either a callback waits and one message of the     *)
(* exchange is somewhere on its way, the request, with the callback's      *)
(* method, or the response to it, or neither is left.  So no response is   *)
(* run by another's callback and none is refused (messageParser.hpp:44).   *)
CallbackPerRequest ==
  /\ DOMAIN responseCallbacks \subseteq 0..(nextId - 1)
  /\ \A id \in 0..(nextId - 1) :
       LET held == {m \in toAnswer : m.id = id}
           back == ResponsesFor(toServer, id)
       IN /\ Cardinality(RequestsFor(sendStack, id))
               + Cardinality(RequestsFor(toClient, id))
               + Cardinality(held) + Cardinality(back)
               = IF id \in DOMAIN responseCallbacks THEN 1 ELSE 0
          /\ \A i \in RequestsFor(sendStack, id) :
               sendStack[i].method = responseCallbacks[id]
          /\ \A i \in RequestsFor(toClient, id) :
               toClient[i].method = responseCallbacks[id]
          /\ \A m \in held : m.method = responseCallbacks[id]
          /\ \A i \in back : Fits(toServer[i], responseCallbacks[id])

(* The server is asking for the setting, or about to, or will read an      *)
(* answer that holds it.                                                   *)
SettingOnItsWay ==
  LET asks(messages) ==
        \E i \in 1..Len(messages) :
          messages[i].type = "request" /\ messages[i].method = "workspace/configuration"
      answers == {i \in 1..Len(toServer) :
                    toServer[i].type = "response" /\ "setting" \in DOMAIN toServer[i]}
  IN \/ asks(sendStack) \/ asks(toClient)
     \/ \E m \in toAnswer : m.method = "workspace/configuration"
     \/ \E i \in 1..Len(toServer) :
          toServer[i] = Notification("workspace/didChangeConfiguration")
     \/ answers # {}
          /\ toServer[Max(answers)].setting \in {clientSetting, "unusable"}

(* A change of the setting that the client has announced reaches the       *)
(* server: when the two differ, the setting is on its way, whatever older  *)
(* answers are still to be read before it.                                 *)
AnnouncedSettingArrives ==
  \/ pc \in {"stopped", "crashed"}
  \/ setting = clientSetting
  \/ unannounced
  \/ SettingOnItsWay

(* The messages of a type, in their order.                                 *)
OfType(messages, type) ==
  LET upTo[n \in 0..Len(messages)] ==
        IF n = 0 THEN <<>>
        ELSE IF messages[n].type = type THEN Append(upTo[n - 1], messages[n])
        ELSE upTo[n - 1]
  IN upTo[Len(messages)]

(* The ids of the responses.                                               *)
IdsOf(messages) ==
  LET responses == OfType(messages, "response")
  IN [i \in 1..Len(responses) |-> responses[i].id]

(* The requests the server has not read.                                   *)
Asked ==
  LET requests == OfType(toServer, "request")
  IN [i \in 1..Len(requests) |->
        [id |-> requests[i].id, method |-> requests[i].method]]

Serial == INSTANCE SerialServer WITH
  Id <- 0..(MaxRequests + 1),
  waiting <- Asked,
  answers <- answered \o IdsOf(toClient \o Reverse(sendStack)),
  alive <- pc # "crashed"

(* Requests are answered once each and in the order in which they were     *)
(* asked, though the messages to send are kept on a stack.                 *)
SerialAnswers == Serial!Spec

(* Once a file is served from a storage it is always served from that one: *)
(* pointers into another storage never replace it (xmlParser.cpp:284-297). *)
ServedFromOneStorage ==
  [][\A uri \in ClientUri :
       Containing(storages, uri) # {} =>
         ServedBy(storages', uri) = ServedBy(storages, uri)]_vars

(* Every request with a callback is answered, unless the server crashes;   *)
(* in particular none is overtaken by the exit that ends the loop.         *)
Outstanding(id, methods) ==
  \E i \in RequestsFor(toServer, id) : toServer[i].method \in methods

RequestsAnswered ==
  \A id \in 0..(MaxRequests + 1) :
    Outstanding(id, Registered) ~>
      (pc = "crashed" \/ \E i \in 1..Len(answered) : answered[i] = id)

(* A shutdown ends the server.                                             *)
ShutdownStops == phase = "shutdown" ~> pc \in {"stopped", "crashed"}

(* What Developing.md:91 says: the server "parses the message, calculates  *)
(* the responses and sends them back", for any request.                    *)
EveryRequestAnswered ==
  \A id \in 0..(MaxRequests + 1) :
    Outstanding(id, Method) ~>
      (pc = "crashed" \/ \E i \in 1..Len(answered) : answered[i] = id)

(* What Developing.md:262 says of a resource that is already stored: the   *)
(* parser "serves the request with the data already in memory and does not *)
(* parse the files again".                                                 *)
ParsedOnce ==
  \A j, k \in 1..Len(storages) : j # k => storages[j] \cap storages[k] = {}

(* A file in memory is there under the URI that the editor asks for it     *)
(* with, if nothing in its path but the colon needs an escape: no request  *)
(* on it parses it again or, on a path that is none, ends the server       *)
(* (xmlParser.cpp:284-297, 339).                                           *)
KnownByEditorUri(text) ==
  \A k \in DOMAIN storages : \A uri \in storages[k] :
    uri.text = text => uri = editorUri(text)

PlainFilesServed ==
  \A text \in OnDisk : Escaped[text] = text => KnownByEditorUri(text)

(* What Developing.md:262 says of a resource that is already stored, for   *)
(* any path: the parser "serves the request with the data already in       *)
(* memory".                                                                *)
FilesServed == \A text \in OnDisk : KnownByEditorUri(text)
=============================================================================
