---------------------------- MODULE FrameReader ----------------------------
(***************************************************************************)
(* Messages as bytes on the socket (ioHandler.cpp: write_, which puts a    *)
(* header with the length before a message, and read_, which strips it).   *)
(* The peer writes frames as write_ does; the network delivers the stream  *)
(* in pieces, cut anywhere; read_ takes it apart again.                    *)
(*                                                                         *)
(* read_ waits for as many bytes as its buffer for the header holds, takes *)
(* that many with read_until, which may be more than the header, and then  *)
(* reads what is missing of the content.                                   *)
(*                                                                         *)
(* A byte is <<m, i>>: the i-th of the frame of the m-th message sent.  Of *)
(* the content matters only which bytes are white space.                   *)
(***************************************************************************)
EXTENDS Integers, Sequences, SequencesExt

CONSTANTS Body,            \* contents of messages: sequences of "char" and "blank"
          HeaderWidth(_),  \* width of the header, by the length of the content
          BufferSize,      \* of the buffer for the header: 30 in the code
          MayVanish,       \* may the peer vanish?
          MaxMessages      \* bound on the number of messages

(* The buffer holds a header with ten digits; a JSON-RPC message is longer *)
(* than what is left of the buffer after the header.                       *)
ASSUME FrameAssumption ==
  /\ Body \subseteq Seq({"char", "blank"})
  /\ BufferSize \in Nat \ {0}
  /\ MayVanish \in BOOLEAN
  /\ MaxMessages \in Nat
  /\ \A body \in Body :
       /\ HeaderWidth(Len(body)) \in 1..BufferSize
       /\ Len(body) >= BufferSize - HeaderWidth(Len(body))
       /\ Len(body) > 0

VARIABLES sent,             \* contents of the messages the peer has written
          wire,             \* bytes on their way
          socket,           \* bytes that have arrived and were not taken
          open,             \* is the peer still there?
          pc,               \* "wait", "content" or, when the process has ended, "failed"
          contentLength,
          contentInHeader,
          contentbuf,
          received          \* what read_ has returned

peerVars == <<sent, wire, open>>
readVars == <<pc, contentLength, contentInHeader, contentbuf, received>>
vars == <<peerVars, socket, readVars>>

Size(body) == HeaderWidth(Len(body)) + Len(body)
Byte == (Nat \ {0}) \X (Nat \ {0})

(* The frame of the m-th message.                                          *)
write_(m, body) == [i \in 1..Size(body) |-> <<m, i>>]

(* What read_ still has to read of a message: an unsigned number.          *)
Missing == contentLength - Len(contentInHeader) - Len(contentbuf)

TypeOK ==
  /\ sent \in Seq(Body)
  /\ wire \in Seq(Byte)
  /\ socket \in Seq(Byte)
  /\ open \in BOOLEAN
  /\ pc \in {"wait", "content", "failed"}
  /\ contentLength \in Nat
  /\ contentInHeader \in Seq(Byte)
  /\ contentbuf \in Seq(Byte)
  /\ received \in Seq(Seq(Byte))
  /\ pc = "content" => Missing \in Nat

Init ==
  /\ sent = <<>>
  /\ wire = <<>>
  /\ socket = <<>>
  /\ open = TRUE
  /\ pc = "wait"
  /\ contentLength = 0
  /\ contentInHeader = <<>>
  /\ contentbuf = <<>>
  /\ received = <<>>

-----------------------------------------------------------------------------
(* The peer and the network.                                               *)

Write ==
  /\ open
  /\ Len(sent) < MaxMessages
  /\ \E body \in Body :
       /\ sent' = Append(sent, body)
       /\ wire' = wire \o write_(Len(sent) + 1, body)
  /\ UNCHANGED <<socket, open, readVars>>

(* The peer ends, perhaps in the middle of a frame.                        *)
Vanish ==
  /\ MayVanish
  /\ open
  /\ open' = FALSE
  /\ \E k \in 0..Len(wire) : wire' = SubSeq(wire, 1, k)
  /\ UNCHANGED <<sent, socket, readVars>>

Arrive ==
  /\ \E k \in 1..Len(wire) :
       /\ socket' = socket \o SubSeq(wire, 1, k)
       /\ wire' = SubSeq(wire, k + 1, Len(wire))
  /\ UNCHANGED <<sent, open, readVars>>

-----------------------------------------------------------------------------
(* read_.                                                                  *)

Header(byte) == byte[2] <= HeaderWidth(Len(sent[byte[1]]))

(* What a byte of the content is.                                          *)
CharOf(byte) == sent[byte[1]][byte[2] - HeaderWidth(Len(sent[byte[1]]))]

(* operator>> into a string: white space is skipped, and what follows is   *)
(* taken up to the next.                                                   *)
Token(bytes) ==
  LET solid == {i \in DOMAIN bytes : CharOf(bytes[i]) # "blank"}
      first == Min(solid)
      blank == {i \in first..Len(bytes) : CharOf(bytes[i]) = "blank"}
  IN IF solid = {} THEN <<>>
     ELSE SubSeq(bytes, first, IF blank = {} THEN Len(bytes) ELSE Min(blank) - 1)

(* Mutant: the loop goes on while there are just enough bytes.             *)
EnoughAndMore == Len(socket) > BufferSize

(* available() is not below the size of the buffer.                        *)
Enough == Len(socket) >= BufferSize

(* Mutant: what was read past the header is dropped.                       *)
ReadHeaderOnly ==
  /\ pc = "wait"
  /\ Enough
  /\ socket' = SubSeq(socket, BufferSize + 1, Len(socket))
  /\ contentbuf' = <<>>
  /\ pc' = "content"
  /\ contentLength' = Len(sent[socket[1][1]])
  /\ contentInHeader' = <<>>
  /\ UNCHANGED <<peerVars, received>>

(* read_until fills the buffer, as there is enough for it.  Where no       *)
(* header begins, the message returned before was not the one sent but had *)
(* bytes of the next in its place: it was no JSON, and the exception of    *)
(* the JSON parser, which run does not catch, has ended the process.       *)
ReadHeader ==
  /\ pc = "wait"
  /\ Enough
  /\ socket' = SubSeq(socket, BufferSize + 1, Len(socket))
  /\ contentbuf' = <<>>
  /\ LET m == socket[1][1]
         headerLength == HeaderWidth(Len(sent[m]))
     IN \/ /\ socket[1][2] = 1
           /\ pc' = "content"
           /\ contentLength' = Len(sent[m])
           /\ contentInHeader' = Token(SubSeq(socket, headerLength + 1, BufferSize))
        \/ /\ socket[1][2] # 1
           /\ pc' = "failed"
           /\ UNCHANGED <<contentLength, contentInHeader>>
  /\ UNCHANGED <<peerVars, received>>

(* Mutant: read takes all that has arrived.                                *)
AllArrived == Len(socket)

(* read takes what has arrived, up to what is missing.                     *)
Transferred == IF Missing <= Len(socket) THEN Missing ELSE Len(socket)

ReadContent ==
  /\ pc = "content"
  /\ Missing > 0
  /\ socket # <<>>
  /\ contentbuf' = contentbuf \o SubSeq(socket, 1, Transferred)
  /\ socket' = SubSeq(socket, Transferred + 1, Len(socket))
  /\ UNCHANGED <<peerVars, pc, contentLength, contentInHeader, received>>

(* Mutant: read returns when nothing is left in the socket.                *)
DrainedEarly == socket = <<>>

(* The end of the stream is an error, which is printed and ignored.        *)
EndOfStream == socket = <<>> /\ wire = <<>> /\ ~open

ReturnMessage ==
  /\ pc = "content"
  /\ Missing = 0 \/ EndOfStream
  /\ received' = Append(received, contentInHeader \o contentbuf)
  /\ pc' = "wait"
  /\ UNCHANGED <<peerVars, socket, contentLength, contentInHeader, contentbuf>>

Reader == ReadHeader \/ ReadContent \/ ReturnMessage

Next == Write \/ Vanish \/ Arrive \/ Reader

Spec == Init /\ [][Next]_vars

(* What was written arrives, and the loop in read_ wakes up every 5 ms.    *)
FairSpec == Spec /\ WF_vars(Arrive) /\ WF_vars(Reader)

-----------------------------------------------------------------------------
(* Properties.                                                             *)

(* White space in a message begins after what the header's buffer takes of *)
(* it, as in those of JSON.stringify.                                      *)
Plain(body) ==
  \A i \in 1..(BufferSize - HeaderWidth(Len(body))) : body[i] # "blank"

PlainUpTo(m) == \A j \in 1..m : Plain(sent[j])

(* The bytes of the content of the m-th message.                           *)
ContentOf(m) ==
  [i \in 1..Len(sent[m]) |-> <<m, HeaderWidth(Len(sent[m])) + i>>]

(* However the stream was cut, the reader is in step with the frames up to *)
(* the first message that is not plain: what it has returned are the       *)
(* messages that were sent, in their order, whole, but for the last one    *)
(* when the peer has vanished (ioHandler.cpp:67-100).                      *)
FramesInStep ==
  /\ \A m \in 1..Len(received) :
       m <= Len(sent) /\ PlainUpTo(m) =>
         \/ received[m] = ContentOf(m)
         \/ m = Len(received) /\ EndOfStream /\ IsPrefix(received[m], ContentOf(m))
  /\ PlainUpTo(Len(sent)) => pc # "failed" /\ Len(received) <= Len(sent)

(* The stream is a channel of whole messages, as the server's loop takes   *)
(* it for (languageService.cpp:41), up to the first message that is not    *)
(* plain or that the end of the stream has cut.                            *)
TextOf(bytes) ==
  [i \in 1..Len(bytes) |-> IF Header(bytes[i]) THEN "header" ELSE CharOf(bytes[i])]

PlainSent == {m \in 1..Len(sent) : PlainUpTo(m)}

Whole ==
  {m \in PlainSent \cap DOMAIN received :
     ~(EndOfStream /\ Len(received[m]) < Len(sent[m]))}

Channel == INSTANCE MessageChannel WITH
  Message <- Body,
  queue <- SubSeq(sent, Cardinality(Whole) + 1, Cardinality(PlainSent)),
  delivered <- [m \in 1..Cardinality(Whole) |-> TextOf(received[m])]

WholeMessages == Channel!Spec

(* Every such message is returned in the end if the peer stays: the wait   *)
(* for a full buffer (ioHandler.cpp:60) does not hold back the last one.   *)
MessagesArrive ==
  \A m \in 1..MaxMessages : m \in PlainSent ~> (Len(received) >= m \/ ~open)

(* What the comment at ioHandler.cpp:89 says of what is left in the        *)
(* header's buffer: "some of the content might still be here.  We can      *)
(* extract that now"; so all of it is taken.                               *)
LeftoverExtracted ==
  pc = "content" =>
    Len(contentInHeader) = BufferSize - HeaderWidth(contentLength)

=============================================================================
