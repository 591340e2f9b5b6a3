--------------------------- MODULE MessageChannel ---------------------------
(***************************************************************************)
(* What the server's loop relies on when it reads (ioHandler.hpp, line 46: *)
(* "read one message from the socket"): the messages of the peer come      *)
(* whole, once each, in the order in which they were sent.  These are the  *)
(* channels toServer and toClient of LanguageService.                      *)
(*                                                                         *)
(* FrameReader implements this module with a stream of bytes.              *)
(***************************************************************************)
EXTENDS Sequences

CONSTANT Message

VARIABLES queue,      \* messages sent and not received yet, oldest first
          delivered   \* messages received, oldest first

vars == <<queue, delivered>>

Init ==
  /\ queue = <<>>
  /\ delivered = <<>>

Send ==
  /\ \E m \in Message : queue' = Append(queue, m)
  /\ UNCHANGED delivered

Receive ==
  /\ queue # <<>>
  /\ queue' = Tail(queue)
  /\ delivered' = Append(delivered, Head(queue))

Next == Send \/ Receive

Spec == Init /\ [][Next]_vars
=============================================================================
