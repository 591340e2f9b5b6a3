---------------------------- MODULE SerialServer ----------------------------
(***************************************************************************)
(* What the language server promises to the client that asks it, without   *)
(* channels, callbacks or the stack of messages to send: requests wait in  *)
(* the order in which they were asked, and each is answered once, in that  *)
(* order, or, when its method has no callback, ignored.  A request may     *)
(* also be the last one, on which the server crashes.                      *)
(*                                                                         *)
(* LanguageService implements this module.                                 *)
(***************************************************************************)
EXTENDS Integers, Sequences

CONSTANTS Id,         \* ids of requests
          Method,     \* methods of requests
          Registered  \* those with a callback

VARIABLES waiting,   \* the requests not yet answered, oldest first
          answers,   \* the ids of the answers given, oldest first
          alive      \* is the server running?

vars == <<waiting, answers, alive>>

Init ==
  /\ waiting = <<>>
  /\ answers = <<>>
  /\ alive = TRUE

(* The client uses each id once.                                           *)
Fresh(id) ==
  /\ \A i \in 1..Len(waiting) : waiting[i].id # id
  /\ \A i \in 1..Len(answers) : answers[i] # id

Ask(id, method) ==
  /\ Fresh(id)
  /\ waiting' = Append(waiting, [id |-> id, method |-> method])
  /\ UNCHANGED <<answers, alive>>

(* The oldest request leaves the queue.                                    *)
Take ==
  /\ alive
  /\ waiting # <<>>
  /\ waiting' = Tail(waiting)

Answer ==
  /\ Take
  /\ Head(waiting).method \in Registered
  /\ answers' = Append(answers, Head(waiting).id)
  /\ UNCHANGED alive

Ignore ==
  /\ Take
  /\ Head(waiting).method \notin Registered
  /\ UNCHANGED <<answers, alive>>

Crash ==
  /\ alive' = FALSE
  /\ alive
  /\ waiting' \in {waiting, IF waiting = <<>> THEN waiting ELSE Tail(waiting)}
  /\ UNCHANGED answers

Next ==
  \/ \E id \in Id, method \in Method : Ask(id, method)
  \/ Answer
  \/ Ignore
  \/ Crash

Spec == Init /\ [][Next]_vars
=============================================================================
