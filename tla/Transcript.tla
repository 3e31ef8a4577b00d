----------------------------- MODULE Transcript -----------------------------
(***************************************************************************)
(* The data of a session's transcript: messages, the exchange one turn     *)
(* adds, and the cap on what is kept.                                      *)
(***************************************************************************)
EXTENDS Sequences, Integers

CONSTANTS
  Requests,     \* calls of POST /turn and POST /turn/stream, each made once
  MaxMessages   \* transcript_max_messages; 0 means unlimited

ASSUME MaxMessagesAssumption == MaxMessages \in Nat

\* A message keeps its role and, for its content, the request it came from.
Message == [role : {"user", "assistant"}, of : Requests]

\* The exchange persist_turn adds: the learner's text, then the reply.
Exchange(r) == << [role |-> "user", of |-> r], [role |-> "assistant", of |-> r] >>

\* The cap of persist_turn: the last MaxMessages messages.
Window(s) ==
  IF MaxMessages > 0 /\ Len(s) > MaxMessages
  THEN SubSeq(s, Len(s) - MaxMessages + 1, Len(s))
  ELSE s
=============================================================================
