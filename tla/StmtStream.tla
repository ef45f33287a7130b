---------------------------- MODULE StmtStream ----------------------------
(***************************************************************************)
(* What the scanner of ttl-split, ttl-prefixify and ttl-wc promises: the   *)
(* statements of the text, each once and in the order of the text, and     *)
(* then the end of the stream.  How the text is cut into reads, how big    *)
(* the buffer is and when it grows are not part of the promise.            *)
(***************************************************************************)
EXTENDS TtlLex

CONSTANTS
  Texts       \* the texts an input may hold

VARIABLES
  text,       \* the text of the input
  failed,     \* something went wrong, and the stream may end early
  out,        \* the statements handed on so far
  closed      \* no statement will follow

streamVars == <<text, failed, out, closed>>

StreamInit ==
  /\ text \in Texts
  /\ failed = FALSE
  /\ out = <<>>
  /\ closed = FALSE

Emit ==
  /\ ~closed
  /\ Len(out) < Len(Statements(text))
  /\ out' = Append(out, Statements(text)[Len(out) + 1])
  /\ UNCHANGED <<text, failed, closed>>

Fail ==
  /\ ~closed /\ ~failed
  /\ failed' = TRUE
  /\ closed' \in BOOLEAN
  /\ UNCHANGED <<text, out>>

Close ==
  /\ ~closed
  /\ Len(out) = Len(Statements(text)) \/ failed
  /\ closed' = TRUE
  /\ UNCHANGED <<text, failed, out>>

StreamNext == Emit \/ Fail \/ Close

StreamSpec == StreamInit /\ [][StreamNext]_streamVars

===========================================================================
