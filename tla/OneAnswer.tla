------------------------------ MODULE OneAnswer ------------------------------
(***************************************************************************)
(* What a caller of getDocuments is promised, with nothing of how the      *)
(* documents are found: a call that was made is answered once, with a      *)
(* snapshot or with an error, and is not left waiting for ever.            *)
(***************************************************************************)
EXTENDS Sequences

CONSTANTS
  Call,                 \* calls of getDocuments
  Answer                \* what a call can be answered with

VARIABLES
  called,               \* the calls made so far
  answers               \* for each call, the answers its completion was given

oneVars == <<called, answers>>

Init == called = {} /\ answers = [c \in Call |-> <<>>]

Ask(c) ==
  /\ c \notin called
  /\ called' = called \union {c}
  /\ UNCHANGED answers

Reply(c) ==
  /\ c \in called
  /\ answers[c] = <<>>
  /\ \E a \in Answer : answers' = [answers EXCEPT ![c] = <<a>>]
  /\ UNCHANGED called

Next == \E c \in Call : Ask(c) \/ Reply(c)

Spec == Init /\ [][Next]_oneVars /\ \A c \in Call : WF_oneVars(Reply(c))
=============================================================================
