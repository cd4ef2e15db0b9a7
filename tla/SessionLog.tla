----------------------------- MODULE SessionLog -----------------------------
(***************************************************************************)
(* The tool events of a session's durable log, as the plugin reads them on *)
(* resume and compaction, and what they say of the work in the session.    *)
(***************************************************************************)
EXTENDS ProgressEngine

CallEntry   == [kind : {"call"}, id : Nat, call : Calls]
ResultEntry == [kind : {"result"}, id : Nat, content : Contents, isError : BOOLEAN]
LogEntry    == CallEntry \cup ResultEntry

-----------------------------------------------------------------------------
(* Translation: each result is paired with its call, which the log holds   *)
(* before it; results without a call are skipped.  Call ids are unique in  *)
(* a session.                                                              *)

Pairs(log, j, k) ==
  /\ log[j].kind = "call"
  /\ log[k].kind = "result"
  /\ log[j].id = log[k].id

Paired(log, k) == \E j \in 1..(k - 1) : Pairs(log, j, k)

EventOf(log, j, k) ==
  [call |-> log[j].call, content |-> log[k].content, isError |-> log[k].isError]

-----------------------------------------------------------------------------
(* What the log says of the work: the reference for the completion guard.  *)

IsPass(ev)         == IsVerification(ev) /\ ReceiptStatus(ev) = "pass"
IsRunOf(ev, c)     == IsVerification(ev) /\ CommandOf[ev.call] = c
IsFailureOf(ev, c) == IsRunOf(ev, c) /\ ReceiptStatus(ev) = "fail"

\* What the event of entry k is; nothing when k is no result or an orphan.
LoggedMutation(log, k) ==
  \E j \in 1..(k - 1) : Pairs(log, j, k) /\ IsMutation(EventOf(log, j, k))

LoggedPass(log, k) ==
  \E j \in 1..(k - 1) : Pairs(log, j, k) /\ IsPass(EventOf(log, j, k))

LoggedRun(log, k, c) ==
  \E j \in 1..(k - 1) : Pairs(log, j, k) /\ IsRunOf(EventOf(log, j, k), c)

LoggedFailure(log, k, c) ==
  \E j \in 1..(k - 1) : Pairs(log, j, k) /\ IsFailureOf(EventOf(log, j, k), c)

\* Among the first n entries, a mutation that no passing verification follows.
UnverifiedIn(log, n) ==
  \E k \in 1..n :
    LoggedMutation(log, k) /\ \A j \in (k + 1)..n : ~LoggedPass(log, j)

\* The last run of command c among the first n entries failed.
FailingIn(log, n, c) ==
  \E k \in 1..n :
    LoggedFailure(log, k, c) /\ \A j \in (k + 1)..n : ~LoggedRun(log, j, c)
=============================================================================
