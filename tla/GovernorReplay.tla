--------------------------- MODULE GovernorReplay ---------------------------
(***************************************************************************)
(* The two passes of a resume as the code writes them, translate the log   *)
(* and rebuild an engine from the events, against the live path.           *)
(***************************************************************************)
EXTENDS Governor

\* One more entry of the log: a call waits under its id, a result goes out with
\* the call of its id, and without one it is skipped.
Translated(acc, x) ==
  IF x.kind = "call"
    THEN [acc EXCEPT !.pending = [id \in DOMAIN @ \cup {x.id} |-> IF id = x.id THEN x.call ELSE @[id]]]
  ELSE IF x.id \in DOMAIN acc.pending
    THEN [acc EXCEPT !.out = Append(@, [call |-> acc.pending[x.id],
                                        content |-> x.content, isError |-> x.isError])]
  ELSE acc

\* The pass over the log, after each number of entries.
TranslatedTo(events) ==
  LET acc[n \in 0..Len(events)] ==
        IF n = 0 THEN [pending |-> <<>>, out |-> <<>>] ELSE Translated(acc[n - 1], events[n])
  IN  acc

TranslateSessionEvents(events) == TranslatedTo(events)[Len(events)].out

\* The pass over the events, after each number of them.
RebuiltTo(events) ==
  LET engineAt[n \in 0..Len(events)] ==
        IF n = 0 THEN NewEngine ELSE ApplyEvent(engineAt[n - 1], events[n])
  IN  engineAt

Rebuild(events) == RebuiltTo(events)[Len(events)]

\* Whenever no result is between its observation and the log, a restart would
\* change no generation, fingerprint or receipt: the live path, through all its
\* rounds, resets and reminders, and the stepwise replay both leave the engine
\* with the facts that translating and replaying the log gives (index.ts 15-18,
\* 258-294, 388-403; core index.ts 10-15, 439-443).
LiveEqualsReplay ==
  phase \in {"idle", "boundary", "model", "running"} =>
    Snapshot(engine) = Snapshot(Rebuild(TranslateSessionEvents(log)))
=============================================================================
