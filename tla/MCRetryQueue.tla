---------------------------- MODULE MCRetryQueue ----------------------------
(***************************************************************************)
(* Model-checking instances of RetryQueue.  Backoff lists are in ticks;    *)
(* check_interval is one tick.  Two lists of different length let a        *)
(* restart shrink the list under envelopes that already used it; the empty *)
(* list is the configuration in which no retry loop runs.                 *)
(***************************************************************************)
EXTENDS RetryQueue

\* retry_intervals = ["1m", "2m"], ["1m"] or [] at some start-up.
MC_BackoffAll == {<<1, 2>>, <<1>>, <<>>}
\* Only non-empty lists: a retry loop always runs.
MC_BackoffRunning == {<<1, 2>>, <<1>>}
MC_Backoff1 == {<<1>>}
\* Two attempts, so that a failed first retry is written back with update.
MC_Backoff2 == {<<1, 2>>}

MC_LegacyBoth == {FALSE, TRUE}
MC_LegacyNone == {FALSE}
MC_LegacyOnly == {TRUE}
=============================================================================
