--------------------------- MODULE VerifyingClient --------------------------
(***************************************************************************)
(* VerifyingClient::run of src/agent/src/common/verifying_client.rs.        *)
(*                                                                         *)
(* A run picks a healthy primary, performs the task on it, picks           *)
(* verification peers, runs the verifier on each of them and applies the  *)
(* failure strategy; on VerificationFailed it starts over, at most         *)
(* max_resubmits more times.  Successive calls of run follow each other.   *)
(*                                                                         *)
(* Peers.  Health probes are answered arbitrarily (a probe may time out    *)
(* at any moment), so get_n(n, excluding) may return any set of the        *)
(* candidates of at most n peers.  A peer in Faulty answers anything; the  *)
(* result of a task on a faulty primary may be bogus: "altered" (the       *)
(* peers hold a record under that id with other content, e.g. a real tx    *)
(* with other metadata) or "absent" (no honest peer holds a record for     *)
(* it).  An honest peer looked up by a verifier finds a genuine result     *)
(* once it has propagated, reports an altered one as a mismatch, and never *)
(* finds an absent one.  Any lookup may fail in transport.                 *)
(***************************************************************************)
EXTENDS Naturals, FiniteSets

CONSTANTS
  Peers,                           \* the pooled clients
  Faulty,                          \* peers that may answer anything
  VerificationClientCount,         \* options.verification_client_count
  MinimumVerificationClientCount,  \* options.minimum_verification_client_count
  AllowSelfVerification,           \* options.allow_self_verification
  MaxResubmits,                    \* options.max_resubmits
  Strategy,                        \* "Error" or "AcceptWithNSuccesses"
  StrategyN,                       \* n of AcceptWithNSuccesses(n)
  MaxLookups,                      \* lookups a verifier's backoff makes
                                   \* before max_elapsed_time runs out
  None                             \* model value: no primary chosen

ASSUME Faulty \subseteq Peers
ASSUME Strategy \in {"Error", "AcceptWithNSuccesses"}
ASSUME MaxLookups \in Nat \ {0}

VARIABLES
  pc,           \* "idle", "primary", "task", "select", "verify", "done"
  retries,      \* the `retries` counter of run
  primary,      \* the primary client of the current run_once
  result,       \* the task's result: "genuine", "altered" or "absent"
  verifiers,    \* verification_clients of the current run_once
  answer,       \* per verifier: "pending", "true" or "false"
  lookups,      \* per verifier: lookups made so far in this round
  outcome,      \* what run returned: "Ok", an error name, or None
  tasks         \* history: task executions in the current call of run

vars == <<pc, retries, primary, result, verifiers, answer, lookups, outcome, tasks>>

Outcomes == {"Ok", "NoClientsAvailable", "NotEnoughClientsAvailable",
             "TaskError", "VerificationFailed"}

(* get_n(n, excluding): shuffle the peers not excluded and probe them in   *)
(* turn, keeping the healthy ones until n are kept.  The check for n comes *)
(* after the first probe, so get_n(0, ..) may still return one peer.       *)
GetN(n, excluding) ==
  {S \in SUBSET (Peers \ excluding) :
     Cardinality(S) <= IF n = 0 THEN 1 ELSE n}

SuccessCount == Cardinality({p \in verifiers : answer[p] = "true"})

(* The end of run_once: with success_count < verifiers.len(), Error fails, *)
(* and AcceptWithNSuccesses(n) fails when success_count < n.              *)
VerificationPasses ==
  \/ SuccessCount >= Cardinality(verifiers)
  \/ Strategy = "AcceptWithNSuccesses" /\ SuccessCount >= StrategyN

(* run returns.                                                            *)
Return(o) ==
  /\ outcome' = o
  /\ pc' = "done"

Init ==
  /\ pc = "idle"
  /\ retries = 0
  /\ primary = None
  /\ result = "absent"
  /\ verifiers = {}
  /\ answer = [p \in Peers |-> "pending"]
  /\ lookups = [p \in Peers |-> 0]
  /\ outcome = None
  /\ tasks = 0

(* A caller invokes run: retries = max_resubmits + 1.                      *)
Call ==
  /\ pc \in {"idle", "done"}
  /\ pc' = "primary"
  /\ retries' = MaxResubmits + 1
  /\ outcome' = None
  /\ tasks' = 0
  /\ UNCHANGED <<primary, result, verifiers, answer, lookups>>

(* run_once: self.get(&[]) returns a healthy primary.                       *)
SelectPrimary ==
  /\ pc = "primary"
  /\ \E p \in Peers : primary' = p
  /\ pc' = "task"
  /\ UNCHANGED <<retries, result, verifiers, answer, lookups, outcome, tasks>>

(* self.get(&[]) finds no healthy peer: NoClientsAvailable.                *)
NoClientsAvailable ==
  /\ pc = "primary"
  /\ Return("NoClientsAvailable")
  /\ UNCHANGED <<retries, primary, result, verifiers, answer, lookups, tasks>>

(* task(primary) returns Ok(V); V is genuine unless the primary is faulty. *)
TaskOk ==
  /\ pc = "task"
  /\ \E r \in IF primary \in Faulty THEN {"genuine", "altered", "absent"}
                                  ELSE {"genuine"} :
       result' = r
  /\ tasks' = tasks + 1
  /\ pc' = "select"
  /\ UNCHANGED <<retries, primary, verifiers, answer, lookups, outcome>>

(* task(primary) returns Err: the error propagates, no verification.       *)
TaskError ==
  /\ pc = "task"
  /\ tasks' = tasks + 1
  /\ Return("TaskError")
  /\ UNCHANGED <<retries, primary, result, verifiers, answer, lookups>>

(* Mutant: one more round than max_resubmits + 1 (`while retries >= 0`).   *)
RejectExtraRound ==
  /\ pc = "verify"
  /\ \A p \in verifiers : answer[p] # "pending"
  /\ ~VerificationPasses
  /\ retries' = retries - 1
  /\ IF retries - 1 >= 0
     THEN pc' = "primary" /\ UNCHANGED outcome
     ELSE Return("VerificationFailed")
  /\ UNCHANGED <<primary, result, verifiers, answer, lookups, tasks>>

(* Mutant: the primary is not excluded when verifiers are chosen.          *)
SelectVerifiersWithPrimary ==
  /\ pc = "select"
  /\ \E S \in GetN(VerificationClientCount, {}) :
       LET short == Cardinality(S) < VerificationClientCount
           chosen == IF short /\ AllowSelfVerification
                     THEN S \cup {primary} ELSE S
       IN IF short /\ Cardinality(chosen) < MinimumVerificationClientCount
          THEN /\ Return("NotEnoughClientsAvailable")
               /\ UNCHANGED <<verifiers, answer, lookups>>
          ELSE /\ verifiers' = chosen
               /\ answer' = [p \in Peers |-> "pending"]
               /\ lookups' = [p \in Peers |-> 0]
               /\ pc' = "verify"
               /\ UNCHANGED outcome
  /\ UNCHANGED <<retries, primary, result, tasks>>

(* Verification clients: get_n(count, [primary]); when fewer than count,   *)
(* push the primary if self-verification is allowed, then fail when fewer  *)
(* than the minimum remain.  Both checks sit inside `if len < count`.     *)
SelectVerifiers ==
  /\ pc = "select"
  /\ \E S \in GetN(VerificationClientCount, {primary}) :
       LET short == Cardinality(S) < VerificationClientCount
           chosen == IF short /\ AllowSelfVerification
                     THEN S \cup {primary} ELSE S
       IN IF short /\ Cardinality(chosen) < MinimumVerificationClientCount
          THEN /\ Return("NotEnoughClientsAvailable")
               /\ UNCHANGED <<verifiers, answer, lookups>>
          ELSE /\ verifiers' = chosen
               /\ answer' = [p \in Peers |-> "pending"]
               /\ lookups' = [p \in Peers |-> 0]
               /\ pc' = "verify"
               /\ UNCHANGED outcome
  /\ UNCHANGED <<retries, primary, result, tasks>>

(* What a verifier's lookup of the result on peer p can return: a record   *)
(* equal to the result, a record that differs, or not found.  A faulty     *)
(* peer answers anything; transport errors are VerifyFails.                *)
LookupResponses(p) ==
  IF p \in Faulty THEN {"match", "mismatch", "not_found"}
  ELSE CASE result = "genuine" -> {"match", "not_found"}
         [] result = "altered" -> {"mismatch", "not_found"}
         [] result = "absent"  -> {"not_found"}

(* The off-chain verifier of OffChainClient::submit: get_event_data gives  *)
(* Ok(None) on 404, a transient error; an equal record is Ok(true); a      *)
(* differing record and every other error are permanent.  The chain's      *)
(* verifier (BlockchainClient::submit) returns Ok(false) on a mismatch,    *)
(* which run_once counts the same as a permanent error.                   *)
OffChainVerifier(r) ==
  CASE r = "match"     -> "Ok(true)"
    [] r = "not_found" -> "transient"
    [] OTHER           -> "permanent"

(* Mutant: the backoff has no max_elapsed_time, so a transient error is     *)
(* retried for ever.                                                       *)
SettleWithoutDeadline(p, v) ==
  IF v = "transient"
  THEN UNCHANGED <<answer, lookups>>
  ELSE /\ answer' = [answer EXCEPT ![p] = IF v = "Ok(true)" THEN "true" ELSE "false"]
       /\ UNCHANGED lookups

(* Mutant: one lookup more than max_elapsed_time allows.                  *)
SettleOneLookupLate(p, v) ==
  IF v = "transient" /\ lookups[p] < MaxLookups
  THEN /\ lookups' = [lookups EXCEPT ![p] = @ + 1]
       /\ UNCHANGED answer
  ELSE /\ answer' = [answer EXCEPT ![p] = IF v = "Ok(true)" THEN "true" ELSE "false"]
       /\ UNCHANGED lookups

(* backoff::future::retry around the verifier: a transient error is        *)
(* retried until max_elapsed_time, after MaxLookups lookups; the task then  *)
(* yields res.is_ok() && res.unwrap().                                    *)
Settle(p, v) ==
  IF v = "transient" /\ lookups[p] + 1 < MaxLookups
  THEN /\ lookups' = [lookups EXCEPT ![p] = @ + 1]
       /\ UNCHANGED answer
  ELSE /\ answer' = [answer EXCEPT ![p] = IF v = "Ok(true)" THEN "true" ELSE "false"]
       /\ UNCHANGED lookups

(* One call of the verifier in the spawned task of verifier p.             *)
Verify(p) ==
  /\ pc = "verify"
  /\ p \in verifiers
  /\ answer[p] = "pending"
  /\ \E r \in LookupResponses(p) : Settle(p, OffChainVerifier(r))
  /\ UNCHANGED <<pc, retries, primary, result, verifiers, outcome, tasks>>

(* The lookup fails in transport or with another error status: permanent.  *)
VerifyFails(p) ==
  /\ pc = "verify"
  /\ p \in verifiers
  /\ answer[p] = "pending"
  /\ Settle(p, OffChainVerifier("error"))
  /\ UNCHANGED <<pc, retries, primary, result, verifiers, outcome, tasks>>

(* All verifier tasks joined and the failure strategy accepts: Ok(V).      *)
Accept ==
  /\ pc = "verify"
  /\ \A p \in verifiers : answer[p] # "pending"
  /\ VerificationPasses
  /\ Return("Ok")
  /\ UNCHANGED <<retries, primary, result, verifiers, answer, lookups, tasks>>

(* VerificationFailed: run decrements retries and starts over while some   *)
(* remain, and returns VerificationFailed otherwise.                      *)
Reject ==
  /\ pc = "verify"
  /\ \A p \in verifiers : answer[p] # "pending"
  /\ ~VerificationPasses
  /\ retries' = retries - 1
  /\ IF retries - 1 > 0
     THEN pc' = "primary" /\ UNCHANGED outcome
     ELSE Return("VerificationFailed")
  /\ UNCHANGED <<primary, result, verifiers, answer, lookups, tasks>>

Next ==
  \/ Call
  \/ SelectPrimary
  \/ NoClientsAvailable
  \/ TaskOk
  \/ TaskError
  \/ SelectVerifiers
  \/ \E p \in Peers : Verify(p) \/ VerifyFails(p)
  \/ Accept
  \/ Reject

(* Every await inside run ends: a health probe is cut off by              *)
(* health_check_timeout, the task is one RPC, and each spawned verifier    *)
(* task keeps calling its verifier (Verify) until the backoff gives up;    *)
(* its max_elapsed_time (max_propagation_delay for the chain, the          *)
(* builder's default for the off-chain store; both are Some) is what       *)
(* bounds the lookups by MaxLookups.  The tokio task awaiting run is       *)
(* scheduled whenever it can proceed.  Callers (Call) and transport        *)
(* failures (VerifyFails) get no fairness.                                 *)
Fairness ==
  /\ WF_vars(SelectPrimary \/ NoClientsAvailable)
  /\ WF_vars(TaskOk \/ TaskError)
  /\ WF_vars(SelectVerifiers)
  /\ \A p \in Peers : WF_vars(Verify(p))
  /\ WF_vars(Accept \/ Reject)

Spec == Init /\ [][Next]_vars /\ Fairness

-----------------------------------------------------------------------------
TypeOK ==
  /\ pc \in {"idle", "primary", "task", "select", "verify", "done"}
  /\ retries \in 0..(MaxResubmits + 1)
  /\ primary \in Peers \cup {None}
  /\ result \in {"genuine", "altered", "absent"}
  /\ verifiers \subseteq Peers
  /\ answer \in [Peers -> {"pending", "true", "false"}]
  /\ lookups \in [Peers -> 0..(MaxLookups - 1)]
  /\ outcome \in Outcomes \cup {None}
  /\ tasks \in Nat

(* One call of run performs the task at most max_resubmits + 1 times:     *)
(* each VerificationFailed costs a round (verifying_client.rs:147-159) and *)
(* every other outcome of run_once ends the call.                         *)
TasksWithinResubmits ==
  tasks <= MaxResubmits + 1

(* Every call of run returns, however peers answer: each VerificationFailed *)
(* costs one of the max_resubmits + 1 rounds (verifying_client.rs:147-159) *)
(* and every round's awaits end.                                          *)
RunReturns ==
  (pc = "primary") ~> (pc = "done")

(* A result that run accepts is genuine: a faulty primary's bogus result   *)
(* is never confirmed, however probes and verifiers answer (spec.md 1: the *)
(* result is independently confirmed against peers).                      *)
AcceptedResultIsGenuine ==
  outcome = "Ok" => result = "genuine"

=============================================================================
