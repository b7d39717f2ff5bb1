---------------------------- MODULE Transactions ----------------------------
(***************************************************************************)
(* The transactions of one client (zcncore/transaction_base.go,            *)
(* transaction.go, transactionauth_base.go, transaction_query.go) and the  *)
(* nonce cache they share (core/node/cache.go, node.go).  Each runs in a   *)
(* goroutine of its own: it takes a nonce, signs, sends itself to the      *)
(* stable miners at the same time, reports the first result, and is then   *)
(* verified against the sharders until it is found or has expired.         *)
(*                                                                         *)
(* Miners, sharders and the chain are external.  A block holds at most one *)
(* of the transactions; a transaction runs when its nonce is the next one  *)
(* and it has not expired.  Time is counted in blocks.                     *)
(***************************************************************************)
EXTENDS Integers, FiniteSets, Sequences, SequencesExt, FiniteSetsExt

CONSTANTS
  Txns,
  MinSubmit,   \* getMinMinersSubmit: how many stable miners there are
  Sharders,    \* Sharders.Healthy()
  MinVerify,   \* getMinShardersVerify
  ChainLength, \* getMinRequiredChainLength
  TTL,         \* defaultTxnExpirationSeconds
  MaxRound,    \* bound: length of the chain
  Faults,      \* what may go wrong; see FaultKinds
  MaxFaults    \* bound: how often

\* A nonce is given by the user, no sharder tells the nonce, the transaction is
\* not signed or authorised, a post is lost, its answer is lost, a miner refuses;
\* when a transaction is verified, a sharder is off line or tells a last finalised
\* block without a date, or the confirmation cannot be parsed.
FaultKinds == {"explicit", "nonce", "sign", "post", "answer", "refuse", "offline", "blank",
               "parse"}

ASSUME SizesAssumption ==
  /\ MinSubmit \in Nat \ {0}
  /\ IsFiniteSet(Txns) /\ IsFiniteSet(Sharders)
  /\ MinVerify \in 1 .. Cardinality(Sharders)
  /\ ChainLength \in Nat \ {0} /\ TTL \in Nat
ASSUME BoundsAssumption ==
  Faults \subseteq FaultKinds /\ MaxFaults \in Nat /\ MaxRound \in Nat

VARIABLES
  pc,        \* per transaction: where its goroutine is
  nonce,     \* t.txn.TransactionNonce
  created,   \* t.txn.CreationDate
  posts,     \* how many stable miners have not answered yet
  failed,    \* failedCount
  signal,    \* what failC or resultC holds
  status,    \* t.txnStatus
  verified,  \* t.verifyStatus, with what tells its cases apart; see Verdicts
  cache,     \* node.Cache for the client; Absent when evicted
  chain,     \* the blocks
  height,    \* per sharder: its last finalised block
  pool,      \* transactions that some miner took
  disturbed, \* the cache was evicted or set, or a nonce was not used
  budget     \* how many faults may still happen

txnVars == <<pc, nonce, created>>
submitVars == <<posts, failed, signal, status>>
chainVars == <<chain, height, pool>>
vars == <<txnVars, submitVars, verified, cache, chainVars, disturbed, budget>>

Absent == -1
Empty == "empty"
ASSUME EmptyAssumption == Empty \notin Txns

Round == 0 .. MaxRound

\* The last round in which a transaction starts, so that the bound leaves it time to
\* be confirmed or to expire.
LastStart == MaxRound - TTL - Max({1, ChainLength - 1})

\* The status of a transaction on the chain, as its confirmation tells it.
Statuses == {"success", "chargeable", "failed"}

\* What Verify reports.  StatusSuccess: "success", and "chargeable" with the
\* confirmation status ChargeableError.  StatusError: "failed" with the output of the
\* transaction, "unreadable" when the confirmation is not encoded again, "expired"
\* and "overdue" when the transaction is not found in time: by the date of a
\* finalised block, or by the clock because that block had no date.
Verdicts == Statuses \cup {"unreadable", "expired", "overdue"}

TypeOK ==
  /\ pc \in [Txns -> {"new", "signing", "waiting", "evicting", "submitted", "fallback", "chain",
                      "silent", "over"}]
  /\ nonce \in [Txns -> Nat]
  /\ created \in [Txns -> Round]
  /\ posts \in [Txns -> 0 .. MinSubmit]
  /\ failed \in [Txns -> 0 .. MinSubmit]
  /\ signal \in [Txns -> {"none", "fail", "refused", "ok"}]
  /\ status \in [Txns -> {"unknown", "success", "error"}]
  /\ verified \in [Txns -> {"unknown"} \cup Verdicts]
  /\ cache \in {Absent} \cup Nat
  /\ chain \in Seq(Txns \cup {Empty})
  /\ height \in [Sharders -> 0 .. Len(chain)]
  /\ pool \subseteq Txns
  /\ disturbed \in BOOLEAN
  /\ budget \in 0 .. MaxFaults

Init ==
  /\ pc = [t \in Txns |-> "new"] /\ nonce = [t \in Txns |-> 0] /\ created = [t \in Txns |-> 0]
  /\ posts = [t \in Txns |-> 0] /\ failed = [t \in Txns |-> 0]
  /\ signal = [t \in Txns |-> "none"] /\ status = [t \in Txns |-> "unknown"]
  /\ verified = [t \in Txns |-> "unknown"]
  /\ cache = Absent
  /\ chain = <<>> /\ height = [s \in Sharders |-> 0] /\ pool = {}
  /\ disturbed = FALSE
  /\ budget = MaxFaults

Spend(kind) == kind \in Faults /\ budget > 0 /\ budget' = budget - 1

-----------------------------------------------------------------------------
(* Miners, sharders and the chain (external).                              *)

\* The nonce of the client after the blocks of c.
StateNonce(c) == Cardinality({k \in DOMAIN c : c[k] # Empty})

Runnable == {t \in pool : /\ nonce[t] = StateNonce(chain) + 1
                          /\ Len(chain) + 1 <= created[t] + TTL
                          /\ t \notin ToSet(chain)}

Mine ==
  /\ Len(chain) < MaxRound
  /\ \/ Runnable = {} /\ chain' = Append(chain, Empty)
     \/ \E t \in Runnable : chain' = Append(chain, t)
  /\ UNCHANGED <<txnVars, submitVars, verified, cache, height, pool, disturbed, budget>>

CatchUp(s) ==
  /\ height[s] < Len(chain)
  /\ height' = [height EXCEPT ![s] = Len(chain)]
  /\ UNCHANGED <<txnVars, submitVars, verified, cache, chain, pool, disturbed, budget>>

Knows(s, t) == \E k \in 1 .. height[s] : chain[k] = t
RoundOf(t) == CHOOSE k \in DOMAIN chain : chain[k] = t

-----------------------------------------------------------------------------
(* The nonce cache.                                                        *)

\* The values of f that most of ss have: HttpConsensusMaps keeps the first that
\* has the most answers.
Plurality(f, ss) ==
  LET votes(v) == Cardinality({s \in ss : f[s] = v})
  IN  {v \in {f[s] : s \in ss} : \A s \in ss : votes(f[s]) <= votes(v)}

\* GetNonceFromSharders.  consensusThresh: a quarter of the sharders must agree.
SharderNonces ==
  {v \in Plurality([s \in Sharders |-> StateNonce(SubSeq(chain, 1, height[s]))], Sharders) :
     Cardinality({s \in Sharders : StateNonce(SubSeq(chain, 1, height[s])) = v}) * 4
       >= Cardinality(Sharders)}

\* A variant that asks the sharders every time.
AlwaysFetch(t) == \E n \in SharderNonces : /\ nonce' = [nonce EXCEPT ![t] = n + 1]
                                           /\ cache' = n + 1
                                           /\ UNCHANGED <<disturbed, budget>>

\* GetNextNonce: the lock is held over the query, and a query that fails counts as
\* nonce 0.
GetNextNonce(t) ==
  \E n \in IF cache = Absent THEN SharderNonces \cup {0} ELSE {cache} :
    /\ nonce' = [nonce EXCEPT ![t] = n + 1]
    /\ cache' = n + 1
    /\ IF cache = Absent /\ n \notin SharderNonces
         THEN Spend("nonce") /\ disturbed' = TRUE
         ELSE UNCHANGED <<budget, disturbed>>

\* Set: the nonce that the user gave.
SetGiven(t) ==
  \E n \in 1 .. Cardinality(Txns) :
    /\ Spend("explicit")
    /\ nonce' = [nonce EXCEPT ![t] = n]
    /\ cache' = n
    /\ disturbed' = TRUE

\* setNonce, and the other places with the same lines.
SetNonce(t) ==
  /\ pc[t] = "new"
  /\ Len(chain) <= LastStart
  /\ pc' = [pc EXCEPT ![t] = "signing"]
  /\ created' = [created EXCEPT ![t] = Len(chain)]
  /\ GetNextNonce(t) \/ SetGiven(t)
  /\ UNCHANGED <<submitVars, verified, chainVars>>

-----------------------------------------------------------------------------
(* submitTxn.                                                              *)

\* It is signed, and a goroutine for each stable miner posts it.  (Which miners these
\* are makes no difference here, so ResetStableMiners leaves no trace.)
Sign(t) ==
  /\ pc[t] = "signing"
  /\ pc' = [pc EXCEPT ![t] = "waiting"]
  /\ posts' = [posts EXCEPT ![t] = MinSubmit]
  /\ UNCHANGED <<nonce, created, failed, signal, status, verified, cache, chainVars,
                 disturbed, budget>>

\* It is not.  What then happens depends on the call: submitTxn reports it and
\* evicts the nonce; a TransactionWithAuth reports it and keeps the nonce; a call
\* that signs with a wallet given to it returns without a word.
SignFails(t) ==
  /\ pc[t] = "signing"
  /\ Spend("sign")
  /\ disturbed' = TRUE
  /\ \/ /\ pc' = [pc EXCEPT ![t] = "evicting"]
        /\ status' = [status EXCEPT ![t] = "error"]
     \/ /\ pc' = [pc EXCEPT ![t] = "over"]
        /\ status' = [status EXCEPT ![t] = "error"]
     \/ /\ pc' = [pc EXCEPT ![t] = "over"]
        /\ UNCHANGED status
  /\ UNCHANGED <<nonce, created, posts, failed, signal, verified, cache, chainVars>>

\* The select of submitTxn sees the first of failC and resultC.
Tell(t, what) == signal' = [signal EXCEPT ![t] = IF @ = "none" THEN what ELSE @]

\* A miner takes the transaction and says so.
PostTaken(t) ==
  /\ posts[t] > 0
  /\ nonce[t] > StateNonce(chain)
  /\ posts' = [posts EXCEPT ![t] = @ - 1]
  /\ pool' = pool \cup {t}
  /\ Tell(t, "ok")
  /\ UNCHANGED <<txnVars, failed, status, verified, cache, chain, height, disturbed,
                 budget>>

\* A variant of Failure where only a lost post counts.
OnlyLostCounts(t, how) ==
  IF how = "fail"
    THEN /\ failed' = [failed EXCEPT ![t] = @ + 1]
         /\ IF failed[t] + 1 = MinSubmit THEN Tell(t, how) ELSE UNCHANGED signal
    ELSE UNCHANGED <<failed, signal>>

\* A post failed; the last failure closes failC or passes the refusal on.
Failure(t, how) ==
  /\ failed' = [failed EXCEPT ![t] = @ + 1]
  /\ IF failed[t] + 1 = MinSubmit THEN Tell(t, how) ELSE UNCHANGED signal

\* A miner refuses: the nonce is used up, or for a reason of its own.
PostRefused(t) ==
  /\ posts[t] > 0
  /\ \/ nonce[t] <= StateNonce(chain) /\ UNCHANGED budget
     \/ nonce[t] > StateNonce(chain) /\ Spend("refuse")
  /\ posts' = [posts EXCEPT ![t] = @ - 1]
  /\ Failure(t, "refused")
  /\ UNCHANGED <<txnVars, status, verified, cache, chainVars, disturbed>>

\* The post is lost on its way, or its answer is and the miner has it.
PostLost(t) ==
  /\ posts[t] > 0
  /\ \/ Spend("post") /\ UNCHANGED pool
     \/ nonce[t] > StateNonce(chain) /\ Spend("answer") /\ pool' = pool \cup {t}
  /\ posts' = [posts EXCEPT ![t] = @ - 1]
  /\ Failure(t, "fail")
  /\ UNCHANGED <<txnVars, status, verified, cache, chain, height, disturbed>>

\* The select: completeTxn calls the user back, before the nonce is evicted.
Complete(t) ==
  /\ pc[t] = "waiting"
  /\ signal[t] # "none"
  /\ pc' = [pc EXCEPT ![t] = IF signal[t] = "ok" THEN "submitted" ELSE "evicting"]
  /\ status' = [status EXCEPT ![t] = IF signal[t] = "ok" THEN "success" ELSE "error"]
  /\ UNCHANGED <<nonce, created, posts, failed, signal, verified, cache, chainVars,
                 disturbed, budget>>

\* Cache.Evict after the callback.
Evict(t) ==
  /\ pc[t] = "evicting"
  /\ pc' = [pc EXCEPT ![t] = "over"]
  /\ cache' = Absent
  /\ disturbed' = TRUE
  /\ UNCHANGED <<nonce, created, submitVars, verified, chainVars, budget>>

-----------------------------------------------------------------------------
(* Verify.                                                                 *)

\* getFastConfirmation from one sharder.  If it does not know the transaction and
\* the time is up, all of them are asked; before that nothing can have expired.
FastConfirmation(t) ==
  /\ pc[t] = "submitted"
  /\ \E s \in Sharders :
       \/ /\ Knows(s, t)
          /\ pc' = [pc EXCEPT ![t] = "chain"]
       \/ /\ ~Knows(s, t)
          /\ Len(chain) >= created[t] + TTL
          /\ pc' = [pc EXCEPT ![t] = "fallback"]
  /\ UNCHANGED <<nonce, created, submitVars, verified, cache, chainVars, disturbed, budget>>

\* A last finalised block whose answer has no creation date.
NoDate == -1

\* A variant that takes the later of the two times, as the test before it does.
ExpiredByLatest(t, lfb) == Max({lfb, Len(chain)}) > created[t] + TTL

\* isTransactionExpired: a block without a date counts as one of now.
IsTransactionExpired(t, lfb) ==
  Min({IF lfb = NoDate THEN Len(chain) ELSE lfb, Len(chain)}) > created[t] + TTL

\* getConsensusConfirmation from the sharders that are on line: enough of them know
\* the transaction; otherwise the last finalised block is the one most of those
\* tell that do not know it.
Confirmed(online, t) == Cardinality({s \in online : Knows(s, t)}) >= MinVerify
LastFinalized(online, blank, t) ==
  Plurality([s \in Sharders |-> IF s \in blank THEN NoDate ELSE height[s]],
            {s \in online : ~Knows(s, t)})

\* completeVerify with StatusError evicts the nonce before the callback.
VerifyFailed(t, verdict) ==
  /\ verified' = [verified EXCEPT ![t] = verdict]
  /\ cache' = Absent
  /\ disturbed' = TRUE
  /\ pc' = [pc EXCEPT ![t] = "over"]

\* All the sharders are asked; some may be off line or tell no date.  If the
\* transaction has expired the failure is reported; if not, Verify starts again.
ConsensusConfirmation(t) ==
  /\ pc[t] = "fallback"
  /\ \E online \in SUBSET Sharders : \E blank \in SUBSET online :
       /\ \/ online = Sharders /\ blank = {} /\ UNCHANGED budget
          \/ online # Sharders /\ blank = {} /\ Spend("offline")
          \/ online = Sharders /\ blank # {} /\ Spend("blank")
       /\ LET lfbs == LastFinalized(online, blank, t)
          IN  \/ /\ Confirmed(online, t)
                 /\ pc' = [pc EXCEPT ![t] = "chain"]
                 /\ UNCHANGED <<verified, cache, disturbed>>
              \/ /\ ~Confirmed(online, t)
                 /\ \/ \E lfb \in lfbs :
                         /\ IsTransactionExpired(t, lfb)
                         /\ VerifyFailed(t, IF lfb = NoDate THEN "overdue" ELSE "expired")
                    \/ /\ lfbs = {} \/ \E lfb \in lfbs : ~IsTransactionExpired(t, lfb)
                       /\ pc' = [pc EXCEPT ![t] = "submitted"]
                       /\ UNCHANGED <<verified, cache, disturbed>>
  /\ UNCHANGED <<nonce, created, submitVars, chainVars>>

\* validateChain: getBlockInfoByRound for the rounds after the confirmation, until
\* the chain is long enough.  It asks again for a round that a quarter of the
\* sharders does not know yet.
LongEnough(t) ==
  \A k \in 1 .. Max({1, ChainLength - 1}) :
    Cardinality({s \in Sharders : height[s] >= RoundOf(t) + k}) * 4 >= Cardinality(Sharders)

\* The status in the confirmation is reported, whatever it is.
ValidateChain(t) ==
  /\ pc[t] = "chain"
  /\ LongEnough(t)
  /\ \/ /\ \E on \in Statuses \ {"failed"} : verified' = [verified EXCEPT ![t] = on]
        /\ pc' = [pc EXCEPT ![t] = "over"]
        /\ UNCHANGED <<cache, disturbed>>
     \/ VerifyFailed(t, "failed")
  /\ UNCHANGED <<nonce, created, submitVars, chainVars, budget>>

\* The confirmation is not encoded again, which is reported, or is not parsed again,
\* and then Verify ends without a word.
ConfirmationFails(t) ==
  /\ pc[t] = "chain"
  /\ LongEnough(t)
  /\ Spend("parse")
  /\ \/ VerifyFailed(t, "unreadable")
     \/ /\ pc' = [pc EXCEPT ![t] = "silent"]
        /\ UNCHANGED <<verified, cache, disturbed>>
  /\ UNCHANGED <<nonce, created, submitVars, chainVars>>

-----------------------------------------------------------------------------
\* The bound is reached; what is still under way is for the liveness properties.
Done ==
  /\ Len(chain) = MaxRound
  /\ UNCHANGED vars

Chain == Mine \/ \E s \in Sharders : CatchUp(s)

Run(t) ==
  \/ Sign(t) \/ Complete(t) \/ Evict(t)
  \/ FastConfirmation(t) \/ ConsensusConfirmation(t) \/ ValidateChain(t)

Post(t) == PostTaken(t) \/ PostRefused(t) \/ PostLost(t)

Next ==
  \/ Chain
  \/ \E t \in Txns : SetNonce(t) \/ SignFails(t) \/ Run(t) \/ Post(t) \/ ConfirmationFails(t)
  \/ Done

Spec == Init /\ [][Next]_vars

\* Goroutines run, posts end by their time-out of a minute, the chain grows and
\* the sharders follow it.
FairSpec == Spec /\ WF_vars(Chain) /\ \A t \in Txns : WF_vars(Run(t) \/ Post(t))

-----------------------------------------------------------------------------
(* Properties.                                                             *)

Numbered == {t \in Txns : pc[t] # "new"}

\* As long as nothing failed and the user gave no nonce, the nonces in use are the
\* next ones of the chain, each once, whatever order the goroutines run in and
\* however far the sharders are behind: no transaction waits for one that will not
\* come.
Consecutive ==
  ~disturbed => /\ {nonce[t] : t \in Numbered} = 1 .. Cardinality(Numbered)
                /\ StateNonce(chain) <= Cardinality(Numbered)

\* What Verify reports is true and stays true, although sharders are behind or off
\* line: a transaction reported with a status of the chain, or as unreadable, is on
\* the chain below enough blocks; one that has expired by a finalised block is not
\* on the chain and will never be.  Only for one that is overdue, because the
\* sharders told no date, is nothing known.
VerifyOutcome ==
  \A t \in Txns :
    /\ verified[t] \in Statuses \cup {"unreadable"} =>
         /\ t \in ToSet(chain)
         /\ RoundOf(t) + ChainLength - 1 <= Len(chain)
    /\ verified[t] = "expired" => t \notin ToSet(chain)

\* A transaction that is sent is reported to have failed or, once a miner took it,
\* verified and reported with what became of it: in whatever order the miners take
\* it, refuse it or do not answer, also when none of them answers or the last one
\* does not answer after refusals; and it is found or it expires, when an earlier
\* nonce never comes.  Only a confirmation that is parsed once and not a second time
\* ends Verify without a report.
Reported ==
  \A t \in Txns :
    (pc[t] = "waiting") ~> (status[t] = "error" \/ verified[t] # "unknown" \/ pc[t] = "silent")
=============================================================================
