-------------------------- MODULE WriteMarkerMutex --------------------------
(***************************************************************************)
(* The write-marker lock of an allocation (zboxcore/sdk/                   *)
(* writemarker_mutex.go): before a connection commits, it locks the        *)
(* allocation on its blobbers.  Lock takes a lead blobber first, then all  *)
(* the others at once, each in a lockBlobber goroutine, and succeeds when  *)
(* a threshold of blobbers granted the lock.  A refresh goroutine then     *)
(* locks the same blobbers again every 30 seconds until the context ends,  *)
(* and Unlock releases the others first and the lead blobber last.         *)
(*                                                                         *)
(* One connection is one WriteMarkerMutex object: every batch of           *)
(* operations creates its own, with a connection id of its own.            *)
(*                                                                         *)
(* The blobber's lock table is a service outside the repository.  A lock   *)
(* is given to one connection, given again to the connection that has it,  *)
(* and lapses when its connection no longer refreshes it; it is assumed to *)
(* outlive the acquisition of the other blobbers' locks.                   *)
(***************************************************************************)
EXTENDS Integers, FiniteSets

CONSTANTS
  Conns,         \* connection ids, each with a WriteMarkerMutex of its own
  NoConn,        \* the holder of a free lock
  N,             \* len(blobbers)
  Thresh,        \* consensus.consensusThresh
  AddConsensus,  \* the caller's addConsensus: blobbers that need no commit
  Faults,        \* what may go wrong; see FaultKinds
  MaxFaults,     \* bound: how many times something goes wrong
  MaxRefresh     \* bound: how many times each connection refreshes its locks

FaultKinds == {"refuse", "lost", "limit", "timeout", "cancel", "crash"}

ASSUME ConnsAssumption == NoConn \notin Conns
ASSUME NAssumption == N \in Nat \ {0}
ASSUME ThreshAssumption == Thresh \in Nat /\ AddConsensus \in Nat
ASSUME FaultsAssumption == Faults \subseteq FaultKinds /\ MaxFaults \in Nat
ASSUME MaxRefreshAssumption == MaxRefresh \in [Conns -> Nat]
\* Two sets of granted locks that both reach the threshold intersect.  The code
\* takes Thresh = DataShards + 1 of N = DataShards + ParityShards blobbers and
\* never checks this: it holds when ParityShards < DataShards + 2.
ASSUME QuorumAssumption == 2 * (Thresh - AddConsensus) > N

Blobbers == 0 .. N - 1

VARIABLES
  pc,         \* where the caller of Lock / Unlock is
  lead,       \* wmMu.leadBlobberIndex
  mask,       \* *mask, the operation mask the goroutines share
  consensus,  \* consensus.consensus
  acquired,   \* history: the blobbers consensus.Done was called for
  waiting,    \* lockBlobber goroutines blocked on lockedBlobbers[b.ID] <-
  sending,    \* lockBlobber goroutines in the retry loop, token taken
  fenced,     \* blobbers whose token UnlockBlobber took, for good
  umask,      \* the mask the deferred Unlock was given
  unlocking,  \* UnlockBlobber goroutines not finished
  refresh,    \* the refresh goroutine
  rounds,     \* how many rounds it has started
  ctxDone,    \* the context of Lock is done
  holder,     \* external: the blobbers' lock tables
  failed,     \* history: blobbers a request of the connection failed on
  budget      \* how many faults may still happen

callVars == <<pc, lead, consensus, acquired, umask>>
unlockVars == <<fenced, unlocking>>
refreshVars == <<waiting, refresh, rounds>>
faultVars == <<failed, budget>>
vars == <<pc, lead, mask, consensus, acquired, waiting, sending, fenced,
          umask, unlocking, refresh, rounds, ctxDone, holder, failed, budget>>

Acquiring == {"lead", "leadWait", "leadExpired", "others"}
InSection == {"held", "work"}
Phases == {"idle"} \cup Acquiring \cup InSection
            \cup {"unlock", "unlockLead", "unlocked", "done"}

TypeOK ==
  /\ pc \in [Conns -> Phases]
  /\ lead \in [Conns -> 0 .. N]
  /\ mask \in [Conns -> SUBSET Blobbers]
  /\ consensus \in [Conns -> Nat]
  /\ acquired \in [Conns -> SUBSET Blobbers]
  /\ waiting \in [Conns -> SUBSET Blobbers]
  /\ sending \in [Conns -> SUBSET Blobbers]
  /\ fenced \in [Conns -> SUBSET Blobbers]
  /\ umask \in [Conns -> SUBSET Blobbers]
  /\ unlocking \in [Conns -> SUBSET Blobbers]
  /\ refresh \in [Conns -> {"off", "sleep", "round", "stopped"}]
  /\ rounds \in [Conns -> Nat] /\ \A c \in Conns : rounds[c] <= MaxRefresh[c]
  /\ ctxDone \in [Conns -> BOOLEAN]
  /\ holder \in [Blobbers -> Conns \cup {NoConn}]
  /\ failed \in [Conns -> SUBSET Blobbers]
  /\ budget \in 0 .. MaxFaults

\* CreateWriteMarkerMutex: a fresh object, lead blobber index 0.
Init ==
  /\ pc = [c \in Conns |-> "idle"]
  /\ lead = [c \in Conns |-> 0]
  /\ mask = [c \in Conns |-> {}]
  /\ consensus = [c \in Conns |-> 0]
  /\ acquired = [c \in Conns |-> {}]
  /\ waiting = [c \in Conns |-> {}]
  /\ sending = [c \in Conns |-> {}]
  /\ fenced = [c \in Conns |-> {}]
  /\ umask = [c \in Conns |-> {}]
  /\ unlocking = [c \in Conns |-> {}]
  /\ refresh = [c \in Conns |-> "off"]
  /\ rounds = [c \in Conns |-> 0]
  /\ ctxDone = [c \in Conns |-> FALSE]
  /\ holder = [b \in Blobbers |-> NoConn]
  /\ failed = [c \in Conns |-> {}]
  /\ budget = MaxFaults

\* The environment spends one of its faults, of one of these kinds.
Fault(kinds) ==
  /\ kinds \cap Faults # {}
  /\ budget > 0
  /\ budget' = budget - 1

-----------------------------------------------------------------------------
(* Lock.                                                                   *)

\* The caller enters Lock with the mask its operations left it, which has
\* passed the caller's own consensus check.
Lock(c) ==
  /\ pc[c] = "idle"
  /\ \E m \in SUBSET Blobbers :
       /\ Cardinality(m) + AddConsensus >= Thresh
       /\ mask' = [mask EXCEPT ![c] = m]
  /\ pc' = [pc EXCEPT ![c] = "lead"]
  /\ consensus' = [consensus EXCEPT ![c] = AddConsensus]
  /\ UNCHANGED <<lead, acquired, umask, sending, ctxDone, holder, faultVars,
                 unlockVars, refreshVars>>

\* A variant without lead blobber: every blobber of the mask is asked at once.
LockAllAtOnce(c) ==
  /\ pc[c] = "lead"
  /\ sending' = [sending EXCEPT ![c] = mask[c]]
  /\ pc' = [pc EXCEPT ![c] = "others"]
  /\ UNCHANGED <<lead, mask, consensus, acquired, umask, ctxDone, holder,
                 faultVars, unlockVars, refreshVars>>

\* The next candidate for lead blobber, in the mask or not, gets a lockBlobber
\* goroutine.  Nothing else uses its token yet, so it takes it at once.
TryLead(c) ==
  /\ pc[c] = "lead"
  /\ lead[c] < N
  /\ sending' = [sending EXCEPT ![c] = {lead[c]}]
  /\ pc' = [pc EXCEPT ![c] = "leadWait"]
  /\ UNCHANGED <<lead, mask, consensus, acquired, umask, ctxDone, holder,
                 faultVars, unlockVars, refreshVars>>

\* Two minutes have passed: methodCtx is done.
LeadTimeout(c) ==
  /\ Fault({"timeout"})
  /\ pc[c] = "leadWait"
  /\ pc' = [pc EXCEPT ![c] = "leadExpired"]
  /\ UNCHANGED <<lead, mask, consensus, acquired, umask, sending, ctxDone,
                 holder, failed, unlockVars, refreshVars>>

\* A variant that asks the lead blobber again with the others.
LeadAskedTwice(c) ==
  /\ pc[c] \in {"leadWait", "leadExpired"}
  /\ sending[c] = {}
  /\ consensus[c] - AddConsensus = 1
  /\ pc' = [pc EXCEPT ![c] = "others"]
  /\ sending' = [sending EXCEPT ![c] = mask[c]]
  /\ UNCHANGED <<lead, mask, consensus, acquired, umask, ctxDone, holder,
                 faultVars, unlockVars, refreshVars>>

\* A variant that asks the others without looking whether there is a lead.
LeadNotChecked(c) ==
  /\ pc[c] \in {"leadWait", "leadExpired"}
  /\ sending[c] = {}
  /\ lead' = [lead EXCEPT ![c] = IF consensus[c] - AddConsensus = 1 THEN @ ELSE @ + 1]
  /\ pc' = [pc EXCEPT ![c] = IF lead'[c] < N /\ lead'[c] # lead[c]
                               THEN "lead" ELSE "others"]
  /\ sending' = [sending EXCEPT ![c] = IF pc'[c] = "others" THEN mask[c] \ {lead'[c]} ELSE {}]
  /\ UNCHANGED <<mask, consensus, acquired, umask, ctxDone, holder, faultVars,
                 unlockVars, refreshVars>>

\* wg.Wait after one candidate: with its lock granted, every other blobber of
\* the mask gets its goroutine; otherwise Lock gives up when methodCtx is done,
\* tries the next candidate, or fails after the last one.
LeadAnswered(c) ==
  /\ pc[c] \in {"leadWait", "leadExpired"}
  /\ sending[c] = {}
  /\ \/ /\ consensus[c] - AddConsensus = 1
        /\ pc' = [pc EXCEPT ![c] = "others"]
        /\ sending' = [sending EXCEPT ![c] = mask[c] \ {lead[c]}]
        /\ UNCHANGED lead
     \/ /\ consensus[c] - AddConsensus # 1
        /\ pc[c] = "leadExpired" \/ ctxDone[c]
        /\ pc' = [pc EXCEPT ![c] = "unlocked"]
        /\ UNCHANGED <<lead, sending>>
     \/ /\ consensus[c] - AddConsensus # 1
        /\ pc[c] = "leadWait" /\ ~ctxDone[c]
        /\ lead' = [lead EXCEPT ![c] = @ + 1]
        /\ pc' = [pc EXCEPT ![c] = IF lead[c] + 1 < N THEN "lead" ELSE "unlocked"]
        /\ UNCHANGED sending
  /\ UNCHANGED <<mask, consensus, acquired, umask, ctxDone, holder, faultVars,
                 unlockVars, refreshVars>>

\* A variant with an off-by-one threshold.
OneLockShort(c) ==
  /\ pc[c] = "others"
  /\ sending[c] = {}
  /\ consensus[c] + 1 >= Thresh
  /\ pc' = [pc EXCEPT ![c] = "held"]
  /\ refresh' = [refresh EXCEPT ![c] = "sleep"]
  /\ UNCHANGED <<lead, mask, consensus, acquired, umask, waiting, rounds, sending,
                 ctxDone, holder, faultVars, unlockVars>>

\* wg.Wait after the others: with the consensus, Lock starts the refresh
\* goroutine and returns nil; without it, it unlocks the mask and fails.
OthersAnswered(c) ==
  /\ pc[c] = "others"
  /\ sending[c] = {}
  /\ IF consensus[c] >= Thresh
       THEN /\ pc' = [pc EXCEPT ![c] = "held"]
            /\ refresh' = [refresh EXCEPT ![c] = "sleep"]
            /\ UNCHANGED unlocking
       ELSE /\ pc' = [pc EXCEPT ![c] = "unlock"]
            /\ unlocking' = [unlocking EXCEPT ![c] = mask[c] \ {lead[c]}]
            /\ UNCHANGED refresh
  /\ UNCHANGED <<lead, mask, consensus, acquired, umask, waiting, rounds, sending,
                 fenced, ctxDone, holder, faultVars>>

-----------------------------------------------------------------------------
(* lockBlobber.  A pending answer, and a rate-limited one that is not the  *)
(* last of the three tries, is a retry: no step of the model.              *)

\* The context lockBlobber watches: methodCtx for the lead, ctx otherwise.
LockCtxDone(c) == ctxDone[c] \/ pc[c] = "leadExpired"

\* Only the lockBlobber calls made by Lock get its Consensus object; the
\* refresh goroutine counts on an object nobody reads.
ConsensusDone(c, b) ==
  IF pc[c] \in Acquiring
    THEN /\ consensus' = [consensus EXCEPT ![c] = @ + 1]
         /\ acquired' = [acquired EXCEPT ![c] = @ \cup {b}]
    ELSE UNCHANGED <<consensus, acquired>>

\* External: the blobber gives its lock to a connection.
Grantable(c, b) == holder[b] \in {NoConn, c}

\* A variant of a refresh that keeps the token of the blobber.
GrantedWithToken(c, b) ==
  /\ b \in sending[c]
  /\ Grantable(c, b)
  /\ holder' = [holder EXCEPT ![b] = c]
  /\ sending' = [sending EXCEPT ![c] = @ \ {b}]
  /\ fenced' = [fenced EXCEPT ![c] = IF refresh[c] = "round" THEN @ \cup {b} ELSE @]
  /\ ConsensusDone(c, b)
  /\ UNCHANGED <<pc, lead, mask, umask, ctxDone, faultVars, unlocking, refreshVars>>

\* WMLockStatusOK.
LockGranted(c, b) ==
  /\ b \in sending[c]
  /\ Grantable(c, b)
  /\ holder' = [holder EXCEPT ![b] = c]
  /\ sending' = [sending EXCEPT ![c] = @ \ {b}]
  /\ ConsensusDone(c, b)
  /\ UNCHANGED <<pc, lead, mask, umask, ctxDone, faultVars, unlockVars, refreshVars>>

\* Any error drops the blobber from the mask: the request failed, or it was
\* executed and its answer was lost, or the context ended under it.
LockFailed(c, b) ==
  /\ b \in sending[c]
  /\ \/ /\ Fault({"refuse"})
        /\ UNCHANGED holder
     \/ /\ LockCtxDone(c)
        /\ UNCHANGED <<holder, budget>>
     \/ /\ Fault({"lost"})
        /\ Grantable(c, b)
        /\ holder' = [holder EXCEPT ![b] = c]
  /\ mask' = [mask EXCEPT ![c] = @ \ {b}]
  /\ failed' = [failed EXCEPT ![c] = @ \cup {b}]
  /\ sending' = [sending EXCEPT ![c] = @ \ {b}]
  /\ UNCHANGED <<callVars, ctxDone, unlockVars, refreshVars>>

\* The goroutine returns without an error and without the lock: three answers
\* were rate limited, or the context was done between two tries.  The blobber
\* stays in the mask.
LockGivenUp(c, b) ==
  /\ b \in sending[c]
  /\ \/ Fault({"limit"})
     \/ LockCtxDone(c) /\ UNCHANGED budget
  /\ sending' = [sending EXCEPT ![c] = @ \ {b}]
  /\ UNCHANGED <<callVars, mask, ctxDone, holder, failed, unlockVars, refreshVars>>

-----------------------------------------------------------------------------
(* The refresh goroutine.                                                  *)

\* The 30 second timer fires: the goroutine ends with the context, or starts
\* a lockBlobber goroutine for every blobber of the mask.  Its first look at
\* the context is part of this step: one that finds the context done a moment
\* later does what a goroutine does that gets its token and then finds it done.
RefreshTick(c) ==
  /\ refresh[c] = "sleep"
  /\ IF ctxDone[c]
       THEN /\ refresh' = [refresh EXCEPT ![c] = "stopped"]
            /\ UNCHANGED <<waiting, rounds>>
       ELSE /\ rounds[c] < MaxRefresh[c]
            /\ rounds' = [rounds EXCEPT ![c] = @ + 1]
            /\ refresh' = [refresh EXCEPT ![c] = "round"]
            /\ waiting' = [waiting EXCEPT ![c] = mask[c]]
  /\ UNCHANGED <<callVars, mask, sending, ctxDone, holder, faultVars, unlockVars>>

\* lockedBlobbers[b.ID] <- struct{}{} goes through: the slot is free.
TakeToken(c, b) ==
  /\ b \in waiting[c]
  /\ b \notin fenced[c]
  /\ waiting' = [waiting EXCEPT ![c] = @ \ {b}]
  /\ sending' = [sending EXCEPT ![c] = @ \cup {b}]
  /\ UNCHANGED <<callVars, mask, refresh, rounds, ctxDone, holder, faultVars, unlockVars>>

RefreshRoundEnds(c) ==
  /\ refresh[c] = "round"
  /\ waiting[c] = {} /\ sending[c] = {}
  /\ refresh' = [refresh EXCEPT ![c] = "sleep"]
  /\ UNCHANGED <<callVars, mask, waiting, rounds, sending, ctxDone, holder,
                 faultVars, unlockVars>>

-----------------------------------------------------------------------------
(* The caller's use of the lock, and Unlock.                               *)

\* The caller unlocks at once when its status check fails: Unlock gets the
\* mask as it is then.
ReleaseEarly(c) ==
  /\ pc[c] = "held"
  /\ pc' = [pc EXCEPT ![c] = "unlock"]
  /\ unlocking' = [unlocking EXCEPT ![c] = mask[c] \ {lead[c]}]
  /\ UNCHANGED <<lead, mask, consensus, acquired, umask, sending, fenced,
                 ctxDone, holder, faultVars, refreshVars>>

\* defer writeMarkerMutex.Unlock(ctx, mask, ...): the mask is evaluated here;
\* the caller then drops the blobbers with an old version from its mask.
DeferUnlock(c) ==
  /\ pc[c] = "held"
  /\ umask' = [umask EXCEPT ![c] = mask[c]]
  /\ \E m \in SUBSET mask[c] : mask' = [mask EXCEPT ![c] = m]
  /\ pc' = [pc EXCEPT ![c] = "work"]
  /\ UNCHANGED <<lead, consensus, acquired, sending, ctxDone, holder, faultVars,
                 unlockVars, refreshVars>>

\* The caller returns: Unlock starts with the blobbers other than the lead.
Unlock(c) ==
  /\ pc[c] = "work"
  /\ pc' = [pc EXCEPT ![c] = "unlock"]
  /\ unlocking' = [unlocking EXCEPT ![c] = umask[c] \ {lead[c]}]
  /\ UNCHANGED <<lead, mask, consensus, acquired, umask, sending, fenced,
                 ctxDone, holder, faultVars, refreshVars>>

\* A variant that puts the token back, as lockBlobber does.
UnlockWithoutFence(c, b) ==
  /\ b \in unlocking[c]
  /\ b \notin sending[c]
  /\ unlocking' = [unlocking EXCEPT ![c] = @ \ {b}]
  /\ holder' = [holder EXCEPT ![b] = IF @ = c THEN NoConn ELSE @]
  /\ UNCHANGED <<callVars, mask, sending, fenced, ctxDone, faultVars, refreshVars>>

\* UnlockBlobber: it takes the blobber's token once no lockBlobber has it, and
\* never puts it back; then the request releases the lock, or fails, as it
\* does when the context is already done.  No other goroutine looks at what
\* changes between the two, so they are one step.
UnlockBlobber(c, b) ==
  /\ b \in unlocking[c]
  /\ b \notin sending[c] /\ b \notin fenced[c]
  /\ fenced' = [fenced EXCEPT ![c] = @ \cup {b}]
  /\ unlocking' = [unlocking EXCEPT ![c] = @ \ {b}]
  /\ \/ /\ ~ctxDone[c]
        /\ holder' = [holder EXCEPT ![b] = IF @ = c THEN NoConn ELSE @]
        /\ UNCHANGED <<failed, budget>>
     \/ /\ \/ Fault({"refuse", "limit"})
           \/ ctxDone[c] /\ UNCHANGED budget
        /\ failed' = [failed EXCEPT ![c] = @ \cup {b}]
        /\ UNCHANGED holder
  /\ UNCHANGED <<callVars, mask, sending, ctxDone, refreshVars>>

\* wg.Wait: the others are unlocked; now the lead blobber, whatever the mask.
UnlockLead(c) ==
  /\ pc[c] = "unlock"
  /\ unlocking[c] = {}
  /\ pc' = [pc EXCEPT ![c] = "unlockLead"]
  /\ unlocking' = [unlocking EXCEPT ![c] = {lead[c]}]
  /\ UNCHANGED <<lead, mask, consensus, acquired, umask, sending, fenced,
                 ctxDone, holder, faultVars, refreshVars>>

UnlockReturns(c) ==
  /\ pc[c] = "unlockLead"
  /\ unlocking[c] = {}
  /\ pc' = [pc EXCEPT ![c] = "unlocked"]
  /\ UNCHANGED <<lead, mask, consensus, acquired, umask, sending, ctxDone,
                 holder, faultVars, unlockVars, refreshVars>>

\* The caller's last deferred call, ctxCncl(nil).
CancelContext(c) ==
  /\ pc[c] = "unlocked"
  /\ pc' = [pc EXCEPT ![c] = "done"]
  /\ ctxDone' = [ctxDone EXCEPT ![c] = TRUE]
  /\ UNCHANGED <<lead, mask, consensus, acquired, umask, sending, holder,
                 faultVars, unlockVars, refreshVars>>

-----------------------------------------------------------------------------
(* The environment.                                                        *)

\* CancelUpload, PauseUpload or the allocation's own context.
Cancel(c) ==
  /\ Fault({"cancel"})
  /\ pc[c] \notin {"idle", "done"}
  /\ ~ctxDone[c]
  /\ ctxDone' = [ctxDone EXCEPT ![c] = TRUE]
  /\ UNCHANGED <<callVars, mask, sending, holder, failed, unlockVars, refreshVars>>

\* The client process dies; only the blobbers' lock tables remain.
Crash(c) ==
  /\ Fault({"crash"})
  /\ pc[c] \notin {"idle", "done"}
  /\ pc' = [pc EXCEPT ![c] = "done"]
  /\ waiting' = [waiting EXCEPT ![c] = {}]
  /\ sending' = [sending EXCEPT ![c] = {}]
  /\ unlocking' = [unlocking EXCEPT ![c] = {}]
  /\ refresh' = [refresh EXCEPT ![c] = "stopped"]
  /\ ctxDone' = [ctxDone EXCEPT ![c] = TRUE]
  /\ failed' = [failed EXCEPT ![c] = Blobbers]
  /\ UNCHANGED <<lead, mask, consensus, acquired, fenced, umask, rounds, holder>>

\* A live connection keeps a lock while it acquires the others, and afterwards
\* as long as its refresh goroutine visits the blobber.
KeptAlive(c, b) ==
  /\ ~ctxDone[c]
  /\ \/ pc[c] \in Acquiring /\ b \in mask[c] \cup {lead[c]}
     \/ pc[c] \in InSection /\ b \in mask[c]

\* External: the blobber forgets a lock nobody refreshes.
Lapse(b) ==
  /\ holder[b] # NoConn
  /\ ~KeptAlive(holder[b], b)
  /\ holder' = [holder EXCEPT ![b] = NoConn]
  /\ UNCHANGED <<callVars, mask, sending, ctxDone, faultVars, unlockVars, refreshVars>>

LockSteps(c) ==
  \/ TryLead(c) \/ LeadAnswered(c) \/ OthersAnswered(c)
  \/ \E b \in Blobbers : LockGranted(c, b) \/ LockFailed(c, b) \/ LockGivenUp(c, b)

RefreshSteps(c) ==
  \/ RefreshTick(c) \/ RefreshRoundEnds(c)
  \/ \E b \in Blobbers : TakeToken(c, b)

UnlockSteps(c) ==
  \/ ReleaseEarly(c) \/ DeferUnlock(c) \/ Unlock(c)
  \/ UnlockLead(c) \/ UnlockReturns(c) \/ CancelContext(c)
  \/ \E b \in Blobbers : UnlockBlobber(c, b)

Next ==
  \/ \E c \in Conns : \/ Lock(c) \/ LeadTimeout(c) \/ LockSteps(c)
                      \/ RefreshSteps(c) \/ UnlockSteps(c)
                      \/ Cancel(c) \/ Crash(c)
  \/ \E b \in Blobbers : Lapse(b)

Spec == Init /\ [][Next]_vars

\* Goroutines run, requests are answered, the timer fires, the holder of the
\* lock returns, and the blobber's clock advances.  The senders on a Go channel
\* are served in turn, so UnlockBlobber gets a token that a refresh keeps taking
\* and giving back.  Nobody has to call Lock, and no fault has to happen.
Fairness ==
  /\ \A c \in Conns : /\ WF_vars(LockSteps(c))
                      /\ WF_vars(UnlockSteps(c))
                      /\ WF_vars(RefreshSteps(c))
                      /\ \A b \in Blobbers : WF_vars(LockGranted(c, b))
                      /\ \A b \in Blobbers : SF_vars(UnlockBlobber(c, b))
  /\ \A b \in Blobbers : WF_vars(Lapse(b))

FairSpec == Spec /\ Fairness

-----------------------------------------------------------------------------
(* What the lock promises.                                                 *)

\* The blobbers granted to c that c still keeps alive.
Firm(c) == {b \in acquired[c] : KeptAlive(c, b)}

\* c is between the return of Lock and Unlock, and still refreshes all the
\* locks it counted for its consensus, or a threshold of them.
Secure(c) ==
  /\ pc[c] \in InSection
  /\ Firm(c) = acquired[c] \/ Cardinality(Firm(c)) + AddConsensus >= Thresh

\* blobbers[wmMu.leadBlobberIndex], in Lock and in Unlock, is never out of
\* range: a Lock that ran out of candidates does not reach its own Unlock.
LeadInRange ==
  \A c \in Conns : pc[c] \notin {"unlocked", "done"} => lead[c] < N

\* Every lock Lock counted for its consensus, and that its connection keeps
\* alive, is held at the blobber; no blobber is counted twice, by the lead
\* phase and by the goroutines of the others; and Lock returns only with a
\* threshold of them.
LockQuorum ==
  \A c \in Conns :
    /\ \A b \in acquired[c] : KeptAlive(c, b) => holder[b] = c
    /\ pc[c] \in Acquiring \cup InSection =>
         consensus[c] = AddConsensus + Cardinality(acquired[c])
    /\ pc[c] \in InSection => consensus[c] >= Thresh

\* Two connections are never both between Lock and Unlock with the locks they
\* counted still alive, whichever blobbers failed for each of them and
\* whichever lead blobber each of them ended with.
MutualExclusion ==
  \A c, d \in Conns : c # d => ~(Secure(c) /\ Secure(d))

\* When a connection is finished, a blobber still locked by it is one that a
\* request of the connection failed on: Unlock leaves no lock behind that it
\* could have released, and no refresh takes a lock again after Unlock.
NoOrphanLock ==
  \A c \in Conns : pc[c] = "done" =>
    {b \in Blobbers : holder[b] = c} \subseteq failed[c]

\* A Lock that goes on until its requests are answered.
Asking(c) == pc[c] \in Acquiring /\ ~ctxDone[c]
WaitsFor(c, d) == Asking(c) /\ Asking(d) /\ \E b \in sending[c] : b \in acquired[d]

\* Why the lead blobber is taken first: a Lock that has asked for a lock which
\* another Lock with the same lead blobber has counted has itself counted nothing
\* yet, so no circle of waiting calls, of any length, has one lead blobber only.
NoHoldAndWait ==
  \A c, d \in Conns : c # d /\ WaitsFor(c, d) /\ lead[c] = lead[d] => acquired[c] = {}

\* Two connections have taken different lead blobbers and now wait for the
\* others: each may have what the other one waits for, a pending answer is
\* retried without end, and the context of this phase has no time-out.
LeadsDiffer ==
  \E c, d \in Conns : pc[c] = "others" /\ pc[d] = "others" /\ lead[c] # lead[d]

InCall(c) == pc[c] \in Acquiring \cup {"unlock", "unlockLead"}

\* Every call of Lock and of Unlock returns, whatever is lost or crashes meanwhile.
\* Unlock does not wait for ever for a token that a refresh holds, nor Lock for a
\* lock that is never released; only when connections that did not agree on the
\* lead blobber meet in Lock (and not in Unlock) may they wait for each other.
CallsReturn ==
  \A c \in Conns : InCall(c) ~> ~InCall(c) \/ (LeadsDiffer /\ pc[c] = "others")
=============================================================================
