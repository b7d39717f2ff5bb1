------------------------- MODULE TransactionsProofs -------------------------
(***************************************************************************)
(* What a client's transactions promise for any number of transactions,    *)
(* miners and sharders: the nonces are consecutive as long as nothing      *)
(* disturbs the cache, and what Verify reports is true and stays true.     *)
(***************************************************************************)
EXTENDS Transactions, FiniteSetTheorems, TLAPS

Started == {"waiting", "evicting", "submitted", "fallback", "chain", "silent", "over"}

\* A transaction is with a miner, or on its way there, only after it was signed; a
\* post fails or is answered once.
PostInv ==
  \A t \in Txns :
    /\ failed[t] + posts[t] <= MinSubmit
    /\ pc[t] \notin Started => posts[t] = 0 /\ failed[t] = 0 /\ t \notin pool

\* A transaction is on the chain at most once, a miner took it, and it was not yet
\* expired when its block was made.
ChainInv ==
  \A k \in DOMAIN chain : chain[k] # Empty =>
    /\ chain[k] \in pool
    /\ k <= created[chain[k]] + TTL
    /\ \A l \in DOMAIN chain : chain[l] = chain[k] => l = k

\* The verdicts on a transaction that is on the chain.
Found == Statuses \cup {"unreadable"}

\* Where Verify is, and what it has found.
VerifyInv ==
  \A t \in Txns :
    /\ pc[t] = "chain" => \E k \in DOMAIN chain : chain[k] = t
    /\ verified[t] # "unknown" => pc[t] = "over"
    /\ verified[t] \in Found =>
         \E k \in DOMAIN chain : chain[k] = t /\ k + ChainLength - 1 <= Len(chain)
    /\ verified[t] = "expired" => /\ created[t] + TTL < Len(chain)
                                  /\ \A k \in DOMAIN chain : chain[k] # t

IndInv == TypeOK /\ PostInv /\ ChainInv /\ VerifyInv

\* The cache holds the last nonce that was given out.
CacheInv == ~disturbed => cache = IF Numbered = {} THEN Absent ELSE Cardinality(Numbered)

NonceInv == CacheInv /\ Consecutive

-----------------------------------------------------------------------------
(* The chain and the operators on it.                                      *)

\* The next lemma is about Max and Min of two numbers.
LEMMA OfTwo ==
  ASSUME NEW a \in Int, NEW b \in Int
  PROVE  /\ Max({a, b}) \in {a, b} /\ Max({a, b}) >= a /\ Max({a, b}) >= b
         /\ Min({a, b}) \in {a, b} /\ Min({a, b}) <= a /\ Min({a, b}) <= b
<1>1. \E x \in {a, b} : \A y \in {a, b} : x >= y
  <2>1. CASE a >= b
    BY <2>1
  <2>2. CASE b >= a
    BY <2>2
  <2> QED
    BY <2>1, <2>2
<1>2. Max({a, b}) \in {a, b} /\ \A y \in {a, b} : Max({a, b}) >= y
  BY <1>1 DEF Max
<1>3. \E x \in {a, b} : \A y \in {a, b} : x =< y
  <2>1. CASE a =< b
    BY <2>1
  <2>2. CASE b =< a
    BY <2>2
  <2> QED
    BY <2>1, <2>2
<1>4. Min({a, b}) \in {a, b} /\ \A y \in {a, b} : Min({a, b}) =< y
  BY <1>3 DEF Min
<1> QED
  BY <1>2, <1>4

\* How many blocks validateChain waits for.
LEMMA Confirmations ==
  /\ Max({1, ChainLength - 1}) \in Nat /\ Max({1, ChainLength - 1}) >= 1
  /\ Max({1, ChainLength - 1}) >= ChainLength - 1
<1> DEFINE m == ChainLength - 1
<1>1. m \in Int
  BY SizesAssumption
<1> HIDE DEF m
<1>2. Max({1, m}) \in {1, m} /\ Max({1, m}) >= 1 /\ Max({1, m}) >= m
  BY <1>1, OfTwo
<1>3. Max({1, m}) \in Nat
  BY <1>1, <1>2
<1> QED
  BY <1>2, <1>3 DEF m

\* The state nonce is a number, and it is 0 exactly when no block has a transaction.
LEMMA StateNonceType ==
  ASSUME NEW c \in Seq(Txns \cup {Empty})
  PROVE  /\ IsFiniteSet({k \in DOMAIN c : c[k] # Empty})
         /\ StateNonce(c) \in Nat
         /\ StateNonce(c) = 0 <=> \A k \in DOMAIN c : c[k] = Empty
<1> DEFINE ks == {k \in DOMAIN c : c[k] # Empty}
<1>1. Len(c) \in Nat /\ DOMAIN c = 1 .. Len(c)
  OBVIOUS
<1>2. IsFiniteSet(1 .. Len(c))
  BY <1>1, FS_Interval
<1>3. IsFiniteSet(ks)
  BY <1>1, <1>2, FS_Subset, Zenon
<1>4. Cardinality(ks) \in Nat /\ (Cardinality(ks) = 0 <=> ks = {})
  BY <1>3, FS_CardinalityType, FS_EmptySet
<1> QED
  BY <1>3, <1>4 DEF StateNonce

\* A block with a transaction adds one to the state nonce, an empty one nothing.
LEMMA StateNonceAppend ==
  ASSUME NEW c \in Seq(Txns \cup {Empty}), NEW x \in Txns \cup {Empty}
  PROVE  StateNonce(Append(c, x)) = IF x = Empty THEN StateNonce(c) ELSE StateNonce(c) + 1
<1> DEFINE d == Append(c, x)
           ks == {k \in DOMAIN c : c[k] # Empty}
           ls == {k \in DOMAIN d : d[k] # Empty}
<1>1. Len(c) \in Nat /\ DOMAIN c = 1 .. Len(c)
  OBVIOUS
<1>2. DOMAIN d = 1 .. Len(c) + 1 /\ d[Len(c) + 1] = x /\ \A k \in 1 .. Len(c) : d[k] = c[k]
  BY <1>1
<1>3. IsFiniteSet(ks)
  BY StateNonceType
<1>4. Len(c) + 1 \notin ks
  BY <1>1
<1> HIDE DEF d
<1>5. CASE x = Empty
  <2>1. ls = ks
    BY <1>1, <1>2, <1>5
  <2> QED
    BY <2>1, <1>5 DEF StateNonce, d
<1>6. CASE x # Empty
  <2>1. ls = ks \cup {Len(c) + 1}
    BY <1>1, <1>2, <1>6
  <2>2. Cardinality(ls) = Cardinality(ks) + 1
    BY <2>1, <1>3, <1>4, FS_AddElement
  <2> QED
    BY <2>2, <1>6 DEF StateNonce, d
<1> QED
  BY <1>5, <1>6

\* What the sharders tell is a nonce, and it is 0 if no block has a transaction.
LEMMA SharderNoncesType ==
  ASSUME TypeOK, NEW n \in SharderNonces
  PROVE  n \in Nat /\ (StateNonce(chain) = 0 => n = 0)
<1> DEFINE known(s) == SubSeq(chain, 1, height[s])
<1>1. PICK s \in Sharders : n = StateNonce(known(s))
  BY DEF SharderNonces, Plurality
<1>2. Len(chain) \in Nat /\ DOMAIN chain = 1 .. Len(chain) /\ height[s] \in 0 .. Len(chain)
      /\ chain \in Seq(Txns \cup {Empty})
  BY DEF TypeOK
<1>3. \A k \in 1 .. height[s] : chain[k] \in Txns \cup {Empty}
  BY <1>2
<1>4. /\ known(s) \in Seq(Txns \cup {Empty})
      /\ Len(known(s)) = height[s]
      /\ \A k \in 1 .. height[s] : known(s)[k] = chain[k]
  BY <1>2, <1>3
<1>5. DOMAIN known(s) = 1 .. height[s]
  BY <1>4
<1> HIDE DEF known
<1>6. n \in Nat
  BY <1>1, <1>4, StateNonceType
<1>7. ASSUME StateNonce(chain) = 0 PROVE n = 0
  <2>1. \A k \in DOMAIN chain : chain[k] = Empty
    BY <1>2, <1>7, StateNonceType
  <2>2. \A k \in DOMAIN known(s) : known(s)[k] = Empty
    BY <2>1, <1>2, <1>4, <1>5
  <2> QED
    BY <2>2, <1>1, <1>4, StateNonceType
<1> QED
  BY <1>6, <1>7

-----------------------------------------------------------------------------
(* The inductive invariant.                                                *)

\* No transaction has been numbered or posted at first.
LEMMA InitIndInv == Init => IndInv /\ NonceInv
<1> SUFFICES ASSUME Init PROVE IndInv /\ NonceInv
  OBVIOUS
<1> USE DEF Init
<1>a. MinSubmit \in Nat /\ MaxRound \in Nat /\ MaxFaults \in Nat
  BY SizesAssumption, BoundsAssumption
<1>b. chain \in Seq(Txns \cup {Empty}) /\ DOMAIN chain = {} /\ Len(chain) = 0
  OBVIOUS
<1>1. TypeOK
  <2>1. height \in [Sharders -> 0 .. Len(chain)] /\ created \in [Txns -> Round]
    BY <1>a, <1>b DEF Round
  <2>2. /\ pc \in [Txns -> {"new", "signing"} \cup Started]
        /\ nonce \in [Txns -> Nat]
        /\ posts \in [Txns -> 0 .. MinSubmit] /\ failed \in [Txns -> 0 .. MinSubmit]
        /\ signal \in [Txns -> {"none", "fail", "refused", "ok"}]
        /\ status \in [Txns -> {"unknown", "success", "error"}]
        /\ verified \in [Txns -> {"unknown"} \cup Verdicts]
    BY <1>a
  <2>3. cache = Absent /\ pool = {} /\ disturbed = FALSE /\ budget \in 0 .. MaxFaults
    BY <1>a
  <2> HIDE DEF Init
  <2> QED
    BY <1>b, <2>1, <2>2, <2>3 DEF TypeOK, Started
<1>2. PostInv /\ ChainInv /\ VerifyInv
  BY SizesAssumption DEF PostInv, ChainInv, VerifyInv, Started, Found, Statuses
<1>3. Numbered = {}
  BY DEF Numbered
<1>4. StateNonce(chain) = 0
  BY <1>b, StateNonceType
<1>5. Cardinality({}) = 0
  BY FS_EmptySet
<1>6. NonceInv
  BY <1>3, <1>4, <1>5 DEF NonceInv, CacheInv, Consecutive
<1> QED
  BY <1>1, <1>2, <1>6 DEF IndInv

\* The block that Mine makes.
LEMMA MineEffect ==
  ASSUME TypeOK, Mine
  PROVE  \E x \in Txns \cup {Empty} :
           /\ chain' = Append(chain, x)
           /\ x = Empty \/ x \in Runnable
<1>1. Runnable \subseteq Txns
  BY DEF Runnable, TypeOK
<1> QED
  BY <1>1 DEF Mine

\* Every step keeps the types; a miner reports a post once.
LEMMA TypeStep == TypeOK /\ PostInv /\ [Next]_vars => TypeOK'
<1> SUFFICES ASSUME TypeOK, PostInv, [Next]_vars PROVE TypeOK'
  OBVIOUS
<1>0. MinSubmit \in Nat /\ MaxRound \in Nat /\ MaxFaults \in Nat
  BY SizesAssumption, BoundsAssumption
<1>a. Len(chain) \in Nat
  BY DEF TypeOK
<1>b. Len(chain) <= LastStart => Len(chain) \in Round
  <2>1. TTL \in Nat
    BY SizesAssumption
  <2> QED
    BY <1>0, <1>a, <2>1, Confirmations DEF LastStart, Round
<1>1. CASE Mine
  <2>1. PICK x \in Txns \cup {Empty} : chain' = Append(chain, x)
    BY <1>1, MineEffect
  <2>2. chain' \in Seq(Txns \cup {Empty}) /\ Len(chain') = Len(chain) + 1
    BY <2>1 DEF TypeOK
  <2>3. height' \in [Sharders -> 0 .. Len(chain')]
    BY <1>1, <2>2, <1>a DEF Mine, TypeOK
  <2> QED
    BY <1>1, <2>2, <2>3 DEF Mine, TypeOK, txnVars, submitVars
<1>2. ASSUME NEW s \in Sharders, CatchUp(s) PROVE TypeOK'
  BY <1>2, <1>a DEF CatchUp, TypeOK, txnVars, submitVars
<1>3. ASSUME NEW t \in Txns, SetNonce(t) PROVE TypeOK'
  <2>1. pc' = [pc EXCEPT ![t] = "signing"] /\ created' = [created EXCEPT ![t] = Len(chain)]
        /\ Len(chain) <= LastStart
    BY <1>3 DEF SetNonce
  <2>2. /\ nonce' \in [Txns -> Nat] /\ cache' \in {Absent} \cup Nat
        /\ disturbed' \in BOOLEAN /\ budget' \in 0 .. MaxFaults
    <3>1. CASE GetNextNonce(t)
      <4>1. PICK n \in IF cache = Absent THEN SharderNonces \cup {0} ELSE {cache} :
              /\ nonce' = [nonce EXCEPT ![t] = n + 1]
              /\ cache' = n + 1
              /\ IF cache = Absent /\ n \notin SharderNonces
                   THEN Spend("nonce") /\ disturbed' = TRUE
                   ELSE UNCHANGED <<budget, disturbed>>
        BY <3>1 DEF GetNextNonce
      <4>2. n \in Nat
        BY <4>1, SharderNoncesType DEF TypeOK
      <4>3. CASE cache = Absent /\ n \notin SharderNonces
        BY <4>1, <4>2, <4>3, <1>0 DEF TypeOK, Spend
      <4>4. CASE ~(cache = Absent /\ n \notin SharderNonces)
        BY <4>1, <4>2, <4>4 DEF TypeOK
      <4> QED
        BY <4>3, <4>4
    <3>2. CASE SetGiven(t)
      <4>1. Cardinality(Txns) \in Nat
        BY SizesAssumption, FS_CardinalityType
      <4> QED
        BY <3>2, <4>1, <1>0 DEF SetGiven, Spend, TypeOK
    <3> QED
      BY <1>3, <3>1, <3>2 DEF SetNonce
  <2>3. UNCHANGED <<posts, failed, signal, status, verified, chain, height, pool>>
    BY <1>3 DEF SetNonce, submitVars, chainVars
  <2> QED
    BY <2>1, <2>2, <2>3, <1>b DEF TypeOK
<1>4. ASSUME NEW t \in Txns, SignFails(t) PROVE TypeOK'
  <2>1. budget' \in 0 .. MaxFaults
    BY <1>4, <1>0 DEF SignFails, Spend, TypeOK
  <2>2. /\ pc' \in [Txns -> {"evicting", "over"} \cup {pc[u] : u \in Txns}]
        /\ status' \in [Txns -> {"unknown", "success", "error"}]
    BY <1>4 DEF SignFails, TypeOK
  <2> QED
    BY <1>4, <2>1, <2>2 DEF SignFails, TypeOK, chainVars
<1>5. ASSUME NEW t \in Txns, Sign(t) PROVE TypeOK'
  BY <1>5, <1>0 DEF Sign, TypeOK, chainVars
<1>6. ASSUME NEW t \in Txns, Complete(t) PROVE TypeOK'
  BY <1>6 DEF Complete, TypeOK, chainVars
<1>7. ASSUME NEW t \in Txns, Evict(t) PROVE TypeOK'
  BY <1>7 DEF Evict, TypeOK, submitVars, chainVars
<1>8. ASSUME NEW t \in Txns, FastConfirmation(t) PROVE TypeOK'
  BY <1>8 DEF FastConfirmation, TypeOK, submitVars, chainVars
<1>9. ASSUME NEW t \in Txns, ConsensusConfirmation(t) PROVE TypeOK'
  <2>1. budget' \in 0 .. MaxFaults
    BY <1>9, <1>0 DEF ConsensusConfirmation, Spend, TypeOK
  <2>2. \/ /\ \E where \in {"chain", "submitted"} : pc' = [pc EXCEPT ![t] = where]
           /\ UNCHANGED <<verified, cache, disturbed>>
        \/ \E verdict \in {"overdue", "expired"} : VerifyFailed(t, verdict)
    BY <1>9 DEF ConsensusConfirmation
  <2> QED
    BY <1>9, <2>1, <2>2 DEF ConsensusConfirmation, VerifyFailed, Verdicts, TypeOK, submitVars, chainVars
<1>10. ASSUME NEW t \in Txns, ValidateChain(t) PROVE TypeOK'
  <2>1. /\ \E on \in Verdicts : verified' = [verified EXCEPT ![t] = on]
        /\ pc' = [pc EXCEPT ![t] = "over"]
        /\ cache' \in {cache, Absent} /\ disturbed' \in BOOLEAN
    BY <1>10 DEF ValidateChain, VerifyFailed, Verdicts, Statuses, TypeOK
  <2>2. verified' \in [Txns -> {"unknown"} \cup Verdicts]
    BY <2>1 DEF TypeOK
  <2> QED
    BY <1>10, <2>1, <2>2 DEF ValidateChain, TypeOK, submitVars, chainVars
<1>11. ASSUME NEW t \in Txns, Post(t) PROVE TypeOK'
  <2>1. posts' = [posts EXCEPT ![t] = @ - 1] /\ posts[t] > 0
    BY <1>11 DEF Post, PostTaken, PostRefused, PostLost
  <2>2. posts' \in [Txns -> 0 .. MinSubmit]
    BY <2>1, <1>0 DEF TypeOK
  <2>3. failed[t] + 1 <= MinSubmit
    BY <2>1, <1>0 DEF PostInv, TypeOK
  <2>4. CASE PostTaken(t)
    BY <2>4, <2>2 DEF PostTaken, Tell, TypeOK, txnVars
  <2>5. ASSUME NEW how \in {"fail", "refused"}, Failure(t, how)
        PROVE  failed' \in [Txns -> 0 .. MinSubmit] /\ signal' \in [Txns -> {"none", "fail", "refused", "ok"}]
    <3>1. failed' = [failed EXCEPT ![t] = @ + 1]
      BY <2>5 DEF Failure
    <3>2. signal' = signal
            \/ signal' = [signal EXCEPT ![t] = IF signal[t] = "none" THEN how ELSE signal[t]]
      BY <2>5 DEF Failure, Tell
    <3>3. failed' \in [Txns -> 0 .. MinSubmit]
      BY <3>1, <2>3, <1>0 DEF TypeOK
    <3>4. signal \in [Txns -> {"none", "fail", "refused", "ok"}]
      BY DEF TypeOK
    <3> QED
      BY <2>5, <3>2, <3>3, <3>4
  <2>6. CASE PostRefused(t)
    <3>1. budget' \in 0 .. MaxFaults
      BY <2>6, <1>0 DEF PostRefused, Spend, TypeOK
    <3> QED
      BY <2>6, <2>5, <2>2, <3>1 DEF PostRefused, TypeOK, txnVars, chainVars
  <2>7. CASE PostLost(t)
    <3>1. budget' \in 0 .. MaxFaults /\ pool' \subseteq Txns
      BY <2>7, <1>0 DEF PostLost, Spend, TypeOK
    <3> QED
      BY <2>7, <2>5, <2>2, <3>1 DEF PostLost, TypeOK, txnVars
  <2> QED
    BY <1>11, <2>4, <2>6, <2>7 DEF Post
<1>12. ASSUME NEW t \in Txns, ConfirmationFails(t) PROVE TypeOK'
  <2>1. budget' \in 0 .. MaxFaults
    BY <1>12, <1>0 DEF ConfirmationFails, Spend, TypeOK
  <2> QED
    BY <1>12, <2>1 DEF ConfirmationFails, VerifyFailed, Verdicts, TypeOK, submitVars, chainVars
<1>13. CASE Done \/ UNCHANGED vars
  BY <1>13 DEF Done, vars, txnVars, submitVars, chainVars, TypeOK
<1> QED
  BY <1>1, <1>2, <1>3, <1>4, <1>5, <1>6, <1>7, <1>8, <1>9, <1>10, <1>11, <1>12, <1>13
  DEF Next, Chain, Run

\* Every post is of a signed transaction and is answered once.
LEMMA PostStep == TypeOK /\ PostInv /\ [Next]_vars => PostInv'
<1> SUFFICES ASSUME TypeOK, PostInv, [Next]_vars PROVE PostInv'
  OBVIOUS
<1>0. /\ MinSubmit \in Nat /\ pc \in [Txns -> {"new", "signing"} \cup Started]
      /\ posts \in [Txns -> 0 .. MinSubmit] /\ failed \in [Txns -> 0 .. MinSubmit]
  BY SizesAssumption DEF TypeOK, Started
<1>a. \A t \in Txns : /\ failed[t] + posts[t] <= MinSubmit
                      /\ pc[t] \notin Started => posts[t] = 0 /\ failed[t] = 0 /\ t \notin pool
  BY DEF PostInv
<1>1. CASE UNCHANGED <<posts, failed, pool>> /\ \A t \in Txns : pc[t] \in Started => pc'[t] \in Started
  BY <1>1, <1>a DEF PostInv
<1>2. CASE Chain
  BY <1>1, <1>2 DEF Chain, Mine, CatchUp, txnVars, submitVars
<1>3. ASSUME NEW t \in Txns, SetNonce(t) PROVE PostInv'
  <2>1. pc' = [pc EXCEPT ![t] = "signing"] /\ pc[t] = "new" /\ UNCHANGED <<posts, failed, pool>>
    BY <1>3 DEF SetNonce, submitVars, chainVars
  <2>2. \A u \in Txns : pc[u] \in Started => pc'[u] \in Started
    BY <2>1, <1>0 DEF Started
  <2> QED
    BY <1>1, <2>1, <2>2
<1>4. ASSUME NEW t \in Txns, SignFails(t) PROVE PostInv'
  <2>1. pc' \in {[pc EXCEPT ![t] = "evicting"], [pc EXCEPT ![t] = "over"]} /\ UNCHANGED <<posts, failed, pool>>
    BY <1>4 DEF SignFails, chainVars
  <2>2. \A u \in Txns : pc[u] \in Started => pc'[u] \in Started
    BY <2>1, <1>0 DEF Started
  <2> QED
    BY <1>1, <2>1, <2>2
<1>5. ASSUME NEW t \in Txns, Sign(t) PROVE PostInv'
  <2>1. /\ pc[t] = "signing" /\ pc' = [pc EXCEPT ![t] = "waiting"]
        /\ posts' = [posts EXCEPT ![t] = MinSubmit] /\ UNCHANGED <<failed, pool>>
    BY <1>5 DEF Sign, chainVars
  <2>2. failed[t] = 0 /\ pc'[t] \in Started
    BY <2>1, <1>0, <1>a DEF Started
  <2>3. \A u \in Txns \ {t} : pc'[u] = pc[u] /\ posts'[u] = posts[u]
    BY <2>1, <1>0
  <2> QED
    BY <2>1, <2>2, <2>3, <1>0, <1>a DEF PostInv
<1>6. ASSUME NEW t \in Txns,
             \/ Complete(t) \/ Evict(t) \/ FastConfirmation(t) \/ ConsensusConfirmation(t)
             \/ ValidateChain(t) \/ ConfirmationFails(t)
      PROVE  PostInv'
  <2>1. (\E where \in Started : pc' = [pc EXCEPT ![t] = where])
    BY <1>6 DEF Complete, Evict, FastConfirmation, ConsensusConfirmation, ValidateChain,
                ConfirmationFails, VerifyFailed, Started
  <2>2. UNCHANGED <<posts, failed, pool>>
    BY <1>6 DEF Complete, Evict, FastConfirmation, ConsensusConfirmation, ValidateChain,
                ConfirmationFails, submitVars, chainVars
  <2>3. \A u \in Txns : pc[u] \in Started => pc'[u] \in Started
    BY <2>1, <1>0
  <2> QED
    BY <1>1, <2>2, <2>3
<1>7. ASSUME NEW t \in Txns, Post(t) PROVE PostInv'
  <2>1. /\ posts' = [posts EXCEPT ![t] = @ - 1] /\ posts[t] > 0 /\ UNCHANGED pc
        /\ pool' \subseteq pool \cup {t}
    BY <1>7 DEF Post, PostTaken, PostRefused, PostLost, txnVars, chainVars
  <2>2. failed' = failed \/ failed' = [failed EXCEPT ![t] = @ + 1]
    BY <1>7 DEF Post, PostTaken, PostRefused, PostLost, Failure
  <2>3. pc[t] \in Started
    BY <2>1, <1>0, <1>a
  <2>4. failed'[t] + posts'[t] <= MinSubmit
    BY <2>1, <2>2, <1>0, <1>a
  <2>5. \A u \in Txns \ {t} : failed'[u] = failed[u] /\ posts'[u] = posts[u]
    BY <2>1, <2>2, <1>0
  <2> QED
    BY <2>1, <2>3, <2>4, <2>5, <1>0, <1>a DEF PostInv
<1>8. CASE Done \/ UNCHANGED vars
  BY <1>1, <1>8 DEF Done, vars, txnVars, submitVars, chainVars
<1> QED
  BY <1>2, <1>3, <1>4, <1>5, <1>6, <1>7, <1>8 DEF Next, Run

\* What a step of a transaction leaves alone: the chain, and when the transactions
\* that have a nonce were made.
LEMMA TxnEffect ==
  ASSUME TypeOK, NEW t \in Txns, SetNonce(t) \/ SignFails(t) \/ Run(t) \/ Post(t) \/ ConfirmationFails(t)
  PROVE  /\ chain' = chain /\ pool \subseteq pool'
         /\ \A u \in Txns : pc[u] # "new" => created'[u] = created[u]
<1>1. CASE SetNonce(t)
  BY <1>1 DEF SetNonce, chainVars, TypeOK
<1>2. CASE SignFails(t) \/ Run(t) \/ ConfirmationFails(t)
  BY <1>2 DEF SignFails, Run, Sign, Complete, Evict, FastConfirmation, ConsensusConfirmation,
              ValidateChain, ConfirmationFails, chainVars
<1>3. CASE Post(t)
  BY <1>3 DEF Post, PostTaken, PostRefused, PostLost, txnVars, chainVars
<1> QED
  BY <1>1, <1>2, <1>3

\* A block takes a transaction that was posted, is new and has not expired.
LEMMA ChainStep == TypeOK /\ PostInv /\ ChainInv /\ [Next]_vars => ChainInv'
<1> SUFFICES ASSUME TypeOK, PostInv, ChainInv, [Next]_vars PROVE ChainInv'
  OBVIOUS
<1>0. /\ chain \in Seq(Txns \cup {Empty}) /\ Len(chain) \in Nat /\ DOMAIN chain = 1 .. Len(chain)
      /\ TTL \in Nat /\ created \in [Txns -> Nat] /\ pool \subseteq Txns
  BY SizesAssumption, BoundsAssumption DEF TypeOK, Round
<1>a. \A k \in DOMAIN chain : chain[k] # Empty =>
        /\ chain[k] \in pool /\ chain[k] \in Txns /\ pc[chain[k]] # "new"
        /\ k <= created[chain[k]] + TTL
        /\ \A l \in DOMAIN chain : chain[l] = chain[k] => l = k
  BY <1>0 DEF ChainInv, PostInv, Started
<1>1. CASE Mine
  <2>1. PICK x \in Txns \cup {Empty} : chain' = Append(chain, x) /\ (x = Empty \/ x \in Runnable)
    BY <1>1, MineEffect
  <2>2. UNCHANGED <<pool, created>>
    BY <1>1 DEF Mine, txnVars
  <2>3. DOMAIN chain' = 1 .. Len(chain) + 1 /\ chain'[Len(chain) + 1] = x
        /\ \A k \in DOMAIN chain : chain'[k] = chain[k]
    BY <2>1, <1>0
  <2>4. x # Empty => x \in pool /\ Len(chain) + 1 <= created[x] + TTL /\ \A k \in DOMAIN chain : chain[k] # x
    BY <2>1 DEF Runnable, ToSet
  <2>5. \A k \in DOMAIN chain' : k \in DOMAIN chain \/ k = Len(chain) + 1
    BY <1>0, <2>3
  <2>6. ASSUME NEW k \in DOMAIN chain', chain'[k] # Empty
        PROVE  /\ chain'[k] \in pool' /\ k <= created'[chain'[k]] + TTL
               /\ \A l \in DOMAIN chain' : chain'[l] = chain'[k] => l = k
    <3>1. CASE k = Len(chain) + 1
      BY <3>1, <2>2, <2>3, <2>4, <2>5, <2>6
    <3>2. CASE k \in DOMAIN chain
      BY <3>2, <1>a, <2>2, <2>3, <2>4, <2>5, <2>6
    <3> QED
      BY <3>1, <3>2, <2>5
  <2> QED
    BY <2>6 DEF ChainInv
<1>2. ASSUME NEW s \in Sharders, CatchUp(s) PROVE ChainInv'
  BY <1>2 DEF CatchUp, txnVars, ChainInv
<1>3. ASSUME NEW t \in Txns, SetNonce(t) \/ SignFails(t) \/ Run(t) \/ Post(t) \/ ConfirmationFails(t)
      PROVE  ChainInv'
  BY <1>3, <1>a, TxnEffect DEF ChainInv
<1>4. CASE Done \/ UNCHANGED vars
  BY <1>4 DEF Done, vars, txnVars, chainVars, ChainInv
<1> QED
  BY <1>1, <1>2, <1>3, <1>4 DEF Next, Chain

\* A sharder that tells a date past the time of a transaction and does not know it shows that
\* the transaction is not on the chain, and the chain is past that time too.
LEMMA ExpiredNotOnChain ==
  ASSUME TypeOK, ChainInv, NEW t \in Txns, NEW online \in SUBSET Sharders,
         NEW blank \in SUBSET online, NEW lfb \in LastFinalized(online, blank, t),
         lfb # NoDate, IsTransactionExpired(t, lfb)
  PROVE  created[t] + TTL < Len(chain) /\ \A k \in DOMAIN chain : chain[k] # t
<1>0. /\ chain \in Seq(Txns \cup {Empty}) /\ Len(chain) \in Nat /\ DOMAIN chain = 1 .. Len(chain)
      /\ TTL \in Nat /\ created[t] \in Nat /\ t # Empty
  BY SizesAssumption, BoundsAssumption, EmptyAssumption DEF TypeOK, Round
<1>1. PICK s \in Sharders : lfb = height[s] /\ ~Knows(s, t)
  <2> DEFINE told == [s \in Sharders |-> IF s \in blank THEN NoDate ELSE height[s]]
  <2>1. PICK s \in {u \in online : ~Knows(u, t)} : lfb = told[s]
    BY DEF LastFinalized, Plurality
  <2> QED
    BY <2>1
<1>2. height[s] \in 0 .. Len(chain)
  BY DEF TypeOK
<1>3. Min({lfb, Len(chain)}) <= lfb /\ Min({lfb, Len(chain)}) <= Len(chain)
      /\ Min({lfb, Len(chain)}) \in {lfb, Len(chain)}
  <2>1. lfb \in Int /\ Len(chain) \in Int
    BY <1>0, <1>1, <1>2
  <2> QED
    BY <2>1, OfTwo
<1>4. created[t] + TTL < lfb /\ created[t] + TTL < Len(chain)
  BY <1>0, <1>1, <1>2, <1>3 DEF IsTransactionExpired
<1>5. ASSUME NEW k \in DOMAIN chain, chain[k] = t PROVE FALSE
  <2>1. k <= created[t] + TTL
    BY <1>0, <1>5 DEF ChainInv
  <2>2. k \in 1 .. height[s]
    BY <2>1, <1>0, <1>1, <1>2, <1>4
  <2> QED
    BY <2>2, <1>1, <1>5 DEF Knows
<1> QED
  BY <1>4, <1>5

\* What Verify has found stays true while the chain grows.
LEMMA VerifyStep == TypeOK /\ PostInv /\ ChainInv /\ VerifyInv /\ [Next]_vars => VerifyInv'
<1> SUFFICES ASSUME TypeOK, PostInv, ChainInv, VerifyInv, [Next]_vars PROVE VerifyInv'
  OBVIOUS
<1> DEFINE On(t, c) == \E k \in DOMAIN c : c[k] = t
           Deep(t, c) == \E k \in DOMAIN c : c[k] = t /\ k + ChainLength - 1 <= Len(c)
           Part(p, v, e, c, t) == /\ p = "chain" => On(t, c)
                                  /\ v # "unknown" => p = "over"
                                  /\ v \in Found => Deep(t, c)
                                  /\ v = "expired" => e + TTL < Len(c) /\ ~On(t, c)
<1>0. /\ chain \in Seq(Txns \cup {Empty}) /\ Len(chain) \in Nat /\ DOMAIN chain = 1 .. Len(chain)
      /\ TTL \in Nat /\ created \in [Txns -> Nat] /\ height \in [Sharders -> 0 .. Len(chain)]
      /\ verified \in [Txns -> {"unknown"} \cup Verdicts] /\ DOMAIN pc = Txns
      /\ ChainLength \in Nat
  BY SizesAssumption, BoundsAssumption DEF TypeOK, Round
<1>a. \A t \in Txns : Part(pc[t], verified[t], created[t], chain, t)
  BY DEF VerifyInv
<1>b. SUFFICES \A t \in Txns : Part(pc'[t], verified'[t], created'[t], chain', t)
  BY DEF VerifyInv
<1> USE EmptyAssumption
<1>1. CASE Mine
  <2>1. PICK x \in Txns \cup {Empty} : chain' = Append(chain, x) /\ (x = Empty \/ x \in Runnable)
    BY <1>1, MineEffect
  <2>2. UNCHANGED <<pc, verified, created>>
    BY <1>1 DEF Mine, txnVars
  <2>3. DOMAIN chain' = 1 .. Len(chain) + 1 /\ chain'[Len(chain) + 1] = x
        /\ Len(chain') = Len(chain) + 1
        /\ \A k \in DOMAIN chain : chain'[k] = chain[k]
    BY <2>1, <1>0
  <2>4. x # Empty => Len(chain) + 1 <= created[x] + TTL
    BY <2>1 DEF Runnable
  <2>5. \A k \in DOMAIN chain : k \in DOMAIN chain' /\ k \in Nat
    BY <1>0, <2>3
  <2>6. \A k \in DOMAIN chain' : k \in DOMAIN chain \/ k = Len(chain) + 1
    BY <1>0, <2>3
  <2>7. ASSUME NEW t \in Txns PROVE Part(pc[t], verified[t], created[t], chain', t)
    <3>1. On(t, chain) => On(t, chain')
      BY <2>3, <2>5
    <3>2. Deep(t, chain) => Deep(t, chain')
      BY <2>3, <2>5, <1>0
    <3>3. created[t] + TTL < Len(chain) /\ ~On(t, chain) => created[t] + TTL < Len(chain') /\ ~On(t, chain')
      BY <2>3, <2>4, <2>6, <1>0
    <3> HIDE DEF On, Deep
    <3> QED
      BY <3>1, <3>2, <3>3, <1>a
  <2> QED
    BY <2>2, <2>7
<1> HIDE DEF Part
<1>2. ASSUME NEW s \in Sharders, CatchUp(s) PROVE \A t \in Txns : Part(pc'[t], verified'[t], created'[t], chain', t)
  BY <1>2, <1>a DEF CatchUp, txnVars
<1>c. ASSUME NEW t \in Txns, pc[t] = "new", chain' = chain, verified' = verified, pc'[t] = "signing"
      PROVE  Part(pc'[t], verified'[t], created'[t], chain', t)
  BY <1>c, <1>a DEF Part
<1>d. ASSUME NEW t \in Txns, chain' = chain, verified' = verified, created' = created,
             pc'[t] \in {"waiting", "evicting", "submitted", "fallback", "silent", "over"}, pc[t] # "over"
      PROVE  Part(pc'[t], verified'[t], created'[t], chain', t)
  BY <1>d, <1>a DEF Part
<1>e. ASSUME NEW t \in Txns, pc' = pc \/ \E w : pc' = [pc EXCEPT ![t] = w],
             verified' = verified \/ \E w : verified' = [verified EXCEPT ![t] = w],
             created' = created \/ \E w : created' = [created EXCEPT ![t] = w], chain' = chain,
             Part(pc'[t], verified'[t], created'[t], chain', t)
      PROVE  \A u \in Txns : Part(pc'[u], verified'[u], created'[u], chain', u)
  <2>1. \A u \in Txns \ {t} : pc'[u] = pc[u] /\ verified'[u] = verified[u] /\ created'[u] = created[u]
    BY <1>e, <1>0
  <2> QED
    BY <2>1, <1>e, <1>a
<1>3. ASSUME NEW t \in Txns, SetNonce(t) PROVE \A u \in Txns : Part(pc'[u], verified'[u], created'[u], chain', u)
  <2>1. /\ pc[t] = "new" /\ pc' = [pc EXCEPT ![t] = "signing"] /\ created' = [created EXCEPT ![t] = Len(chain)]
        /\ UNCHANGED <<verified, chain>>
    BY <1>3 DEF SetNonce, chainVars
  <2>2. pc'[t] = "signing"
    BY <2>1, <1>0
  <2> QED
    BY <2>1, <2>2, <1>c, <1>e
<1>4. ASSUME NEW t \in Txns, SignFails(t) \/ Sign(t) \/ Complete(t) \/ Evict(t)
      PROVE  \A u \in Txns : Part(pc'[u], verified'[u], created'[u], chain', u)
  <2>1. /\ pc[t] # "over" /\ UNCHANGED <<verified, created, chain>>
        /\ \E w \in {"waiting", "evicting", "submitted", "over"} : pc' = [pc EXCEPT ![t] = w]
    BY <1>4 DEF SignFails, Sign, Complete, Evict, chainVars
  <2>2. pc'[t] \in {"waiting", "evicting", "submitted", "over"}
    BY <2>1, <1>0
  <2> QED
    BY <2>1, <2>2, <1>d, <1>e
<1>5. ASSUME NEW t \in Txns, NEW s \in Sharders, Knows(s, t) PROVE On(t, chain)
  BY <1>0, <1>5 DEF Knows
<1>f. ASSUME NEW t \in Txns, chain' = chain, UNCHANGED <<verified, created>>, pc[t] # "over",
             pc' = [pc EXCEPT ![t] = "chain"], \E s \in Sharders : Knows(s, t)
      PROVE  \A u \in Txns : Part(pc'[u], verified'[u], created'[u], chain', u)
  <2>1. pc'[t] = "chain" /\ On(t, chain) /\ verified[t] = "unknown"
    BY <1>f, <1>5, <1>a, <1>0 DEF Part
  <2>2. Part(pc'[t], verified'[t], created'[t], chain', t)
    BY <2>1, <1>f, <1>a DEF Part
  <2> QED
    BY <2>2, <1>e, <1>f
<1>6. ASSUME NEW t \in Txns, FastConfirmation(t)
      PROVE  \A u \in Txns : Part(pc'[u], verified'[u], created'[u], chain', u)
  <2>1. pc[t] = "submitted" /\ UNCHANGED <<verified, created, chain>>
    BY <1>6 DEF FastConfirmation, chainVars
  <2>2. \/ (\E s \in Sharders : Knows(s, t)) /\ pc' = [pc EXCEPT ![t] = "chain"]
        \/ pc' = [pc EXCEPT ![t] = "fallback"]
    BY <1>6 DEF FastConfirmation
  <2>3. CASE pc' = [pc EXCEPT ![t] = "fallback"]
    <3>1. pc'[t] = "fallback"
      BY <2>3, <1>0
    <3> QED
      BY <3>1, <2>1, <2>3, <1>d, <1>e
  <2> QED
    BY <2>1, <2>2, <2>3, <1>f
<1>7. ASSUME NEW t \in Txns, ConsensusConfirmation(t)
      PROVE  \A u \in Txns : Part(pc'[u], verified'[u], created'[u], chain', u)
  <2>0. pc[t] = "fallback" /\ UNCHANGED <<created, chain>>
    BY <1>7 DEF ConsensusConfirmation, chainVars
  <2>1. PICK online \in SUBSET Sharders : \E blank \in SUBSET online :
          \/ /\ Confirmed(online, t)
             /\ pc' = [pc EXCEPT ![t] = "chain"] /\ UNCHANGED verified
          \/ \E lfb \in LastFinalized(online, blank, t) :
               /\ IsTransactionExpired(t, lfb)
               /\ VerifyFailed(t, IF lfb = NoDate THEN "overdue" ELSE "expired")
          \/ pc' = [pc EXCEPT ![t] = "submitted"] /\ UNCHANGED verified
    BY <1>7 DEF ConsensusConfirmation
  <2>2. CASE Confirmed(online, t) /\ pc' = [pc EXCEPT ![t] = "chain"] /\ UNCHANGED verified
    <3>1. MinVerify >= 1 /\ MinVerify \in Nat
      BY SizesAssumption, FS_CardinalityType
    <3>2. {s \in online : Knows(s, t)} # {}
      BY <2>2, <3>1, FS_EmptySet DEF Confirmed
    <3>3. \E s \in Sharders : Knows(s, t)
      BY <3>2
    <3> QED
      BY <2>0, <2>2, <3>3, <1>f
  <2>3. ASSUME NEW blank \in SUBSET online, NEW lfb \in LastFinalized(online, blank, t),
               IsTransactionExpired(t, lfb),
               VerifyFailed(t, IF lfb = NoDate THEN "overdue" ELSE "expired")
        PROVE  \A u \in Txns : Part(pc'[u], verified'[u], created'[u], chain', u)
    <3> DEFINE verdict == IF lfb = NoDate THEN "overdue" ELSE "expired"
    <3>1. verified' = [verified EXCEPT ![t] = verdict] /\ pc' = [pc EXCEPT ![t] = "over"]
      BY <2>3 DEF VerifyFailed
    <3>2. pc'[t] = "over" /\ verified'[t] = verdict
      BY <3>1, <1>0
    <3>3. verdict = "expired" => created[t] + TTL < Len(chain) /\ ~On(t, chain)
      BY <2>3, ExpiredNotOnChain
    <3>4. verdict \notin Found
      BY DEF Found, Statuses
    <3> HIDE DEF verdict
    <3>5. Part(pc'[t], verified'[t], created'[t], chain', t)
      BY <3>2, <3>3, <3>4, <2>0 DEF Part
    <3> QED
      BY <3>1, <3>5, <2>0, <1>e
  <2>4. CASE pc' = [pc EXCEPT ![t] = "submitted"] /\ UNCHANGED verified
    <3>1. pc'[t] = "submitted"
      BY <2>4, <1>0
    <3> QED
      BY <3>1, <2>0, <2>4, <1>d, <1>e
  <2> QED
    BY <2>1, <2>2, <2>3, <2>4
<1>8. ASSUME NEW t \in Txns, ValidateChain(t) \/ ConfirmationFails(t)
      PROVE  \A u \in Txns : Part(pc'[u], verified'[u], created'[u], chain', u)
  <2> DEFINE m == Max({1, ChainLength - 1})
  <2>1. /\ pc[t] = "chain" /\ UNCHANGED <<created, chain>> /\ LongEnough(t)
        /\ \/ /\ \E verdict \in Found : verified' = [verified EXCEPT ![t] = verdict]
              /\ pc' = [pc EXCEPT ![t] = "over"]
           \/ pc' = [pc EXCEPT ![t] = "silent"] /\ UNCHANGED verified
    BY <1>8 DEF ValidateChain, ConfirmationFails, VerifyFailed, Found, Statuses, chainVars
  <2>2. m \in Nat /\ m >= 1 /\ m >= ChainLength - 1
    BY Confirmations
  <2>3. \A k \in 1 .. m :
          Cardinality({s \in Sharders : height[s] >= RoundOf(t) + k}) * 4 >= Cardinality(Sharders)
    BY <2>1 DEF LongEnough
  <2> HIDE DEF m
  <2>4. Cardinality({s \in Sharders : height[s] >= RoundOf(t) + m}) * 4 >= Cardinality(Sharders)
    BY <2>2, <2>3
  <2>5. Cardinality(Sharders) \in Nat /\ Cardinality(Sharders) >= 1
    BY SizesAssumption, FS_CardinalityType
  <2>6. {s \in Sharders : height[s] >= RoundOf(t) + m} # {}
    BY <2>4, <2>5, FS_EmptySet
  <2>7. PICK s \in Sharders : height[s] >= RoundOf(t) + m
    BY <2>6
  <2>8. On(t, chain)
    BY <2>1, <1>a DEF Part
  <2>9. RoundOf(t) \in DOMAIN chain /\ chain[RoundOf(t)] = t
    BY <2>8 DEF RoundOf
  <2>10. RoundOf(t) + ChainLength - 1 <= Len(chain)
    BY <2>2, <2>7, <2>9, <1>0
  <2>11. CASE pc' = [pc EXCEPT ![t] = "silent"] /\ UNCHANGED verified
    <3>1. pc'[t] = "silent"
      BY <2>11, <1>0
    <3> QED
      BY <3>1, <2>1, <2>11, <1>d, <1>e
  <2>12. ASSUME NEW verdict \in Found, verified' = [verified EXCEPT ![t] = verdict],
                pc' = [pc EXCEPT ![t] = "over"]
         PROVE  \A u \in Txns : Part(pc'[u], verified'[u], created'[u], chain', u)
    <3>1. pc'[t] = "over" /\ verified'[t] = verdict
      BY <2>12, <1>0
    <3>2. verdict # "expired"
      BY DEF Found, Statuses
    <3>3. Part(pc'[t], verified'[t], created'[t], chain', t)
      BY <2>1, <2>9, <2>10, <3>1, <3>2 DEF Part
    <3> QED
      BY <2>1, <2>12, <3>3, <1>e
  <2> QED
    BY <2>1, <2>11, <2>12
<1>9. ASSUME NEW t \in Txns, Post(t) PROVE \A u \in Txns : Part(pc'[u], verified'[u], created'[u], chain', u)
  BY <1>9, <1>a DEF Post, PostTaken, PostRefused, PostLost, txnVars, chainVars
<1>10. CASE Done \/ UNCHANGED vars
  BY <1>10, <1>a DEF Done, vars, txnVars, chainVars
<1> QED
  BY <1>1, <1>2, <1>3, <1>4, <1>6, <1>7, <1>8, <1>9, <1>10 DEF Next, Chain, Run

\* The parts together are inductive.
LEMMA NextIndInv == IndInv /\ [Next]_vars => IndInv'
BY TypeStep, PostStep, ChainStep, VerifyStep DEF IndInv

\* The invariant holds throughout.
LEMMA Inductive == Spec => []IndInv
<1>1. Init => IndInv
  BY InitIndInv
<1> QED
  BY <1>1, NextIndInv, PTL DEF Spec

\* Transactions keeps its types: in particular the miners never report more failures
\* of a transaction than it was posted to, so that failedCount meets its limit.
THEOREM TypeCorrect == Spec => []TypeOK
<1>1. IndInv => TypeOK
  BY DEF IndInv
<1> QED
  BY <1>1, Inductive, PTL

\* Whatever the sharders know and whenever they are off line: a transaction that
\* Verify reports with a status of the chain, as successful, chargeable or failed, or
\* as unreadable, is on the chain under the number of blocks it asks for, and one it
\* reports expired by the date of a finalised block is not on the chain, in this
\* state and in every later one.
THEOREM VerifyOutcomeHolds == Spec => []VerifyOutcome
<1>1. IndInv => VerifyOutcome
  <2> SUFFICES ASSUME IndInv PROVE VerifyOutcome
    OBVIOUS
  <2>1. SUFFICES ASSUME NEW t \in Txns
                 PROVE  /\ verified[t] \in Found =>
                             t \in ToSet(chain) /\ RoundOf(t) + ChainLength - 1 <= Len(chain)
                        /\ verified[t] = "expired" => t \notin ToSet(chain)
    BY DEF VerifyOutcome, Found
  <2>2. ASSUME verified[t] \in Found
        PROVE  t \in ToSet(chain) /\ RoundOf(t) + ChainLength - 1 <= Len(chain)
    <3>1. PICK k \in DOMAIN chain : chain[k] = t /\ k + ChainLength - 1 <= Len(chain)
      BY <2>2 DEF IndInv, VerifyInv
    <3>2. RoundOf(t) \in DOMAIN chain /\ chain[RoundOf(t)] = t
      BY <3>1 DEF RoundOf
    <3>3. RoundOf(t) = k
      BY <3>1, <3>2, EmptyAssumption DEF IndInv, ChainInv
    <3> QED
      BY <3>1, <3>3 DEF ToSet
  <2>3. ASSUME verified[t] = "expired" PROVE t \notin ToSet(chain)
    BY <2>3 DEF IndInv, VerifyInv, ToSet
  <2> QED
    BY <2>2, <2>3
<1> QED
  BY <1>1, Inductive, PTL

-----------------------------------------------------------------------------
(* The nonces.                                                             *)

\* Taking a nonce from the cache, or the first one from the sharders, gives the
\* next number; everything else that changes the cache disturbs it.
LEMMA NonceStep == IndInv /\ NonceInv /\ [Next]_vars => NonceInv'
<1> SUFFICES ASSUME IndInv, NonceInv, [Next]_vars, ~disturbed' PROVE NonceInv'
  BY DEF NonceInv, CacheInv, Consecutive
<1> DEFINE n == Cardinality(Numbered)
<1>0. /\ chain \in Seq(Txns \cup {Empty}) /\ nonce \in [Txns -> Nat] /\ DOMAIN pc = Txns
      /\ disturbed \in BOOLEAN /\ cache \in {Absent} \cup Nat /\ pool \subseteq Txns
      /\ StateNonce(chain) \in Nat
  BY StateNonceType DEF IndInv, TypeOK
<1>a. IsFiniteSet(Numbered)
  BY SizesAssumption, FS_Subset DEF Numbered
<1>b. n \in Nat /\ (n = 0 <=> Numbered = {})
  BY <1>a, FS_CardinalityType, FS_EmptySet
<1>c. ~disturbed => /\ cache = IF Numbered = {} THEN Absent ELSE n
                    /\ {nonce[t] : t \in Numbered} = 1 .. n
                    /\ StateNonce(chain) <= n
  BY DEF NonceInv, CacheInv, Consecutive
<1>d. ASSUME UNCHANGED <<nonce, cache, disturbed>>, Numbered' = Numbered, StateNonce(chain') <= n
      PROVE  NonceInv'
  BY <1>c, <1>d DEF NonceInv, CacheInv, Consecutive
<1>1. CASE Mine
  <2>0. Numbered' = Numbered /\ UNCHANGED <<nonce, cache, disturbed>>
    BY <1>1 DEF Mine, Numbered, txnVars
  <2>1. PICK x \in Txns \cup {Empty} : chain' = Append(chain, x) /\ (x = Empty \/ x \in Runnable)
    BY <1>1, MineEffect DEF IndInv
  <2>2. CASE x = Empty
    BY <2>0, <2>1, <2>2, <1>0, <1>c, <1>d, StateNonceAppend
  <2>3. CASE x # Empty
    <3>1. x \in pool /\ x \in Txns /\ nonce[x] = StateNonce(chain) + 1
      BY <2>1, <2>3, <1>0 DEF Runnable
    <3>2. x \in Numbered
      BY <3>1 DEF IndInv, PostInv, Numbered, Started
    <3>3. nonce[x] \in 1 .. n
      BY <3>2, <2>0, <1>c
    <3>4. StateNonce(chain') = StateNonce(chain) + 1
      BY <2>1, <2>3, <1>0, StateNonceAppend
    <3> QED
      BY <2>0, <3>1, <3>3, <3>4, <1>0, <1>b, <1>d
  <2> QED
    BY <2>2, <2>3
<1>2. ASSUME NEW t \in Txns, SetNonce(t) PROVE NonceInv'
  <2>1. /\ pc[t] = "new" /\ pc' = [pc EXCEPT ![t] = "signing"] /\ UNCHANGED chain
    BY <1>2 DEF SetNonce, chainVars
  <2>2. GetNextNonce(t)
    BY <1>2 DEF SetNonce, SetGiven
  <2>3. PICK m \in IF cache = Absent THEN SharderNonces \cup {0} ELSE {cache} :
          /\ nonce' = [nonce EXCEPT ![t] = m + 1]
          /\ cache' = m + 1
          /\ ~(cache = Absent /\ m \notin SharderNonces)
          /\ UNCHANGED disturbed
    BY <2>2 DEF GetNextNonce
  <2>4. ~disturbed
    BY <2>3
  <2>5. m = n
    <3>1. CASE Numbered = {}
      <4>1. cache = Absent /\ StateNonce(chain) = 0 /\ n = 0
        BY <3>1, <2>4, <1>0, <1>b, <1>c
      <4> QED
        BY <4>1, <2>3, SharderNoncesType DEF IndInv
    <3>2. CASE Numbered # {}
      BY <3>2, <2>3, <2>4, <1>b, <1>c DEF Absent
    <3> QED
      BY <3>1, <3>2
  <2>6. Numbered' = Numbered \cup {t} /\ t \notin Numbered
    BY <2>1, <1>0 DEF Numbered
  <2>7. Cardinality(Numbered') = n + 1
    BY <2>6, <1>a, FS_AddElement
  <2>8. {nonce'[u] : u \in Numbered'} = {nonce[u] : u \in Numbered} \cup {n + 1}
    <3>1. nonce'[t] = n + 1
      BY <2>3, <2>5, <1>0
    <3>2. \A u \in Numbered : nonce'[u] = nonce[u]
      BY <2>3, <2>6, <1>0 DEF Numbered
    <3> QED
      BY <3>1, <3>2, <2>6
  <2>9. {nonce'[u] : u \in Numbered'} = 1 .. n + 1
    BY <2>4, <2>8, <1>b, <1>c
  <2>10. Numbered' # {} /\ cache' = n + 1 /\ StateNonce(chain') <= n + 1
    BY <2>1, <2>3, <2>4, <2>5, <2>6, <1>0, <1>b, <1>c
  <2> HIDE DEF n
  <2> QED
    BY <2>7, <2>9, <2>10 DEF NonceInv, CacheInv, Consecutive
<1>3. ASSUME NEW t \in Txns, \/ Sign(t) \/ Complete(t) \/ FastConfirmation(t)
                             \/ ValidateChain(t) \/ ConfirmationFails(t)
      PROVE  NonceInv'
  <2>1. UNCHANGED <<nonce, cache, disturbed, chain>>
    BY <1>3 DEF Sign, Complete, FastConfirmation, ValidateChain, ConfirmationFails, VerifyFailed, chainVars
  <2>2. pc[t] # "new" /\ \E w \in Started : pc' = [pc EXCEPT ![t] = w]
    BY <1>3 DEF Sign, Complete, FastConfirmation, ValidateChain, ConfirmationFails, VerifyFailed, Started
  <2>3. Numbered' = Numbered
    BY <2>2, <1>0 DEF Numbered, Started
  <2> QED
    BY <2>1, <2>3, <1>c, <1>d
<1>4. ASSUME NEW t \in Txns, ConsensusConfirmation(t) PROVE NonceInv'
  <2>1. UNCHANGED <<nonce, chain>> /\ pc[t] = "fallback"
    BY <1>4 DEF ConsensusConfirmation, chainVars
  <2>2. UNCHANGED <<cache, disturbed>> /\ \E w \in Started : pc' = [pc EXCEPT ![t] = w]
    BY <1>4 DEF ConsensusConfirmation, VerifyFailed, Started
  <2>3. Numbered' = Numbered
    BY <2>1, <2>2, <1>0 DEF Numbered, Started
  <2> QED
    BY <2>1, <2>2, <2>3, <1>c, <1>d
<1>5. ASSUME NEW t \in Txns, SignFails(t) \/ Evict(t) PROVE NonceInv'
  BY <1>5 DEF SignFails, Evict
<1>6. ASSUME NEW t \in Txns, Post(t) PROVE NonceInv'
  <2>1. UNCHANGED <<nonce, cache, disturbed, chain, pc>>
    BY <1>6 DEF Post, PostTaken, PostRefused, PostLost, txnVars, chainVars
  <2>2. Numbered' = Numbered
    BY <2>1 DEF Numbered
  <2> QED
    BY <2>1, <2>2, <1>c, <1>d
<1>7. CASE (\E s \in Sharders : CatchUp(s)) \/ Done \/ UNCHANGED vars
  <2>1. UNCHANGED <<nonce, cache, disturbed, chain, pc>>
    BY <1>7 DEF CatchUp, Done, vars, txnVars, chainVars
  <2>2. Numbered' = Numbered
    BY <2>1 DEF Numbered
  <2> QED
    BY <2>1, <2>2, <1>c, <1>d
<1> QED
  BY <1>1, <1>2, <1>3, <1>4, <1>5, <1>6, <1>7 DEF Next, Chain, Run

\* For any number of transactions: as long as nothing failed and the user gave no
\* nonce, the nonces given out are 1, 2, 3 and so on without a gap or a duplicate,
\* and the chain is never ahead of them.
THEOREM ConsecutiveHolds == Spec => []Consecutive
<1>1. NonceInv => Consecutive
  BY DEF NonceInv
<1>2. Init => NonceInv
  BY InitIndInv
<1> QED
  BY <1>1, <1>2, NonceStep, Inductive, PTL DEF Spec
=============================================================================
