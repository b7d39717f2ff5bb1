--------------------------- MODULE DownloadProofs ---------------------------
(***************************************************************************)
(* What a download promises for every number of blobbers, requests, faults *)
(* and attempts: the progress on disk never runs ahead of the file; a      *)
(* download that fails has lost more blobbers than it can spare; and one   *)
(* that completes has written every block at its place with its own data.  *)
(***************************************************************************)
EXTENDS Download, FiniteSetTheorems, NaturalsInduction, WellFoundedInduction, TLAPS

Under == pc \in {"loop", "closing"}

ProgressType ==
  /\ updates \subseteq 1 .. NumBlocks /\ heap \subseteq 1 .. NumBlocks
  /\ file \subseteq Blocks
  /\ saved \in {NoProgress} \cup 0 .. NumBlocks
  /\ next \in Nat /\ start \in 0 .. NumBlocks

\* An end that the storer knows of is the end of a block in the file, and everything
\* before the end that it waits for is in the file.
StorerInv ==
  /\ \A v \in updates \cup heap : v - 1 \in file
  /\ pc = "markers" => next = start /\ 0 .. start - 1 \subseteq file
  /\ Under => next >= 1 /\ 0 .. next - 2 \subseteq file /\ 0 .. start - 1 \subseteq file

ProgressInv == ProgressType /\ StorerInv /\ SavedWritten

\* The block has got to where it belongs, or will be written in its turn.
Delivered(j) == IF writerAt THEN j \in file ELSE j \in ready \/ j < order

\* Before the loop nothing is under way.  As long as no request failed and nobody
\* cancelled, every block that was started runs or is delivered.
LoopInv ==
  /\ writerAt \in BOOLEAN /\ i \in 0 .. NumBlocks /\ order \in 0 .. NumBlocks
  /\ DOMAIN state = Blocks
  /\ pc \in {"meta", "markers"} =>
       /\ result = "none" /\ order = 0 /\ stream = <<>> /\ ready = {}
       /\ egErr = FALSE /\ ctxDone = FALSE
       /\ \A j \in Blocks : state[j] = "none"
  /\ pc = "markers" \/ Under => (~writerAt => start = 0)
  /\ Under => i >= start
  /\ Under /\ ~egErr /\ ~ctxDone =>
       \A j \in start .. i - 1 : state[j] = "running" \/ Delivered(j)
  /\ pc = "closing" => ~egErr /\ i = NumBlocks /\ \A j \in Blocks : state[j] # "running"

\* The writer has written the blocks in order, unless it has failed.
WriterInv ==
  Under /\ ~writerAt /\ ~ctxDone /\ result # "error" =>
    stream = [k \in 1 .. order |-> k - 1]

\* A download that reports Completed and was not cancelled has every block at its
\* place, those of an earlier attempt included: the first half of Complete.
InPlace ==
  (result = "completed" /\ ~ctxDone) =>
    IF writerAt THEN file = Blocks ELSE stream = [k \in 1 .. NumBlocks |-> k - 1]

\* Nothing runs on after Completed.
DoneInv ==
  /\ result = "completed" => pc = "done" /\ \A j \in Blocks : state[j] # "running"
  /\ writerAt => bad = {}
  /\ InPlace

IndInv == ProgressInv /\ LoopInv /\ WriterInv /\ DoneInv

-----------------------------------------------------------------------------
(* The progress on disk.                                                   *)

\* A bounded set of naturals that is not empty has a greatest member, and Max gives it.
LEMMA MaxOfBounded ==
  ASSUME NEW n \in Nat, NEW S \in SUBSET (1 .. n), S # {}
  PROVE  Max(S) \in S /\ \A y \in S : Max(S) >= y
<1> DEFINE below == {m \in Nat : n - m \in S}
<1>1. below # {}
  <2>1. PICK v \in S : v \in 1 .. n
    OBVIOUS
  <2>2. n - v \in Nat /\ n - (n - v) = v
    BY <2>1
  <2> QED
    BY <2>1, <2>2
<1>2. PICK x \in below : \A y \in below : <<y, x>> \notin OpToRel(<, Nat)
  BY <1>1, NatLessThanWellFounded, WFMin
<1>3. \A y \in below : ~(y < x)
  BY <1>2 DEF OpToRel
<1>4. ASSUME NEW y \in S PROVE n - x >= y
  <2>1. n - y \in Nat /\ n - (n - y) = y /\ y \in Int
    OBVIOUS
  <2>2. n - y \in below
    BY <2>1
  <2> QED
    BY <2>1, <2>2, <1>3
<1>5. \E z \in S : \A y \in S : z >= y
  BY <1>4
<1> QED
  BY <1>5 DEF Max

\* The steps that neither the storer nor the file takes part in.
Quiet ==
  \/ StartRequest \/ WriteNext \/ HashFails \/ PassOver \/ WriterEnds
  \/ CancelDownload \/ Done \/ UNCHANGED vars
  \/ \E j \in Blocks : \/ NextRound(j) \/ WriteAtFails(j)
                       \/ \E p \in Positions : Send(j, p) \/ Answer(j, p) \/ AnswerFails(j, p)

\* What those steps leave alone.
LEMMA QuietEffect == Quiet => UNCHANGED <<writerAt, pc, start, file, updates, heap, next, saved>>
<1>1. StartRequest \/ WriteNext \/ PassOver => UNCHANGED <<writerAt, pc, start, file, updates, heap, next, saved>>
  BY DEF StartRequest, WriteNext, PassOver, queueVars, outVars, storerVars
<1>2. HashFails \/ WriterEnds \/ CancelDownload => UNCHANGED <<writerAt, pc, start, file, updates, heap, next, saved>>
  BY DEF HashFails, WriterEnds, CancelDownload, queueVars, outVars, storerVars
<1>3. Done \/ UNCHANGED vars => UNCHANGED <<writerAt, pc, start, file, updates, heap, next, saved>>
  BY DEF Done, vars, queueVars, outVars, storerVars
<1>4. \A j \in Blocks : NextRound(j) \/ WriteAtFails(j) => UNCHANGED <<writerAt, pc, start, file, updates, heap, next, saved>>
  BY DEF NextRound, WriteAtFails, queueVars, outVars, storerVars
<1>5. \A j \in Blocks, p \in Positions : Send(j, p) \/ Answer(j, p) \/ AnswerFails(j, p) =>
        UNCHANGED <<writerAt, pc, start, file, updates, heap, next, saved>>
  BY DEF Send, Answer, AnswerFails, queueVars, outVars, storerVars
<1> QED
  BY <1>1, <1>2, <1>3, <1>4, <1>5 DEF Quiet

\* What the loaded progress makes of a new attempt.
LEMMA GetFileRefEffect ==
  ASSUME ProgressInv, GetFileRef
  PROVE  /\ UNCHANGED <<file, updates, heap>> /\ start' \in 0 .. NumBlocks
         /\ \/ pc' = "done" /\ saved' \in {NoProgress, saved} /\ next' = next /\ result' = "error"
            \/ /\ pc' = "markers" /\ next' = start' /\ saved' \in {NoProgress, start'}
               /\ 0 .. start' - 1 \subseteq file /\ UNCHANGED result
               /\ ~writerAt => start' = 0
<1> DEFINE from == IF writerAt /\ saved # NoProgress /\ file # {} THEN saved ELSE 0
<1>1. /\ UNCHANGED <<file, updates, heap>>
      /\ \/ pc' = "done" /\ saved' \in {NoProgress, saved} /\ next' = next /\ result' = "error" /\ start' = start
         \/ /\ pc' = "markers" /\ next' = from /\ start' = from /\ from < NumBlocks
            /\ saved' = IF writerAt THEN from ELSE NoProgress
            /\ UNCHANGED result
  BY DEF GetFileRef, ErrorCB, queueVars, outVars
<1>2. NumBlocks \in Nat
  BY SizesAssumption
<1>3. from \in 0 .. NumBlocks /\ 0 .. from - 1 \subseteq file /\ (~writerAt => from = 0)
  <2>1. CASE from = 0
    BY <2>1, <1>2
  <2>2. CASE from # 0
    <3>1. from = saved /\ saved # NoProgress /\ writerAt
      BY <2>2
    <3>2. saved \in 0 .. NumBlocks
      BY <3>1 DEF ProgressInv, ProgressType
    <3> QED
      BY <3>1, <3>2, <2>2, <1>2 DEF ProgressInv, SavedWritten
  <2> QED
    BY <2>1, <2>2
<1> HIDE DEF from
<1> QED
  BY <1>1, <1>3 DEF ProgressInv, ProgressType

\* Blocks are noted when they are in the file, and the storer saves only unbroken rows.
LEMMA ProgressStep == ProgressInv /\ [Next]_vars => ProgressInv'
<1> SUFFICES ASSUME ProgressInv, [Next]_vars PROVE ProgressInv'
  OBVIOUS
<1>0. /\ NumBlocks \in Nat
      /\ updates \subseteq 1 .. NumBlocks /\ heap \subseteq 1 .. NumBlocks
      /\ file \subseteq Blocks /\ saved \in {NoProgress} \cup 0 .. NumBlocks
      /\ next \in Nat /\ start \in 0 .. NumBlocks
  BY SizesAssumption DEF ProgressInv, ProgressType
<1>a. /\ \A v \in updates \cup heap : v - 1 \in file
      /\ pc = "markers" => next = start /\ 0 .. start - 1 \subseteq file
      /\ Under => next >= 1 /\ 0 .. next - 2 \subseteq file /\ 0 .. start - 1 \subseteq file
      /\ saved > 0 => 0 .. saved - 1 \subseteq file
  BY DEF ProgressInv, StorerInv, SavedWritten
<1>1. CASE GetFileRef
  <2>1. /\ UNCHANGED <<file, updates, heap>> /\ start' \in 0 .. NumBlocks
        /\ \/ pc' = "done" /\ saved' \in {NoProgress, saved} /\ next' = next
           \/ /\ pc' = "markers" /\ next' = start' /\ saved' \in {NoProgress, start'}
              /\ 0 .. start' - 1 \subseteq file
    BY <1>1, GetFileRefEffect
  <2>0. NumBlocks \in Nat /\ next \in Nat
    BY <1>0
  <2>a. next' = next \/ next' = start'
    BY <2>1
  <2>b. saved' = NoProgress \/ saved' = saved \/ saved' = start'
    BY <2>1
  <2>c. next' \in Nat
    BY <2>0, <2>1, <2>a
  <2>2. ProgressType'
    BY <2>1, <2>b, <2>c, <1>0 DEF ProgressType
  <2>3. StorerInv'
    BY <2>1, <1>a DEF StorerInv, Under
  <2>4. SavedWritten'
    <3>1. CASE saved' = NoProgress
      BY <3>1 DEF SavedWritten, NoProgress
    <3>2. CASE saved' = start' /\ pc' = "markers"
      BY <3>2, <2>1 DEF SavedWritten
    <3>3. CASE saved' = saved /\ UNCHANGED file
      BY <3>3, <1>a DEF SavedWritten
    <3> QED
      BY <3>1, <3>2, <3>3, <2>1
  <2> QED
    BY <2>2, <2>3, <2>4 DEF ProgressInv
<1>2. CASE SubmitReadMarkers
  <2>1. /\ pc = "markers" /\ UNCHANGED <<file, updates, heap, start>>
        /\ \/ pc' = "done" /\ saved' = NoProgress /\ next' = next
           \/ pc' = "loop" /\ next' = next + 1 /\ saved' = saved
    BY <1>2 DEF SubmitReadMarkers, ErrorCB, outVars
  <2>2. ProgressType'
    BY <2>1, <1>0 DEF ProgressType
  <2>3. StorerInv'
    BY <2>1, <1>0, <1>a DEF StorerInv, Under
  <2>4. SavedWritten'
    BY <2>1, <1>a DEF SavedWritten, NoProgress
  <2> QED
    BY <2>2, <2>3, <2>4 DEF ProgressInv
<1>3. CASE Quiet
  <2>1. UNCHANGED <<pc, start, file, updates, heap, next, saved>>
    BY <1>3, QuietEffect
  <2> QED
    BY <2>1 DEF ProgressInv, ProgressType, StorerInv, SavedWritten, Under
<1>4. ASSUME NEW j \in Blocks, BlockDone(j) PROVE ProgressInv'
  <2>1. /\ UNCHANGED <<pc, start, heap, next, saved>>
        /\ \/ file' = file /\ updates' = updates
           \/ file' = file \cup {j} /\ updates' = updates \cup End(j)
    BY <1>4 DEF BlockDone, queueVars
  <2>2. End(j) \subseteq {j + 1} /\ j + 1 \in 1 .. NumBlocks /\ j + 1 - 1 = j
    BY <1>0 DEF End, Blocks
  <2>3. ProgressType'
    BY <2>1, <2>2, <1>0 DEF ProgressType
  <2>4. \A v \in updates' \cup heap' : v - 1 \in file'
    <3>1. updates' \subseteq updates \/ (updates' \subseteq updates \cup {j + 1} /\ j \in file')
      BY <2>1, <2>2
    <3>a. heap' = heap
      BY <2>1
    <3>2. file \subseteq file'
      BY <2>1
    <3>3. ASSUME NEW v \in updates' \cup heap' PROVE v - 1 \in file'
      <4>1. v \in updates \cup heap \/ (v = j + 1 /\ j \in file')
        BY <3>1, <3>a
      <4>2. CASE v \in updates \cup heap
        BY <4>2, <3>2, <1>a
      <4>3. CASE v = j + 1 /\ j \in file'
        <5>1. j \in Int
          BY <1>0 DEF Blocks
        <5> QED
          BY <4>3, <5>1
      <4> QED
        BY <4>1, <4>2, <4>3
    <3> QED
      BY <3>3
  <2>5. StorerInv'
    BY <2>1, <2>4, <1>a DEF StorerInv, Under
  <2>6. SavedWritten'
    BY <2>1, <1>a DEF SavedWritten
  <2> QED
    BY <2>3, <2>5, <2>6 DEF ProgressInv
<1>5. CASE RequestsDone \/ Finish
  <2>1. /\ UNCHANGED <<start, file, updates, heap, next>>
        /\ \/ pc' = "done" /\ saved' = NoProgress
           \/ pc = "loop" /\ pc' = "closing" /\ saved' = saved
    BY <1>5 DEF RequestsDone, Finish, ErrorCB, queueVars, outVars
  <2>2. ProgressType'
    BY <2>1, <1>0 DEF ProgressType
  <2>3. StorerInv'
    BY <2>1, <1>a DEF StorerInv, Under
  <2>4. SavedWritten'
    BY <2>1, <1>a DEF SavedWritten, NoProgress
  <2> QED
    BY <2>2, <2>3, <2>4 DEF ProgressInv
<1>6. ASSUME NEW v \in 1 .. NumBlocks, Update(v) PROVE ProgressInv'
  <2>1. /\ v \in updates /\ updates' = updates \ {v} /\ heap' = heap \cup {v}
        /\ UNCHANGED <<pc, start, file, next, saved>>
    BY <1>6 DEF Update, queueVars, outVars
  <2> QED
    BY <2>1, <1>0, <1>a DEF ProgressInv, ProgressType, StorerInv, SavedWritten, Under
<1>7. CASE SaveTick
  <2> DEFINE row == {v \in heap : next .. v \subseteq heap}
             last == Max(row)
  <2>1. /\ Under /\ next \in heap
        /\ saved' = last /\ next' = last + 1 /\ heap' = heap \ (next .. last)
        /\ UNCHANGED <<pc, start, file, updates>>
    BY <1>7 DEF SaveTick, queueVars, outVars, Under
  <2>2. next \in row
    BY <2>1, <1>0
  <2>3. last \in row /\ last >= next
    BY <2>2, <1>0, MaxOfBounded
  <2>4. last \in heap /\ next .. last \subseteq heap
    BY <2>3
  <2> HIDE DEF last, row
  <2>5. last \in 1 .. NumBlocks /\ next \in 1 .. NumBlocks
    BY <2>1, <2>4, <1>0
  <2>6. ASSUME NEW k \in 0 .. last - 1 PROVE k \in file
    <3>1. CASE k <= next - 2
      BY <3>1, <2>1, <2>5, <1>a
    <3>2. CASE k >= next - 1
      <4>1. k + 1 \in next .. last /\ k + 1 - 1 = k
        BY <3>2, <2>5
      <4> QED
        BY <4>1, <2>4, <1>a
    <3> QED
      BY <3>1, <3>2, <2>5
  <2>7. ProgressType'
    BY <2>1, <2>5, <1>0 DEF ProgressType
  <2>8. 0 .. next' - 2 \subseteq file' /\ next' >= 1
    BY <2>1, <2>5, <2>6
  <2>9. StorerInv'
    BY <2>1, <2>8, <1>a DEF StorerInv, Under
  <2>10. SavedWritten'
    BY <2>1, <2>6 DEF SavedWritten
  <2> QED
    BY <2>7, <2>9, <2>10 DEF ProgressInv
<1>8. CASE Crash
  <2>1. pc' = "dead" /\ UNCHANGED <<start, file, updates, heap, next, saved>>
    BY <1>8 DEF Crash, outVars, storerVars
  <2> QED
    BY <2>1, <1>0, <1>a DEF ProgressInv, ProgressType, StorerInv, SavedWritten, Under
<1>9. CASE Retry
  <2>1. pc' = "meta" /\ start' = 0 /\ updates' = {} /\ heap' = {} /\ next' = 0 /\ UNCHANGED <<file, saved>>
    BY <1>9 DEF Retry
  <2> QED
    BY <2>1, <1>0, <1>a DEF ProgressInv, ProgressType, StorerInv, SavedWritten, Under
<1> QED
  BY <1>1, <1>2, <1>3, <1>4, <1>5, <1>6, <1>7, <1>8, <1>9 DEF Next, Step, Quiet

-----------------------------------------------------------------------------
(* The loop and the writer.                                                *)

\* How a request of the loop ends or goes on: it fails, or it changes nothing of what
\* the invariants speak of, or it starts to run.
LEMMA StartRequestEffect ==
  ASSUME StartRequest
  PROVE  /\ pc = "loop" /\ i < NumBlocks /\ i' = i + 1
         /\ UNCHANGED <<writerAt, pc, result, start, ctxDone, order, ready, stream, file, bad>>
         /\ \/ (egErr \/ ctxDone) /\ UNCHANGED <<state, egErr>>
            \/ egErr' = TRUE /\ state' = [state EXCEPT ![i] = "returned"]
            \/ egErr' = egErr /\ state' = [state EXCEPT ![i] = "running"]
BY DEF StartRequest, RequestFails, reqVars, bufVars, outVars

\* The steps of the requests that do not end one.
LEMMA RequestEffect ==
  ASSUME NEW j \in Blocks, NEW p \in Positions, Send(j, p) \/ Answer(j, p) \/ AnswerFails(j, p)
  PROVE  /\ UNCHANGED <<writerAt, pc, result, start, i, state, egErr, ctxDone, order, ready,
                        stream, file>>
         /\ writerAt => bad' \subseteq bad
<1>1. CASE Send(j, p)
  BY <1>1 DEF Send, queueVars, outVars
<1>2. CASE Answer(j, p)
  BY <1>2 DEF Answer, queueVars, outVars
<1>3. CASE AnswerFails(j, p)
  BY <1>3 DEF AnswerFails, outVars
<1> QED
  BY <1>1, <1>2, <1>3

\* A request that runs goes on, fails, or delivers its block.
LEMMA EndEffect ==
  ASSUME NEW j \in Blocks, NextRound(j) \/ BlockDone(j) \/ WriteAtFails(j)
  PROVE  /\ state[j] = "running"
         /\ UNCHANGED <<writerAt, pc, result, start, i, ctxDone, order, stream, bad>>
         /\ \/ UNCHANGED <<state, egErr, ready, file>>
            \/ /\ egErr' = TRUE /\ state' = [state EXCEPT ![j] = "returned"]
               /\ UNCHANGED <<ready, file>>
            \/ /\ egErr' = egErr /\ state' = [state EXCEPT ![j] = "returned"]
               /\ IF writerAt THEN file' = file \cup {j} /\ UNCHANGED ready
                              ELSE ready' = ready \cup {j} /\ UNCHANGED file
<1>1. CASE NextRound(j)
  BY <1>1 DEF NextRound, Answered, RequestFails, queueVars, bufVars, outVars
<1>2. CASE BlockDone(j)
  BY <1>2 DEF BlockDone, Answered, RequestFails, queueVars
<1>3. CASE WriteAtFails(j)
  BY <1>3 DEF WriteAtFails, Answered, RequestFails, queueVars, bufVars, outVars
<1> QED
  BY <1>1, <1>2, <1>3

\* The steps of the storer, which the loop does not see.
LEMMA StorerEffect ==
  ASSUME (\E v \in 1 .. NumBlocks : Update(v)) \/ SaveTick \/ Done \/ UNCHANGED vars
  PROVE  UNCHANGED <<writerAt, pc, result, start, i, state, egErr, ctxDone, order, ready, stream, file, bad>>
BY DEF Update, SaveTick, Done, vars, queueVars, reqVars, bufVars, outVars, storerVars

\* A block leaves the loop only by being delivered, failing or a cancel.
LEMMA LoopStep == ProgressInv /\ LoopInv /\ DoneInv /\ [Next]_vars => LoopInv'
<1> SUFFICES ASSUME ProgressInv, LoopInv, DoneInv, [Next]_vars PROVE LoopInv'
  OBVIOUS
<1>0. NumBlocks \in Nat \ {0} /\ start \in 0 .. NumBlocks /\ file \subseteq Blocks
  BY SizesAssumption DEF ProgressInv, ProgressType
<1>a. /\ writerAt \in BOOLEAN /\ i \in 0 .. NumBlocks /\ order \in 0 .. NumBlocks
      /\ DOMAIN state = Blocks
      /\ pc \in {"meta", "markers"} =>
           /\ result = "none" /\ order = 0 /\ stream = <<>> /\ ready = {}
           /\ egErr = FALSE /\ ctxDone = FALSE
           /\ \A j \in Blocks : state[j] = "none"
      /\ pc = "markers" \/ Under => (~writerAt => start = 0)
      /\ Under => i >= start
      /\ Under /\ ~egErr /\ ~ctxDone =>
           \A j \in start .. i - 1 : state[j] = "running" \/ Delivered(j)
      /\ pc = "closing" => ~egErr /\ i = NumBlocks /\ \A j \in Blocks : state[j] # "running"
  BY DEF LoopInv
<1>b. ASSUME UNCHANGED <<writerAt, pc, result, start, i, state, egErr, ctxDone, order, ready, stream, file>>
      PROVE  LoopInv'
  BY <1>b, <1>a DEF LoopInv, Under, Delivered
<1>1. CASE GetFileRef
  <2>1. UNCHANGED <<writerAt, i, state, egErr, ctxDone, order, ready, stream>> /\ pc = "meta"
    BY <1>1 DEF GetFileRef, reqVars, outVars
  <2>2. \/ pc' = "done" /\ saved' \in {NoProgress, saved} /\ next' = next /\ result' = "error"
        \/ /\ pc' = "markers" /\ next' = start' /\ saved' \in {NoProgress, start'}
           /\ 0 .. start' - 1 \subseteq file /\ UNCHANGED result
           /\ ~writerAt => start' = 0
    BY <1>1, GetFileRefEffect
  <2>3. pc' = "done" \/ (pc' = "markers" /\ result' = result /\ (~writerAt => start' = 0))
    BY <2>2
  <2> QED
    BY <2>1, <2>3, <1>a DEF LoopInv, Under
<1>2. CASE SubmitReadMarkers
  <2>1. /\ pc = "markers" /\ UNCHANGED <<writerAt, start, state, egErr, ctxDone, order, ready, stream>>
        /\ \/ pc' = "done" /\ i' = i
           \/ pc' = "loop" /\ i' = start
    BY <1>2 DEF SubmitReadMarkers, ErrorCB, reqVars, outVars
  <2>2. start .. start - 1 = {}
    BY <1>0
  <2> QED
    BY <2>1, <2>2, <1>0, <1>a DEF LoopInv, Under
<1>3. CASE StartRequest
  <2>1. /\ pc = "loop" /\ i < NumBlocks /\ i' = i + 1
        /\ UNCHANGED <<writerAt, pc, result, start, ctxDone, order, ready, stream, file>>
        /\ \/ (egErr \/ ctxDone) /\ UNCHANGED <<state, egErr>>
           \/ egErr' = TRUE /\ state' = [state EXCEPT ![i] = "returned"]
           \/ egErr' = egErr /\ state' = [state EXCEPT ![i] = "running"]
    BY <1>3, StartRequestEffect
  <2>2. DOMAIN state' = Blocks /\ i' \in 0 .. NumBlocks /\ i' >= start
    BY <2>1, <1>0, <1>a DEF Under
  <2>3. ASSUME ~egErr', ~ctxDone', NEW j \in start .. i' - 1 PROVE state'[j] = "running" \/ Delivered(j)'
    <3>1. state' = [state EXCEPT ![i] = "running"] /\ ~egErr /\ ~ctxDone
      BY <2>1, <2>3
    <3>2. CASE j = i
      BY <3>1, <3>2, <2>1, <1>0, <1>a DEF Blocks
    <3>3. CASE j # i
      <4>1. j \in start .. i - 1
        BY <3>3, <2>1, <1>0, <1>a
      <4> QED
        BY <4>1, <3>1, <3>3, <2>1, <1>a DEF Under, Delivered
    <3> QED
      BY <3>2, <3>3
  <2> QED
    BY <2>1, <2>2, <2>3, <1>a DEF LoopInv, Under
<1>4. ASSUME NEW j \in Blocks, NextRound(j) \/ BlockDone(j) \/ WriteAtFails(j) PROVE LoopInv'
  <2>1. /\ state[j] = "running"
        /\ UNCHANGED <<writerAt, pc, result, start, i, ctxDone, order, stream>>
        /\ \/ UNCHANGED <<state, egErr, ready, file>>
           \/ /\ egErr' = TRUE /\ state' = [state EXCEPT ![j] = "returned"]
              /\ UNCHANGED <<ready, file>>
           \/ /\ egErr' = egErr /\ state' = [state EXCEPT ![j] = "returned"]
              /\ IF writerAt THEN file' = file \cup {j} /\ UNCHANGED ready
                             ELSE ready' = ready \cup {j} /\ UNCHANGED file
    BY <1>4, EndEffect
  <2>2. pc \notin {"meta", "markers", "closing"}
    BY <2>1, <1>a
  <2>3. DOMAIN state' = Blocks
    BY <2>1, <1>a
  <2>4. ASSUME ~egErr', ~ctxDone', Under, NEW k \in start .. i - 1 PROVE state'[k] = "running" \/ Delivered(k)'
    <3>1. state[k] = "running" \/ Delivered(k)
      BY <2>1, <2>4, <1>a
    <3>2. k \in Blocks
      BY <1>0, <1>a DEF Blocks
    <3>3. CASE UNCHANGED <<state, egErr, ready, file>>
      BY <3>1, <3>3, <2>1 DEF Delivered
    <3>4. CASE /\ egErr' = egErr /\ state' = [state EXCEPT ![j] = "returned"]
               /\ IF writerAt THEN file' = file \cup {j} /\ UNCHANGED ready
                              ELSE ready' = ready \cup {j} /\ UNCHANGED file
      <4>1. Delivered(j)' /\ (Delivered(k) => Delivered(k)')
        BY <3>4, <2>1 DEF Delivered
      <4>2. k # j => state'[k] = state[k]
        BY <3>4, <3>2, <1>a
      <4> QED
        BY <4>1, <4>2, <3>1
    <3> QED
      BY <3>3, <3>4, <2>1, <2>4
  <2> QED
    BY <2>1, <2>2, <2>3, <2>4, <1>a DEF LoopInv, Under
<1>5. ASSUME NEW j \in Blocks, NEW p \in Positions, Send(j, p) \/ Answer(j, p) \/ AnswerFails(j, p)
      PROVE  LoopInv'
  <2>1. UNCHANGED <<writerAt, pc, result, start, i, state, egErr, ctxDone, order, ready, stream, file>>
    BY <1>5, RequestEffect
  <2> QED
    BY <2>1, <1>b
<1>6. CASE WriteNext \/ HashFails \/ PassOver \/ WriterEnds
  <2>1. /\ Under /\ ~writerAt /\ order < NumBlocks
        /\ UNCHANGED <<writerAt, pc, start, i, state, egErr, ctxDone>>
        /\ order' \in {order + 1, NumBlocks} /\ ready \ {order} \subseteq ready'
    BY <1>6 DEF WriteNext, HashFails, PassOver, WriterEnds, Writing, Under, queueVars, reqVars
  <2>2. order' \in 0 .. NumBlocks /\ order < order'
    BY <2>1, <1>0, <1>a
  <2>3. \A j \in start .. i - 1 : Delivered(j) => Delivered(j)'
    <3>1. ASSUME NEW j \in start .. i - 1, Delivered(j) PROVE Delivered(j)'
      <4>1. j \in ready \/ j < order
        BY <3>1, <2>1 DEF Delivered
      <4>2. j \in ready' \/ j < order'
        BY <4>1, <2>1, <2>2, <1>0, <1>a
      <4> QED
        BY <4>2, <2>1 DEF Delivered
    <3> QED
      BY <3>1
  <2> QED
    BY <2>1, <2>2, <2>3, <1>a DEF LoopInv, Under
<1>7. CASE RequestsDone
  <2>1. /\ pc = "loop" /\ i = NumBlocks /\ \A j \in Blocks : state[j] # "running"
        /\ UNCHANGED <<writerAt, start, i, state, egErr, ctxDone, order, ready, stream, file>>
    BY <1>7 DEF RequestsDone, queueVars, reqVars, outVars
  <2>2. pc' = "done" \/ (pc' = "closing" /\ ~egErr)
    BY <1>7 DEF RequestsDone, ErrorCB
  <2> QED
    BY <2>1, <2>2, <1>a DEF LoopInv, Under, Delivered
<1>8. CASE Finish \/ Crash
  <2>1. pc' \in {"done", "dead"} /\ UNCHANGED <<writerAt, i, order>> /\ DOMAIN state' = Blocks
    BY <1>8, <1>a DEF Finish, Crash, NoRequests, Fresh, queueVars, reqVars, outVars
  <2> QED
    BY <2>1, <1>a DEF LoopInv, Under
<1>9. CASE Retry
  <2>1. /\ pc' = "meta" /\ i' = 0 /\ order' = 0 /\ stream' = <<>> /\ ready' = {} /\ result' = "none"
        /\ egErr' = FALSE /\ ctxDone' = FALSE /\ state' = Fresh("none") /\ UNCHANGED writerAt
    BY <1>9 DEF Retry, NoRequests
  <2> QED
    BY <2>1, <1>0, <1>a DEF LoopInv, Under, Fresh
<1>10. CASE CancelDownload
  <2>1. UNCHANGED <<writerAt, pc, result, start, i, state, egErr, order, ready, stream, file>>
        /\ pc = "loop" /\ ctxDone' = TRUE
    BY <1>10 DEF CancelDownload, queueVars, reqVars, outVars
  <2> QED
    BY <2>1, <1>a DEF LoopInv, Under
<1>11. CASE (\E v \in 1 .. NumBlocks : Update(v)) \/ SaveTick \/ Done \/ UNCHANGED vars
  BY <1>11, <1>b, StorerEffect
<1> QED
  BY <1>1, <1>2, <1>3, <1>4, <1>5, <1>6, <1>7, <1>8, <1>9, <1>10, <1>11 DEF Next, Step

\* Every block is there when the channel is closed, unless the download was cancelled.
LEMMA NoPassOver ==
  ASSUME ProgressInv, LoopInv, PassOver
  PROVE  ctxDone
<1> SUFFICES ASSUME ~ctxDone PROVE FALSE
  OBVIOUS
<1>1. pc = "closing" /\ ~writerAt /\ order < NumBlocks /\ order \notin ready
  BY DEF PassOver, Writing
<1>2. /\ ~egErr /\ i = NumBlocks /\ start = 0 /\ \A j \in Blocks : state[j] # "running"
      /\ \A j \in start .. i - 1 : state[j] = "running" \/ Delivered(j)
  BY <1>1 DEF LoopInv, Under
<1>3. order \in Nat /\ NumBlocks \in Nat
  BY SizesAssumption DEF LoopInv
<1>4. order \in Blocks /\ order \in start .. i - 1
  BY <1>1, <1>2, <1>3 DEF Blocks
<1>5. Delivered(order)
  BY <1>2, <1>4
<1> QED
  BY <1>1, <1>3, <1>5 DEF Delivered

\* The writer takes the blocks of a stream in order.
LEMMA WriterStep == ProgressInv /\ LoopInv /\ WriterInv /\ [Next]_vars => WriterInv'
<1> SUFFICES ASSUME ProgressInv, LoopInv, WriterInv, [Next]_vars,
                    Under', ~writerAt', ~ctxDone', result' # "error"
             PROVE  stream' = [k \in 1 .. order' |-> k - 1]
  BY DEF WriterInv
<1>0. NumBlocks \in Nat \ {0} /\ start \in 0 .. NumBlocks
  BY SizesAssumption DEF ProgressInv, ProgressType
<1>a. order \in 0 .. NumBlocks /\ i \in 0 .. NumBlocks
  BY DEF LoopInv
<1>b. Under /\ ~writerAt /\ ~ctxDone /\ result # "error" =>
        stream = [k \in 1 .. order |-> k - 1]
  BY DEF WriterInv
<1>1. CASE GetFileRef \/ Finish \/ Crash \/ Retry
  <2>1. pc' \notin {"loop", "closing"}
    <3>1. CASE GetFileRef
      BY <3>1 DEF GetFileRef, ErrorCB
    <3>2. CASE Finish \/ Crash \/ Retry
      BY <3>2 DEF Finish, Crash, Retry
    <3> QED
      BY <1>1, <3>1, <3>2
  <2> QED
    BY <2>1 DEF Under
<1>2. CASE SubmitReadMarkers
  <2>1. pc = "markers" /\ UNCHANGED <<stream, order>>
    BY <1>2 DEF SubmitReadMarkers, outVars
  <2>2. stream = <<>> /\ order = 0
    BY <2>1 DEF LoopInv
  <2>3. stream' = <<>> /\ order' = 0
    BY <2>1, <2>2
  <2> QED
    BY <2>3
<1>3. CASE UNCHANGED <<writerAt, pc, result, ctxDone, order, stream>>
  BY <1>3, <1>b DEF Under
<1>4. CASE StartRequest
  <2>1. UNCHANGED <<writerAt, pc, result, ctxDone, order, stream>>
    BY <1>4, StartRequestEffect
  <2> QED
    BY <2>1, <1>3
<1>5. ASSUME NEW j \in Blocks, NextRound(j) \/ BlockDone(j) \/ WriteAtFails(j)
      PROVE  stream' = [k \in 1 .. order' |-> k - 1]
  <2>1. UNCHANGED <<writerAt, pc, result, ctxDone, order, stream>>
    BY <1>5, EndEffect
  <2> QED
    BY <2>1, <1>3
<1>6. ASSUME NEW j \in Blocks, NEW p \in Positions, Send(j, p) \/ Answer(j, p) \/ AnswerFails(j, p)
      PROVE  stream' = [k \in 1 .. order' |-> k - 1]
  <2>1. UNCHANGED <<writerAt, pc, result, ctxDone, order, stream>>
    BY <1>6, RequestEffect
  <2> QED
    BY <2>1, <1>3
<1>7. CASE WriteNext
  <2>1. /\ UNCHANGED <<writerAt, pc, result, ctxDone>> /\ order < NumBlocks
        /\ stream' = Append(stream, order) /\ order' = order + 1
    BY <1>7 DEF WriteNext, Writing
  <2>2. stream = [k \in 1 .. order |-> k - 1]
    BY <2>1, <1>b DEF Under
  <2>3. stream \in Seq(Nat) /\ Len(stream) = order
    BY <2>2, <1>a
  <2>4. /\ DOMAIN stream' = 1 .. order + 1 /\ stream' \in Seq(Nat)
        /\ \A k \in 1 .. order : stream'[k] = stream[k]
        /\ stream'[order + 1] = order
    BY <2>1, <2>3, <1>a
  <2>5. \A k \in 1 .. order + 1 : stream'[k] = k - 1
    <3>1. ASSUME NEW k \in 1 .. order + 1 PROVE stream'[k] = k - 1
      <4>1. CASE k \in 1 .. order
        BY <4>1, <2>2, <2>4
      <4>2. CASE k = order + 1
        BY <4>2, <2>4, <1>0, <1>a
      <4> QED
        BY <4>1, <4>2, <1>0, <1>a
    <3> QED
      BY <3>1
  <2>6. stream' = [k \in 1 .. order + 1 |-> stream'[k]]
    BY <2>4
  <2>7. stream' = [k \in 1 .. order + 1 |-> k - 1]
    BY <2>5, <2>6
  <2> QED
    BY <2>1, <2>7
<1>8. CASE PassOver
  BY <1>8, NoPassOver DEF PassOver
<1>9. CASE WriterEnds \/ HashFails
  BY <1>9 DEF WriterEnds, HashFails
<1>10. CASE RequestsDone
  <2>1. UNCHANGED <<writerAt, ctxDone, order, stream>> /\ pc = "loop"
    BY <1>10 DEF RequestsDone, outVars
  <2>2. pc' = "done" \/ UNCHANGED result
    BY <1>10 DEF RequestsDone, ErrorCB
  <2> QED
    BY <2>1, <2>2, <1>b DEF Under
<1>11. CASE CancelDownload
  BY <1>11 DEF CancelDownload
<1>12. CASE (\E v \in 1 .. NumBlocks : Update(v)) \/ SaveTick \/ Done \/ UNCHANGED vars
  <2>1. UNCHANGED <<writerAt, pc, result, ctxDone, order, stream>>
    BY <1>12, StorerEffect
  <2> QED
    BY <2>1, <1>3
<1> QED
  BY <1>1, <1>2, <1>4, <1>5, <1>6, <1>7, <1>8, <1>9, <1>10, <1>11, <1>12 DEF Next, Step

\* Completed is reported after the last block, and ends everything.
LEMMA DoneStep == IndInv /\ [Next]_vars => DoneInv'
<1> SUFFICES ASSUME IndInv, [Next]_vars PROVE DoneInv'
  OBVIOUS
<1> USE DEF IndInv
<1>0. NumBlocks \in Nat \ {0} /\ start \in 0 .. NumBlocks /\ file \subseteq Blocks /\ writerAt \in BOOLEAN
  BY SizesAssumption DEF ProgressInv, ProgressType, LoopInv
<1>a. /\ result = "completed" => pc = "done" /\ \A j \in Blocks : state[j] # "running"
      /\ writerAt => bad = {}
      /\ (result = "completed" /\ ~ctxDone) =>
           IF writerAt THEN file = Blocks ELSE stream = [k \in 1 .. NumBlocks |-> k - 1]
  BY DEF DoneInv, InPlace
<1> HIDE DEF IndInv
<1>1. ASSUME result' # "completed", writerAt' => bad' = {} PROVE DoneInv'
  BY <1>1 DEF DoneInv, InPlace
<1>2. ASSUME UNCHANGED <<writerAt, pc, result, state, ctxDone, stream, file>>, writerAt => bad' = {}
      PROVE  DoneInv'
  BY <1>2, <1>a DEF DoneInv, InPlace
<1>3. ASSUME UNCHANGED <<writerAt, bad>>, pc # "done", result' = result \/ result' = "error"
      PROVE  DoneInv'
  BY <1>1, <1>3, <1>a
<1>4. CASE GetFileRef \/ SubmitReadMarkers \/ StartRequest \/ WriteNext \/ HashFails \/ PassOver \/ WriterEnds
          \/ RequestsDone \/ CancelDownload \/ Crash
  <2>1. UNCHANGED <<writerAt, bad>>
    BY <1>4 DEF GetFileRef, SubmitReadMarkers, StartRequest, WriteNext, HashFails, PassOver, WriterEnds,
                RequestsDone, CancelDownload, Crash, bufVars
  <2>2. pc # "done"
    BY <1>4 DEF GetFileRef, SubmitReadMarkers, StartRequest, WriteNext, HashFails, PassOver, WriterEnds,
                RequestsDone, CancelDownload, Crash, Writing
  <2>3. result' = result \/ result' = "error"
    BY <1>4 DEF GetFileRef, SubmitReadMarkers, StartRequest, WriteNext, HashFails, PassOver, WriterEnds,
                RequestsDone, CancelDownload, Crash, ErrorCB
  <2> QED
    BY <2>1, <2>2, <2>3, <1>3
<1>5. ASSUME NEW j \in Blocks, NextRound(j) \/ BlockDone(j) \/ WriteAtFails(j) PROVE DoneInv'
  <2>1. state[j] = "running" /\ UNCHANGED <<writerAt, pc, result, bad>>
    BY <1>5, EndEffect
  <2>2. result' # "completed"
    BY <2>1, <1>a
  <2> QED
    BY <2>1, <2>2, <1>1, <1>a
<1>6. ASSUME NEW j \in Blocks, NEW p \in Positions, Send(j, p) \/ Answer(j, p) \/ AnswerFails(j, p)
      PROVE  DoneInv'
  <2>1. UNCHANGED <<writerAt, pc, result, state, ctxDone, stream, file>> /\ (writerAt => bad' \subseteq bad)
    BY <1>6, RequestEffect
  <2>2. writerAt => bad' = {}
    BY <2>1, <1>a
  <2> QED
    BY <2>1, <2>2, <1>2
<1>7. CASE Finish
  <2>1. /\ pc = "closing" /\ (writerAt \/ order = NumBlocks)
        /\ pc' = "done" /\ result' = IF result = "error" THEN "error" ELSE "completed"
        /\ UNCHANGED <<writerAt, state, ctxDone, file, bad, order, stream>>
    BY <1>7 DEF Finish, reqVars, bufVars, outVars
  <2>2. /\ ~egErr /\ i = NumBlocks /\ \A j \in Blocks : state[j] # "running"
        /\ ~writerAt => start = 0
        /\ 0 .. start - 1 \subseteq file
        /\ ~ctxDone => \A j \in start .. i - 1 : state[j] = "running" \/ Delivered(j)
    <3>1. Under
      BY <2>1 DEF Under
    <3>2. ~egErr /\ i = NumBlocks /\ \A j \in Blocks : state[j] # "running"
      BY <2>1 DEF IndInv, LoopInv
    <3>3. ~writerAt => start = 0
      BY <3>1 DEF IndInv, LoopInv
    <3>4. 0 .. start - 1 \subseteq file
      BY <3>1 DEF IndInv, ProgressInv, StorerInv
    <3>5. ~ctxDone => \A j \in start .. i - 1 : state[j] = "running" \/ Delivered(j)
      BY <3>1, <3>2 DEF IndInv, LoopInv
    <3> QED
      BY <3>2, <3>3, <3>4, <3>5
  <2>3. CASE result = "error"
    BY <2>1, <2>3, <1>1, <1>a
  <2>4. CASE result # "error" /\ ctxDone
    BY <2>1, <2>2, <2>4, <1>a DEF DoneInv, InPlace
  <2>5. CASE result # "error" /\ ~ctxDone /\ writerAt
    <3>1. ASSUME NEW j \in Blocks PROVE j \in file
      <4>1. j \in 0 .. start - 1 \/ j \in start .. i - 1
        BY <2>2, <1>0 DEF Blocks
      <4> QED
        BY <4>1, <2>2, <2>5 DEF Delivered
    <3>2. file = Blocks
      BY <3>1, <1>0
    <3> QED
      BY <3>2, <2>1, <2>2, <2>5, <1>a DEF DoneInv, InPlace
  <2>6. CASE result # "error" /\ ~ctxDone /\ ~writerAt
    <3>1. stream = [k \in 1 .. NumBlocks |-> k - 1]
      BY <2>1, <2>2, <2>6 DEF IndInv, WriterInv, Under
    <3> QED
      BY <3>1, <2>1, <2>2, <2>6, <1>a DEF DoneInv, InPlace
  <2> QED
    BY <2>3, <2>4, <2>5, <2>6
<1>8. CASE Retry
  BY <1>8, <1>1 DEF Retry
<1>9. CASE (\E v \in 1 .. NumBlocks : Update(v)) \/ SaveTick \/ Done \/ UNCHANGED vars
  <2>1. UNCHANGED <<writerAt, pc, result, state, ctxDone, stream, file, bad>>
    BY <1>9, StorerEffect
  <2> QED
    BY <2>1, <1>2, <1>a
<1> QED
  BY <1>4, <1>5, <1>6, <1>7, <1>8, <1>9 DEF Next, Step

\* A download starts with nothing under way.
LEMMA InitIndInv == Init => IndInv
<1> SUFFICES ASSUME Init PROVE IndInv
  OBVIOUS
<1>0. NumBlocks \in Nat \ {0} /\ Modes \subseteq BOOLEAN
  BY SizesAssumption
<1>1. ProgressInv
  BY <1>0 DEF Init, ProgressInv, ProgressType, StorerInv, SavedWritten, Under, NoProgress
<1>2. LoopInv
  BY <1>0 DEF Init, LoopInv, Under, Fresh
<1>3. WriterInv /\ DoneInv
  BY DEF Init, WriterInv, DoneInv, InPlace, Under
<1> QED
  BY <1>1, <1>2, <1>3 DEF IndInv

\* The invariant is inductive.
LEMMA Inductive == Spec => []IndInv
<1>1. IndInv /\ [Next]_vars => IndInv'
  BY ProgressStep, LoopStep, WriterStep, DoneStep DEF IndInv
<1> QED
  BY <1>1, InitIndInv, PTL DEF Spec

\* In whatever order the blocks come, the storer saves and the program dies: the
\* block number on disk never runs ahead of the file, so a later download that
\* starts after it leaves no gap.
THEOREM SavedWrittenHolds == Spec => []SavedWritten
<1>1. IndInv => SavedWritten
  BY DEF IndInv, ProgressInv
<1> QED
  BY <1>1, Inductive, PTL

-----------------------------------------------------------------------------
(* Positions of a queue.                                                   *)

LEMMA PositionCount ==
  ASSUME NEW n \in Nat
  PROVE  Cardinality(1 .. n) = n
<1>1. Cardinality(1 .. n) = IF 1 > n THEN 0 ELSE n - 1 + 1
  BY FS_Interval
<1> QED
  BY <1>1

Distinct(q) == \A k, l \in 1 .. Len(q) : q[k] = q[l] => k = l

\* The least of some naturals.
LEMMA LeastNatural ==
  ASSUME NEW S \in SUBSET Nat, S # {}
  PROVE  \E x \in S : \A y \in S : x <= y
<1>1. PICK x \in S : \A y \in S : <<y, x>> \notin OpToRel(<, Nat)
  BY NatLessThanWellFounded, WFMin
<1>2. \A y \in S : ~(y < x)
  BY <1>1 DEF OpToRel
<1>3. \A y \in S : x <= y
  BY <1>2
<1> QED
  BY <1>3

\* Sets of positions are finite.
LEMMA PositionSets ==
  ASSUME NEW n \in Nat, NEW m \in SUBSET (1 .. n)
  PROVE  IsFiniteSet(m) /\ Cardinality(m) \in Nat /\ Cardinality(m) <= n
<1>1. IsFiniteSet(1 .. n) /\ Cardinality(1 .. n) = n
  BY FS_Interval
<1>2. IsFiniteSet(m) /\ Cardinality(m) <= n
  BY <1>1, FS_Subset
<1> QED
  BY <1>2, FS_CardinalityType

\* The first k of a set of positions are k positions.
LEMMA FirstOfCount ==
  ASSUME NEW n \in Nat, NEW m \in SUBSET (1 .. n), NEW k \in Nat, k <= Cardinality(m)
  PROVE  FirstOf(m, k) \subseteq m /\ Cardinality(FirstOf(m, k)) = k
<1> DEFINE below(p) == {q \in m : q < p}
           first(h) == {p \in m : Cardinality(below(p)) < h}
           wrong == {h \in Nat : h <= Cardinality(m) /\ Cardinality(first(h)) # h}
<1>0. \A h : FirstOf(m, h) = first(h)
  BY DEF FirstOf
<1>m. \A p \in m : p \in Nat
  OBVIOUS
<1>1. \A T \in SUBSET m : IsFiniteSet(T) /\ Cardinality(T) \in Nat
  BY PositionSets
<1>2. \A p : below(p) \in SUBSET m
  OBVIOUS
<1>3. \A p : IsFiniteSet(below(p)) /\ Cardinality(below(p)) \in Nat
  BY <1>1, <1>2
<1>4. ASSUME wrong # {} PROVE FALSE
  <2>1. PICK h \in wrong : \A g \in wrong : h <= g
    BY <1>4, LeastNatural
  <2>2. h # 0
    <3>1. \A c \in Nat : ~(c < 0)
      OBVIOUS
    <3>2. first(0) = {}
      BY <1>3, <3>1
    <3> QED
      BY <3>2, <2>1, FS_EmptySet
  <2>3. h - 1 \in Nat /\ h - 1 <= Cardinality(m) /\ h - 1 \notin wrong /\ Cardinality(m) \in Nat /\ h \in Nat
    <3>1. Cardinality(m) \in Nat /\ h \in Nat /\ h <= Cardinality(m)
      BY <1>1, <2>1
    <3>2. h - 1 \in Nat /\ h - 1 <= Cardinality(m) /\ ~(h <= h - 1)
      BY <2>2, <3>1
    <3> QED
      BY <2>1, <3>1, <3>2
  <2>4. Cardinality(first(h - 1)) = h - 1
    BY <2>3
  <2> DEFINE F == first(h - 1)
  <2>5. F \in SUBSET m /\ m \ F # {}
    <3>1. F # m
      BY <2>1, <2>3, <2>4
    <3> QED
      BY <3>1
  <2>6. PICK x \in m \ F : \A y \in m \ F : x <= y
    <3>1. m \ F \in SUBSET Nat
      BY <1>m
    <3> HIDE DEF F
    <3> QED
      BY <2>5, <3>1, LeastNatural
  <2>7. \A p, q \in m : p < q => Cardinality(below(p)) < Cardinality(below(q))
    <3> SUFFICES ASSUME NEW p \in m, NEW q \in m, p < q PROVE Cardinality(below(p)) < Cardinality(below(q))
      OBVIOUS
    <3>0. p \in Nat /\ q \in Nat /\ ~(p < p) /\ \A r \in m : r < p => r < q
      BY <1>m
    <3>1. below(p) \cup {p} \in SUBSET below(q) /\ p \notin below(p)
      BY <3>0
    <3>2. Cardinality(below(p) \cup {p}) <= Cardinality(below(q))
      BY <3>1, <1>3, FS_Subset
    <3>3. Cardinality(below(p) \cup {p}) = Cardinality(below(p)) + 1
      <4>1. \A S, z : IsFiniteSet(S) /\ z \notin S => Cardinality(S \cup {z}) = Cardinality(S) + 1
        BY FS_AddElement
      <4> HIDE DEF below
      <4> QED
        BY <3>1, <1>3, <4>1
    <3> HIDE DEF below
    <3> QED
      BY <3>2, <3>3, <1>3
  <2>8. below(x) = F
    <3>1. ASSUME NEW q \in m, q < x PROVE q \in F
      BY <3>1, <2>6
    <3>2. ASSUME NEW q \in F PROVE q < x
      <4>1. q \in m /\ x \in m /\ q \in Nat /\ x \in Nat /\ q # x
        BY <3>2, <2>6
      <4>2. Cardinality(below(q)) < h - 1 /\ ~(Cardinality(below(x)) < h - 1)
        BY <3>2, <2>6
      <4>3. ~(x < q)
        <5>1. x < q => Cardinality(below(x)) < Cardinality(below(q))
          BY <4>1, <2>7
        <5> HIDE DEF below
        <5> QED
          BY <5>1, <4>2, <2>3, <1>3
      <4> QED
        BY <4>1, <4>3
    <3> QED
      BY <3>1, <3>2, <2>5
  <2>9. first(h) = F \cup {x}
    <3>1. Cardinality(below(x)) = h - 1 /\ x \in m
      BY <2>4, <2>6, <2>8
    <3>2. x \in first(h)
      <4>1. h - 1 < h
        BY <2>3
      <4> QED
        BY <3>1, <4>1
    <3>3. ASSUME NEW q \in F PROVE q \in first(h)
      <4>1. q \in m /\ Cardinality(below(q)) < h - 1 /\ Cardinality(below(q)) \in Nat
        BY <3>3, <1>3
      <4> HIDE DEF below
      <4>2. Cardinality(below(q)) < h
        BY <4>1, <2>3
      <4> QED
        BY <4>1, <4>2
    <3>4. ASSUME NEW q \in first(h), q \notin F PROVE q = x
      <4>1. q \in m \ F /\ q \in Nat /\ x \in Nat /\ x <= q /\ Cardinality(below(q)) < h
        BY <3>4, <2>6
      <4>2. x < q => Cardinality(below(x)) < Cardinality(below(q))
        BY <4>1, <3>1, <2>7
      <4> HIDE DEF below
      <4>3. ~(x < q)
        BY <4>1, <4>2, <3>1, <2>3, <1>3
      <4> QED
        BY <4>1, <4>3
    <3> QED
      BY <3>2, <3>3, <3>4
  <2>10. IsFiniteSet(F) /\ x \notin F
    BY <1>1, <2>5, <2>6
  <2>11. Cardinality(first(h)) = (h - 1) + 1
    <3>1. Cardinality(F) = h - 1
      BY <2>4
    <3> HIDE DEF F
    <3>2. Cardinality(F \cup {x}) = Cardinality(F) + 1
      BY <2>10, FS_AddElement
    <3> QED
      BY <3>1, <3>2, <2>9
  <2> QED
    BY <2>1, <2>3, <2>11
<1>5. k \notin wrong
  BY <1>4
<1>6. first(k) \subseteq m /\ Cardinality(first(k)) = k
  BY <1>5
<1> QED
  BY <1>0, <1>6

\* Of the first n positions, the first k are those up to k.
LEMMA FirstOfInterval ==
  ASSUME NEW n \in Nat, NEW k \in 0 .. n
  PROVE  FirstOf(1 .. n, k) = 1 .. k
<1>1. ASSUME NEW p \in 1 .. n PROVE Cardinality({q \in 1 .. n : q < p}) = p - 1
  <2>1. {q \in 1 .. n : q < p} = 1 .. p - 1
    OBVIOUS
  <2>2. Cardinality(1 .. p - 1) = p - 1
    BY FS_Interval
  <2> QED
    BY <2>1, <2>2
<1>2. FirstOf(1 .. n, k) = {p \in 1 .. n : p - 1 < k}
  BY <1>1 DEF FirstOf
<1>3. ASSUME NEW p \in 1 .. n PROVE p - 1 < k <=> p \in 1 .. k
  OBVIOUS
<1>4. 1 .. k \subseteq 1 .. n
  OBVIOUS
<1> QED
  BY <1>2, <1>3, <1>4

\* An order of a set names every member once.
LEMMA OrdersFacts ==
  ASSUME NEW s, IsFiniteSet(s), NEW q \in Orders(s)
  PROVE  q \in Seq(s) /\ Len(q) = Cardinality(s) /\ ToSet(q) = s /\ Distinct(q)
<1> DEFINE n == Cardinality(s)
<1>1. n \in Nat
  BY FS_CardinalityType
<1>2. q \in [1 .. n -> s] /\ ToSet(q) = s
  BY DEF Orders
<1>3. q \in Seq(s) /\ Len(q) = n
  BY <1>1, <1>2
<1>4. IsFiniteSet(1 .. n) /\ Cardinality(1 .. n) = n
  BY <1>1, FS_Interval
<1>5. q \in Surjection(1 .. n, s)
  BY <1>2 DEF Surjection, ToSet
<1>6. q \in Injection(1 .. n, s)
  BY <1>4, <1>5, FS_SurjSameCardinalityImpliesInj
<1>7. Distinct(q)
  BY <1>2, <1>3, <1>6 DEF Injection, IsInjective, Distinct
<1> QED
  BY <1>2, <1>3, <1>7

\* As many positions of a queue as blobbers at them.
LEMMA CountPositions ==
  ASSUME NEW q \in Seq(Blobbers), Distinct(q), NEW B
  PROVE  Cardinality({p \in 1 .. Len(q) : q[p] \in B}) = Cardinality(B \cap ToSet(q))
<1> DEFINE D == {p \in 1 .. Len(q) : q[p] \in B}
           T == B \cap ToSet(q)
           f == [p \in D |-> q[p]]
<1>1. IsFiniteSet(D)
  BY PositionSets
<1>2. f \in [D -> T]
  BY DEF ToSet
<1>3. \A t \in T : \E p \in D : f[p] = t
  BY DEF ToSet
<1>4. \A k, l \in D : f[k] = f[l] => k = l
  BY DEF Distinct
<1> HIDE DEF D, T, f
<1>5. f \in Bijection(D, T)
  BY <1>2, <1>3, <1>4 DEF Bijection, Injection, Surjection, IsInjective
<1>6. Cardinality(T) = Cardinality(D)
  BY <1>1, <1>5, FS_Bijection DEF ExistsBijection
<1> QED
  BY <1>6 DEF D, T

-----------------------------------------------------------------------------
(* The requests of the loop.                                               *)

Pos == 1 .. Len(queue)

\* Positions at which block j was answered, and those at which it still may be.
Gotten(j) == {p \in Pos : queue[p] \in got[j]}
Out(j) == waiting[j] \cup asked[j] \cup unasked[j]
Live(j) == Out(j) \cup Gotten(j)

\* Nobody is asked for a block whose request has no position left.
LEMMA NobodyAsked ==
  ASSUME \A j \in Blocks : Out(j) = {}
  PROVE  ~\E j \in Blocks, p \in Positions : Send(j, p) \/ Answer(j, p) \/ AnswerFails(j, p)
<1>1. \A j \in Blocks : \A p : p \notin waiting[j] /\ p \notin asked[j]
  BY DEF Out
<1>2. \A j \in Blocks, p \in Positions : ~Send(j, p)
  BY <1>1 DEF Send
<1>3. \A j \in Blocks, p \in Positions : ~Answer(j, p)
  BY <1>1 DEF Answer
<1>4. \A j \in Blocks, p \in Positions : ~AnswerFails(j, p)
  BY <1>1 DEF AnswerFails
<1> QED
  BY <1>2, <1>3, <1>4

ReqType ==
  /\ state \in [Blocks -> {"none", "running", "returned"}]
  /\ waiting \in [Blocks -> SUBSET Nat] /\ asked \in [Blocks -> SUBSET Nat]
  /\ unasked \in [Blocks -> SUBSET Nat] /\ rest \in [Blocks -> SUBSET Nat]
  /\ failed \in [Blocks -> Nat] /\ got \in [Blocks -> SUBSET Blobbers]
  /\ queue \in Seq(Blobbers) /\ Distinct(queue) /\ mask \subseteq Pos
  /\ start \in Nat /\ i \in Nat

\* A request asks every blobber once, and none when it does not run.
Tidy(j) ==
  /\ Out(j) \cup rest[j] \subseteq Pos /\ got[j] \subseteq ToSet(queue)
  /\ waiting[j] \cap asked[j] = {} /\ unasked[j] \cap (waiting[j] \cup asked[j]) = {}
  /\ Out(j) \cap Gotten(j) = {} /\ rest[j] \cap Live(j) = {}
  /\ state[j] # "running" => Out(j) = {}
  /\ state[j] = "none" => got[j] = {} /\ rest[j] = {}

\* The queue is made before the loop, with enough blobbers; the first request is over
\* before the second starts.
QueueInv ==
  /\ pc = "meta" => queue = <<>>
  /\ pc \in {"meta", "markers"} => mask = {} /\ buffers = {} /\ \A j \in Blocks : state[j] = "none"
  /\ pc = "markers" \/ Under => Thresh <= Len(queue) /\ start < NumBlocks
  /\ Under => \A j \in Blocks : state[j] # "none" => start <= j /\ j < i
  /\ pc = "loop" /\ i > start + 1 => state[start] # "running"

\* The first request takes a position off the end of the mask for each of its failures,
\* so that the mask counts the blobbers that it can still have or has; none of them is
\* skipped.
StartInv ==
  pc = "loop" =>
    /\ i = start => \E n \in Pos : mask = 1 .. n
    /\ rest[start] = {} /\ got[start] \cap skip = {}
    /\ \A p \in waiting[start] \cup asked[start] : queue[p] \notin skip
    /\ state[start] = "running" \/ (i = start + 1 /\ state[start] = "returned" /\ ~egErr) =>
         mask = 1 .. Cardinality(Live(start))

TidyAll == \A j \in Blocks : Tidy(j)
RequestInv == ReqType /\ TidyAll /\ QueueInv /\ StartInv

\* The positions that one round chooses.
LEMMA RoundEffect ==
  ASSUME ReqType, NEW j \in Blocks, NEW q, NEW m \in SUBSET Pos, NEW k \in Nat, k <= Cardinality(m),
         Round(j, q, m, k)
  PROVE  /\ waiting' \in [Blocks -> SUBSET Nat] /\ unasked' \in [Blocks -> SUBSET Nat]
         /\ rest' \in [Blocks -> SUBSET Nat] /\ failed' \in [Blocks -> Nat]
         /\ \A h \in Blocks \ {j} : /\ waiting'[h] = waiting[h] /\ unasked'[h] = unasked[h]
                                    /\ rest'[h] = rest[h] /\ failed'[h] = failed[h]
         /\ waiting'[j] \cup unasked'[j] \cup rest'[j] \subseteq m
         /\ waiting'[j] \cap unasked'[j] = {} /\ rest'[j] \cap (waiting'[j] \cup unasked'[j]) = {}
         /\ \A p \in waiting'[j] : q[p] \notin skip
         /\ mask' \subseteq mask
         /\ j = start => rest'[j] = {}
         /\ j = start /\ mask = m /\ m = 1 .. Cardinality(m) => mask' = 1 .. Cardinality(waiting'[j] \cup unasked'[j])
         /\ (\A p \in m : q[p] \notin skip) =>
              /\ unasked'[j] = {} /\ failed'[j] = 0 /\ m = waiting'[j] \cup rest'[j]
              /\ j # start => /\ waiting'[j] = FirstOf(m, k) /\ Cardinality(waiting'[j]) = k
                              /\ mask' = mask
<1> DEFINE chosen == IF j = start THEN m ELSE FirstOf(m, k)
           skipped == {p \in chosen : q[p] \in skip}
           sent == {p \in chosen : \A h \in skipped : p < h}
<1>1. /\ waiting' = [waiting EXCEPT ![j] = sent]
      /\ unasked' = [unasked EXCEPT ![j] = chosen \ (sent \cup skipped)]
      /\ rest' = [rest EXCEPT ![j] = m \ chosen]
      /\ failed' = [failed EXCEPT ![j] = Cardinality(skipped)]
      /\ mask' = IF j = start THEN FirstOf(mask, Cardinality(mask) - Cardinality(skipped))
                 ELSE IF skipped # {} THEN mask \ {1} ELSE mask
  BY DEF Round
<1>2. FirstOf(m, k) \subseteq m /\ Cardinality(FirstOf(m, k)) = k
  <2>1. Len(queue) \in Nat
    BY DEF ReqType
  <2> QED
    BY <2>1, FirstOfCount DEF Pos
<1>3. chosen \subseteq m /\ skipped \subseteq chosen /\ sent \subseteq chosen
  BY <1>2
<1>4. sent \cap skipped = {}
  <2>1. \A p \in chosen : p \in Nat /\ ~(p < p)
    BY <1>3 DEF Pos
  <2> QED
    BY <2>1
<1>5. chosen = sent \cup (chosen \ (sent \cup skipped)) \cup skipped
  BY <1>3
<1>6. /\ IsFiniteSet(chosen) /\ Cardinality(chosen) \in Nat
      /\ IsFiniteSet(skipped) /\ Cardinality(skipped) \in Nat /\ Cardinality(skipped) <= Cardinality(chosen)
      /\ IsFiniteSet(m) /\ Cardinality(m) \in Nat
  <2>0. Len(queue) \in Nat /\ m \subseteq 1 .. Len(queue)
    BY DEF ReqType, Pos
  <2> HIDE DEF chosen, skipped
  <2>1. Len(queue) \in Nat /\ m \subseteq 1 .. Len(queue) /\ chosen \subseteq 1 .. Len(queue) /\ skipped \subseteq 1 .. Len(queue)
    BY <2>0, <1>3
  <2>2. IsFiniteSet(chosen)
    BY <2>1, PositionSets
  <2> QED
    BY <2>1, <2>2, <1>3, PositionSets, FS_Subset
<1>a. (\A p \in m : q[p] \notin skip) => skipped = {}
  BY <1>3
<1>b. skipped = {} => sent = chosen
  OBVIOUS
<1>c. \A p \in sent : q[p] \notin skip
  BY <1>4
<1> HIDE DEF sent, skipped
<1>7. /\ waiting'[j] = sent /\ unasked'[j] = chosen \ (sent \cup skipped) /\ rest'[j] = m \ chosen
      /\ failed'[j] = Cardinality(skipped)
      /\ waiting' \in [Blocks -> SUBSET Nat] /\ unasked' \in [Blocks -> SUBSET Nat]
      /\ rest' \in [Blocks -> SUBSET Nat] /\ failed' \in [Blocks -> Nat]
      /\ \A h \in Blocks \ {j} : /\ waiting'[h] = waiting[h] /\ unasked'[h] = unasked[h]
                                 /\ rest'[h] = rest[h] /\ failed'[h] = failed[h]
  <2>0. Len(queue) \in Nat /\ m \subseteq 1 .. Len(queue)
    BY DEF ReqType, Pos
  <2> HIDE DEF chosen
  <2>1. m \in SUBSET Nat /\ chosen \in SUBSET Nat /\ sent \in SUBSET Nat
    BY <2>0, <1>3
  <2> QED
    BY <1>1, <1>6, <2>1 DEF ReqType
<1>8. mask' \subseteq mask
  BY <1>1 DEF FirstOf
<1>9. ASSUME j = start, mask = m, m = 1 .. Cardinality(m)
      PROVE  mask' = 1 .. Cardinality(waiting'[j] \cup unasked'[j])
  <2>1. chosen = m /\ waiting'[j] \cup unasked'[j] = chosen \ skipped
    BY <1>9, <1>3, <1>4, <1>7
  <2>2. Cardinality(chosen \ skipped) = Cardinality(chosen) - Cardinality(skipped)
    <3>1. chosen \cap skipped = skipped
      BY <1>3
    <3>2. \A S, T : IsFiniteSet(S) => Cardinality(S \ T) = Cardinality(S) - Cardinality(S \cap T)
      BY FS_Difference
    <3> HIDE DEF chosen
    <3> QED
      BY <3>1, <3>2, <1>6
  <2>3. mask' = FirstOf(1 .. Cardinality(m), Cardinality(m) - Cardinality(skipped))
    BY <1>1, <1>9
  <2>4. Cardinality(m) - Cardinality(skipped) \in 0 .. Cardinality(m)
    BY <1>6, <2>1
  <2>5. mask' = 1 .. (Cardinality(m) - Cardinality(skipped))
    BY <2>3, <2>4, <1>6, FirstOfInterval
  <2> QED
    BY <2>1, <2>2, <2>5
<1>10. ASSUME \A p \in m : q[p] \notin skip
       PROVE  /\ unasked'[j] = {} /\ failed'[j] = 0 /\ m = waiting'[j] \cup rest'[j]
              /\ j # start => /\ waiting'[j] = FirstOf(m, k) /\ Cardinality(waiting'[j]) = k
                              /\ mask' = mask
  <2>1. skipped = {} /\ sent = chosen /\ Cardinality(skipped) = 0
    BY <1>10, <1>a, <1>b, FS_EmptySet
  <2> QED
    BY <2>1, <1>1, <1>2, <1>3, <1>7
<1> QED
  BY <1>3, <1>4, <1>7, <1>8, <1>9, <1>10, <1>c

\* A round after the first request, when no blobber that is left is skipped.
LEMMA CleanRound ==
  ASSUME ReqType, NEW j \in Blocks, NEW q, NEW m \in SUBSET Pos, NEW k \in Nat, k <= Cardinality(m),
         Round(j, q, m, k), \A p \in m : q[p] \notin skip, j # start
  PROVE  /\ \A h \in Blocks \ {j} : /\ waiting'[h] = waiting[h] /\ unasked'[h] = unasked[h]
                                    /\ rest'[h] = rest[h] /\ failed'[h] = failed[h]
         /\ unasked'[j] = {} /\ failed'[j] = 0 /\ m = waiting'[j] \cup rest'[j]
         /\ waiting'[j] = FirstOf(m, k) /\ Cardinality(waiting'[j]) = k /\ mask' = mask
<1>1. \A h \in Blocks \ {j} : /\ waiting'[h] = waiting[h] /\ unasked'[h] = unasked[h]
                              /\ rest'[h] = rest[h] /\ failed'[h] = failed[h]
  BY RoundEffect
<1>2. (\A p \in m : q[p] \notin skip) =>
        /\ unasked'[j] = {} /\ failed'[j] = 0 /\ m = waiting'[j] \cup rest'[j]
        /\ j # start => /\ waiting'[j] = FirstOf(m, k) /\ Cardinality(waiting'[j]) = k
                        /\ mask' = mask
  BY RoundEffect
<1> QED
  BY <1>1, <1>2

\* The first request waits for all of them.
LEMMA CleanFirstRound ==
  ASSUME ReqType, NEW j \in Blocks, NEW q, NEW m \in SUBSET Pos, NEW k \in Nat, k <= Cardinality(m),
         Round(j, q, m, k), \A p \in m : q[p] \notin skip
  PROVE  j = start => m = waiting'[j]
<1>1. (\A p \in m : q[p] \notin skip) => m = waiting'[j] \cup rest'[j]
  BY RoundEffect
<1>2. j = start => rest'[j] = {}
  BY RoundEffect
<1> QED
  BY <1>1, <1>2

\* A queue has as many positions as blobbers.
LEMMA QueueBlobbers ==
  ASSUME ReqType
  PROVE  IsFiniteSet(ToSet(queue)) /\ Cardinality(ToSet(queue)) = Len(queue) /\ ToSet(queue) \subseteq Blobbers
<1>1. queue \in Seq(Blobbers) /\ Distinct(queue)
  BY DEF ReqType
<1>2. ToSet(queue) \subseteq Blobbers
  BY <1>1 DEF ToSet
<1>3. IsFiniteSet(ToSet(queue))
  BY <1>2, SizesAssumption, FS_Subset
<1>4. {p \in 1 .. Len(queue) : queue[p] \in ToSet(queue)} = 1 .. Len(queue)
  BY <1>1 DEF ToSet
<1>5. ToSet(queue) \cap ToSet(queue) = ToSet(queue)
  OBVIOUS
<1>6. Cardinality(1 .. Len(queue)) = Len(queue)
  <2>1. Len(queue) \in Nat
    BY <1>1
  <2> QED
    BY <2>1, PositionCount
<1> QED
  BY <1>1, <1>2, <1>3, <1>4, <1>5, <1>6, CountPositions

\* The sort keeps the blobbers of the queue; those that answered come first.
LEMMA SortEffect ==
  ASSUME ReqType, NEW q \in IF i = start + 1 THEN Sorted ELSE {queue}
  PROVE  /\ q \in Seq(Blobbers) /\ Len(q) = Len(queue) /\ ToSet(q) = ToSet(queue) /\ Distinct(q)
         /\ i # start + 1 => q = queue
         /\ i = start + 1 /\ got[start] \subseteq ToSet(queue) =>
              {p \in 1 .. Len(q) : q[p] \in got[start]} = 1 .. Cardinality(got[start])
<1>0. /\ IsFiniteSet(ToSet(queue)) /\ Cardinality(ToSet(queue)) = Len(queue)
      /\ ToSet(queue) \subseteq Blobbers /\ Len(queue) \in Nat
      /\ queue \in Seq(Blobbers) /\ Distinct(queue)
  BY QueueBlobbers DEF ReqType
<1>1. CASE i # start + 1
  BY <1>0, <1>1
<1>2. CASE i = start + 1
  <2>1. q \in Sorted
    BY <1>2
  <2>2. q \in Orders(ToSet(queue)) /\ \A k, l \in DOMAIN q : k < l /\ q[l] \in got[start] => q[k] \in got[start]
    BY <2>1 DEF Sorted
  <2>3. q \in Seq(ToSet(queue)) /\ Len(q) = Len(queue) /\ ToSet(q) = ToSet(queue) /\ Distinct(q)
    BY <2>2, <1>0, OrdersFacts
  <2>4. q \in Seq(Blobbers)
    BY <2>3, <1>0
  <2>5. ASSUME got[start] \subseteq ToSet(queue)
        PROVE  {p \in 1 .. Len(q) : q[p] \in got[start]} = 1 .. Cardinality(got[start])
    <3> DEFINE D == {p \in 1 .. Len(q) : q[p] \in got[start]}
               g == Cardinality(got[start])
    <3>1. got[start] \cap ToSet(q) = got[start]
      BY <2>3, <2>5
    <3>2. Cardinality(D) = g
      BY <3>1, <2>3, <2>4, CountPositions
    <3>3. D \in SUBSET (1 .. Len(q)) /\ Len(q) \in Nat /\ DOMAIN q = 1 .. Len(q)
      BY <2>3, <2>4, <1>0
    <3>4. \A k, l \in 1 .. Len(q) : k < l /\ l \in D => k \in D
      BY <2>2, <3>3
    <3> HIDE DEF D, g
    <3>5. IsFiniteSet(D) /\ g \in Nat
      BY <3>2, <3>3, PositionSets
    <3>6. ASSUME NEW l \in D PROVE l <= g
      <4>1. l \in 1 .. Len(q) /\ 1 .. l \subseteq D
        BY <3>3, <3>4, <3>6
      <4>2. Cardinality(1 .. l) = l
        BY <4>1, FS_Interval
      <4> QED
        BY <4>1, <4>2, <3>2, <3>5, FS_Subset
    <3>7. D \in SUBSET (1 .. g)
      BY <3>3, <3>5, <3>6
    <3>8. IsFiniteSet(1 .. g) /\ Cardinality(1 .. g) = g
      BY <3>5, FS_Interval
    <3>9. D = 1 .. g
      BY <3>2, <3>7, <3>8, FS_Subset
    <3> QED
      BY <3>9 DEF D, g
  <2> QED
    BY <2>3, <2>4, <2>5, <1>2
<1> QED
  BY <1>1, <1>2

\* A request that nothing happens to.
LEMMA TidyFrame ==
  ASSUME NEW h \in Blocks, Tidy(h), UNCHANGED queue, state'[h] = state[h], waiting'[h] = waiting[h],
         asked'[h] = asked[h], unasked'[h] = unasked[h], rest'[h] = rest[h], got'[h] = got[h]
  PROVE  Tidy(h)' /\ Out(h)' = Out(h) /\ Gotten(h)' = Gotten(h) /\ Live(h)' = Live(h)
<1>1. Pos' = Pos /\ ToSet(queue)' = ToSet(queue)
  BY DEF Pos, ToSet
<1>2. Out(h)' = Out(h)
  BY DEF Out
<1>3. Gotten(h)' = Gotten(h)
  BY <1>1 DEF Gotten
<1>4. Live(h)' = Live(h)
  BY <1>2, <1>3 DEF Live
<1> QED
  BY <1>1, <1>2, <1>3, <1>4 DEF Tidy

\* The steps that the requests have no part in.
LEMMA RequestFrame ==
  ASSUME RequestInv, UNCHANGED <<reqVars, queue, mask, skip, buffers, start, i, egErr>>,
         pc' = pc \/ pc' = "done" \/ (pc = "loop" /\ pc' = "closing")
  PROVE  RequestInv'
<1>0. ReqType /\ TidyAll /\ QueueInv /\ StartInv
  BY DEF RequestInv
<1>1. /\ UNCHANGED <<state, waiting, asked, unasked, rest, failed, got>>
      /\ UNCHANGED <<queue, mask, skip, buffers, start, i, egErr>>
  BY DEF reqVars
<1>2. Pos' = Pos
  BY <1>1 DEF Pos
<1>3. ReqType'
  BY <1>0, <1>1, <1>2 DEF ReqType, Distinct
<1>4. \A h \in Blocks : Tidy(h)' /\ Live(h)' = Live(h)
  BY <1>0, <1>1, TidyFrame DEF TidyAll
<1>5. TidyAll'
  BY <1>4 DEF TidyAll
<1>6. QueueInv'
  BY <1>0, <1>1 DEF QueueInv, Under
<1>7. StartInv'
  <2>1. CASE pc' # "loop"
    BY <2>1 DEF StartInv
  <2>2. CASE pc' = "loop"
    <3>1. pc = "loop" /\ start \in Blocks
      <4>1. pc = "loop"
        BY <2>2
      <4> QED
        BY <4>1, <1>0, SizesAssumption DEF ReqType, QueueInv, Under, Blocks
    <3>2. Live(start)' = Live(start)
      BY <3>1, <1>1, <1>4
    <3> QED
      BY <3>1, <3>2, <1>0, <1>1, <1>2 DEF StartInv
  <2> QED
    BY <2>1, <2>2
<1> QED
  BY <1>3, <1>5, <1>6, <1>7 DEF RequestInv

\* Between attempts no request is under way.
LEMMA FreshRequests ==
  ASSUME NoRequests, queue' \in Seq(Blobbers), Distinct(queue)'
  PROVE  /\ TidyAll' /\ \A j \in Blocks : state'[j] = "none"
         /\ (mask \subseteq Pos /\ start \in Nat /\ i \in Nat)' => ReqType'
<1>1. /\ state' \in [Blocks -> {"none", "running", "returned"}]
      /\ waiting' \in [Blocks -> SUBSET Nat] /\ asked' \in [Blocks -> SUBSET Nat]
      /\ unasked' \in [Blocks -> SUBSET Nat] /\ rest' \in [Blocks -> SUBSET Nat]
      /\ failed' \in [Blocks -> Nat] /\ got' \in [Blocks -> SUBSET Blobbers]
  BY DEF NoRequests, Fresh
<1>2. \A j \in Blocks : state'[j] = "none" /\ waiting'[j] = {} /\ asked'[j] = {} /\ unasked'[j] = {} /\ rest'[j] = {} /\ got'[j] = {}
  BY DEF NoRequests, Fresh
<1>3. \A j \in Blocks : Tidy(j)'
  BY <1>2 DEF Tidy, Out, Gotten, Live
<1> QED
  BY <1>1, <1>2, <1>3 DEF TidyAll, ReqType

\* The queue of a download has enough blobbers, each of them once.
LEMMA GetFileRefQueue ==
  ASSUME RequestInv, ProgressInv, GetFileRef
  PROVE  RequestInv'
<1>0. ReqType /\ TidyAll /\ QueueInv /\ StartInv /\ pc = "meta"
  BY DEF RequestInv, GetFileRef
<1>1. UNCHANGED <<reqVars, i, egErr>>
  BY DEF GetFileRef
<1>2. CASE pc' = "done"
  <2>1. UNCHANGED <<queue, mask, skip, buffers, start>>
    BY <1>2 DEF GetFileRef, queueVars
  <2> QED
    BY <1>1, <1>2, <2>1, RequestFrame
<1>3. CASE pc' # "done"
  <2> DEFINE from == IF writerAt /\ saved # NoProgress /\ file # {} THEN saved ELSE 0
  <2>1. PICK missing \in SUBSET Blobbers :
          /\ Cardinality(Blobbers \ missing) >= Thresh
          /\ queue' \in GetFileMetaConsensus(Blobbers \ missing)
          /\ start' = from /\ from < NumBlocks /\ pc' = "markers"
          /\ UNCHANGED <<skip, mask, buffers>>
    BY <1>3 DEF GetFileRef, ErrorCB
  <2> DEFINE known == Blobbers \ missing
  <2>2. PICK found \in SUBSET known :
          Cardinality(found) = Min({Cardinality(known), CountThreshold}) /\ queue' \in Orders(found)
    BY <2>1 DEF GetFileMetaConsensus
  <2>3. IsFiniteSet(known) /\ Cardinality(known) \in Nat /\ IsFiniteSet(found) /\ found \subseteq Blobbers
    BY <2>2, SizesAssumption, FS_Subset, FS_CardinalityType
  <2>4. CountThreshold \in Nat /\ CountThreshold >= Thresh /\ Thresh \in Nat
    BY SizesAssumption, FS_CardinalityType DEF CountThreshold
  <2>5. Cardinality(found) >= Thresh /\ Cardinality(found) \in Nat
    <3>1. Cardinality(known) >= Thresh
      BY <2>1
    <3>2. Cardinality(found) \in {Cardinality(known), CountThreshold}
      <4> HIDE DEF known
      <4> DEFINE least == CHOOSE x \in {Cardinality(known), CountThreshold} : \A y \in {Cardinality(known), CountThreshold} : x <= y
      <4>1. Cardinality(found) = least
        BY <2>2 DEF Min
      <4>2. \E x \in {Cardinality(known), CountThreshold} : \A y \in {Cardinality(known), CountThreshold} : x <= y
        BY <2>3, <2>4
      <4> QED
        BY <4>1, <4>2
    <3> QED
      BY <3>1, <3>2, <2>3, <2>4
  <2>6. queue' \in Seq(Blobbers) /\ Len(queue') = Cardinality(found) /\ Distinct(queue')
    <3>1. queue' \in Seq(found) /\ Len(queue') = Cardinality(found) /\ Distinct(queue')
      BY <2>2, <2>3, OrdersFacts
    <3> QED
      BY <3>1, <2>3
  <2>7. start' \in Nat /\ start' < NumBlocks
    <3>1. start' \in 0 .. NumBlocks
      BY GetFileRefEffect
    <3> QED
      BY <3>1, <2>1, SizesAssumption
  <2>8. /\ UNCHANGED <<state, waiting, asked, unasked, rest, failed, got>> /\ mask = {} /\ buffers = {}
        /\ \A j \in Blocks : state[j] = "none"
    BY <1>0, <1>1 DEF reqVars, QueueInv
  <2>9. \A j \in Blocks : got[j] = {} /\ rest[j] = {} /\ waiting[j] = {} /\ asked[j] = {} /\ unasked[j] = {}
    BY <1>0, <2>8 DEF TidyAll, Tidy, Out
  <2>10. ReqType'
    BY <1>0, <1>1, <2>1, <2>6, <2>7, <2>8 DEF ReqType
  <2>11. TidyAll'
    BY <2>8, <2>9 DEF TidyAll, Tidy, Out, Gotten, Live
  <2>12. QueueInv'
    BY <2>1, <2>5, <2>6, <2>7, <2>8 DEF QueueInv, Under
  <2>13. StartInv'
    BY <2>1 DEF StartInv
  <2> QED
    BY <2>10, <2>11, <2>12, <2>13 DEF RequestInv
<1> QED
  BY <1>2, <1>3

\* The loop begins with a mask of the positions that are left, whichever blobbers are.
LEMMA SubmitReadMarkersQueue ==
  ASSUME RequestInv, SubmitReadMarkers
  PROVE  RequestInv'
<1>0. ReqType /\ TidyAll /\ QueueInv /\ pc = "markers"
  BY DEF RequestInv, SubmitReadMarkers
<1>1. UNCHANGED <<queue, start, reqVars, egErr>>
  BY DEF SubmitReadMarkers
<1>a. UNCHANGED <<state, waiting, asked, unasked, rest, failed, got>>
  BY <1>1 DEF reqVars
<1>2. Pos' = Pos /\ Distinct(queue)' = Distinct(queue)
  BY <1>1 DEF Pos, Distinct
<1>3. TidyAll'
  BY <1>0, <1>1, <1>a, TidyFrame DEF TidyAll
<1>4. \A j \in Blocks : state'[j] = "none"
  BY <1>0, <1>a DEF QueueInv
<1>5. CASE pc' = "done"
  <2>1. UNCHANGED <<mask, buffers, i>>
    BY <1>5 DEF SubmitReadMarkers
  <2>2. ReqType'
    BY <1>0, <1>1, <1>a, <1>2, <2>1 DEF ReqType
  <2>3. QueueInv' /\ StartInv'
    BY <1>5 DEF QueueInv, StartInv, Under
  <2> QED
    BY <1>3, <2>2, <2>3 DEF RequestInv
<1>6. CASE pc' # "done"
  <2>1. PICK active \in SUBSET ToSet(queue) :
          /\ Cardinality(active) >= Thresh /\ mask' = 1 .. Cardinality(active)
          /\ i' = start /\ pc' = "loop"
    <3>1. PICK refused \in SUBSET ToSet(queue), lost \in SUBSET ToSet(queue) :
            LET active == ToSet(queue) \ (refused \cup lost)
            IN  /\ Cardinality(active) >= Thresh /\ mask' = 1 .. Cardinality(active)
                /\ i' = start /\ pc' = "loop"
      BY <1>6 DEF SubmitReadMarkers, ErrorCB
    <3> QED
      BY <3>1
  <2>2. /\ IsFiniteSet(ToSet(queue)) /\ Cardinality(ToSet(queue)) = Len(queue)
        /\ Len(queue) \in Nat /\ Thresh \in Nat \ {0} /\ NumBlocks \in Nat
    BY <1>0, QueueBlobbers, SizesAssumption, FS_CardinalityType DEF ReqType
  <2>3. Cardinality(active) \in Nat /\ Cardinality(active) <= Len(queue)
    BY <2>2, FS_Subset, FS_CardinalityType
  <2>4. Cardinality(active) \in Pos /\ mask' \subseteq Pos
    BY <2>1, <2>2, <2>3 DEF Pos
  <2>5. start < NumBlocks /\ start \in Blocks /\ Thresh <= Len(queue)
    BY <1>0, <2>2 DEF QueueInv, ReqType, Blocks
  <2>6. ReqType'
    BY <1>0, <1>1, <1>a, <1>2, <2>1, <2>4 DEF ReqType
  <2>7. QueueInv'
    BY <1>0, <1>1, <1>4, <2>1, <2>5, <2>6 DEF QueueInv, Under, ReqType
  <2>8. StartInv'
    <3>1. state[start] = "none" /\ rest[start] = {} /\ got[start] = {} /\ waiting[start] \cup asked[start] = {}
      BY <1>0, <2>5 DEF QueueInv, TidyAll, Tidy, Out
    <3>2. start' = start /\ state'[start] = "none" /\ rest'[start] = {} /\ got'[start] = {} /\ waiting'[start] \cup asked'[start] = {}
      BY <1>1, <1>a, <3>1
    <3>3. \E n \in Pos' : mask' = 1 .. n
      BY <1>2, <2>1, <2>4
    <3> QED
      BY <3>2, <3>3 DEF StartInv
  <2> QED
    BY <1>3, <2>6, <2>7, <2>8 DEF RequestInv
<1> QED
  BY <1>5, <1>6

\* A step of one request, which runs.
LEMMA OneRequest ==
  ASSUME RequestInv, NEW j \in Blocks, state[j] = "running",
         UNCHANGED <<pc, queue, buffers, start, i, skip>>, ReqType', Tidy(j)',
         \A h \in Blocks \ {j} :
           /\ state'[h] = state[h] /\ waiting'[h] = waiting[h] /\ asked'[h] = asked[h]
           /\ unasked'[h] = unasked[h] /\ rest'[h] = rest[h] /\ got'[h] = got[h],
         state'[j] # "none",
         pc = "loop" /\ j = start =>
           /\ rest'[j] = {} /\ got'[j] \cap skip = {}
           /\ \A p \in waiting'[j] \cup asked'[j] : queue[p] \notin skip
           /\ (egErr' /\ state'[j] # "running") \/ mask' = 1 .. Cardinality(Live(j)')
  PROVE  RequestInv'
<1>0. ReqType /\ TidyAll /\ QueueInv /\ StartInv
  BY DEF RequestInv
<1>1. TidyAll'
  BY <1>0, TidyFrame DEF TidyAll
<1>2. pc \notin {"meta", "markers"}
  BY <1>0 DEF QueueInv
<1>3. \A h \in Blocks : state'[h] # "none" => state[h] # "none"
  OBVIOUS
<1>4. \A h \in Blocks : state'[h] = "running" => state[h] = "running"
  OBVIOUS
<1>5. start \in Nat /\ i \in Nat /\ j \in Nat /\ NumBlocks \in Nat
  BY <1>0, SizesAssumption DEF ReqType, Blocks
<1>6. Under => start < NumBlocks /\ start \in Blocks /\ start <= j /\ j < i
  BY <1>0, <1>5 DEF QueueInv, Blocks
<1>7. QueueInv'
  BY <1>0, <1>2, <1>3, <1>4, <1>6 DEF QueueInv, Under
<1>8. StartInv'
  <2> SUFFICES ASSUME pc = "loop" PROVE StartInv'
    BY DEF StartInv
  <2>1. start \in Blocks /\ start <= j /\ j < i
    BY <1>6 DEF Under
  <2>2. i # start
    BY <1>5, <2>1
  <2>3. CASE j = start
    BY <2>2, <2>3 DEF StartInv
  <2>4. CASE j # start
    <3>1. i > start + 1 /\ state[start] # "running"
      BY <1>0, <1>5, <2>1, <2>4 DEF QueueInv
    <3>2. i # start + 1
      BY <3>1, <1>5
    <3>3. state'[start] = state[start] /\ rest'[start] = rest[start] /\ got'[start] = got[start]
          /\ waiting'[start] = waiting[start] /\ asked'[start] = asked[start]
      BY <2>1, <2>4
    <3> QED
      BY <1>0, <2>2, <3>1, <3>2, <3>3 DEF StartInv
  <2> QED
    BY <2>3, <2>4
<1> QED
  BY <1>1, <1>7, <1>8 DEF RequestInv

\* Only a request that runs is out at a blobber.
LEMMA OutRuns ==
  ASSUME RequestInv, NEW j \in Blocks, Out(j) # {}
  PROVE  state[j] = "running"
BY DEF RequestInv, TidyAll, Tidy

\* A chunk is found, or memory is used.
LEMMA SendRequest ==
  ASSUME RequestInv, NEW j \in Blocks, NEW p, Send(j, p)
  PROVE  RequestInv'
<1>0. ReqType /\ TidyAll /\ QueueInv /\ StartInv
  BY DEF RequestInv
<1>1. /\ p \in waiting[j]
      /\ waiting' = [waiting EXCEPT ![j] = @ \ {p}]
      /\ asked' = [asked EXCEPT ![j] = @ \cup {p}]
      /\ UNCHANGED <<pc, queue, mask, skip, buffers, start, i, state, unasked, rest, failed, got, egErr>>
  BY DEF Send, queueVars
<1>2. state[j] = "running" /\ p \in Pos
  BY <1>0, <1>1, OutRuns DEF TidyAll, Tidy, Out
<1>3. p \in Nat /\ Pos' = Pos
  BY <1>1, <1>2, <1>0 DEF Pos, ReqType
<1>4. ReqType'
  BY <1>0, <1>1, <1>3 DEF ReqType, Distinct
<1>5. waiting'[j] = waiting[j] \ {p} /\ asked'[j] = asked[j] \cup {p}
  BY <1>0, <1>1 DEF ReqType
<1>6. Out(j)' = Out(j) /\ Gotten(j)' = Gotten(j)
  BY <1>1, <1>3, <1>5 DEF Out, Gotten
<1>7. Live(j)' = Live(j)
  BY <1>6 DEF Live
<1>8. Tidy(j)'
  BY <1>0, <1>1, <1>3, <1>5, <1>6, <1>7 DEF TidyAll, Tidy
<1>9. \A h \in Blocks \ {j} : waiting'[h] = waiting[h] /\ asked'[h] = asked[h]
  BY <1>0, <1>1 DEF ReqType
<1>10. pc = "loop" /\ j = start =>
         /\ rest'[j] = {} /\ got'[j] \cap skip = {}
         /\ \A k \in waiting'[j] \cup asked'[j] : queue[k] \notin skip
         /\ mask' = 1 .. Cardinality(Live(j)')
  BY <1>0, <1>1, <1>2, <1>5, <1>7 DEF StartInv
<1> QED
  BY <1>1, <1>2, <1>4, <1>8, <1>9, <1>10, OneRequest

\* An answer moves a position from those out to those got.
LEMMA AnswerRequest ==
  ASSUME RequestInv, NEW j \in Blocks, NEW p, Answer(j, p)
  PROVE  RequestInv' /\ Live(j)' = Live(j)
<1>0. ReqType /\ TidyAll /\ QueueInv /\ StartInv
  BY DEF RequestInv
<1>1. /\ p \in asked[j]
      /\ asked' = [asked EXCEPT ![j] = @ \ {p}]
      /\ got' = [got EXCEPT ![j] = @ \cup {queue[p]}]
      /\ UNCHANGED <<pc, queue, mask, skip, buffers, start, i, state, waiting, unasked, rest, failed, egErr>>
  BY DEF Answer, queueVars
<1>2. state[j] = "running" /\ p \in Pos
  BY <1>0, <1>1, OutRuns DEF TidyAll, Tidy, Out
<1>3. Pos' = Pos /\ queue[p] \in Blobbers /\ queue[p] \in ToSet(queue) /\ ToSet(queue') = ToSet(queue)
  BY <1>0, <1>1, <1>2 DEF Pos, ReqType, ToSet
<1>4. ReqType'
  BY <1>0, <1>1, <1>3 DEF ReqType, Distinct
<1>5. asked'[j] = asked[j] \ {p} /\ got'[j] = got[j] \cup {queue[p]}
  BY <1>0, <1>1 DEF ReqType
<1>6. Gotten(j)' = Gotten(j) \cup {p}
  <2>1. \A k \in Pos : queue[k] = queue[p] => k = p
    BY <1>0, <1>2 DEF ReqType, Distinct, Pos
  <2> QED
    BY <2>1, <1>1, <1>2, <1>3, <1>5 DEF Gotten
<1>7. p \notin waiting[j] /\ p \notin unasked[j] /\ p \notin Gotten(j) /\ p \notin rest[j]
  BY <1>0, <1>1 DEF TidyAll, Tidy, Out, Live
<1>8. Out(j)' = Out(j) \ {p}
  BY <1>1, <1>5, <1>7 DEF Out
<1>9. Live(j)' = Live(j)
  BY <1>1, <1>6, <1>8 DEF Live, Out
<1>10. Tidy(j)'
  <2>1. Tidy(j)
    BY <1>0 DEF TidyAll
  <2>2. (Out(j) \cup rest[j] \subseteq Pos)' /\ (got[j] \subseteq ToSet(queue))'
    BY <2>1, <1>1, <1>3, <1>5, <1>8 DEF Tidy
  <2>3. (waiting[j] \cap asked[j] = {} /\ unasked[j] \cap (waiting[j] \cup asked[j]) = {})'
    BY <2>1, <1>1, <1>5 DEF Tidy
  <2>4. (Out(j) \cap Gotten(j) = {} /\ rest[j] \cap Live(j) = {})'
    BY <2>1, <1>1, <1>6, <1>8, <1>9 DEF Tidy
  <2> QED
    BY <2>2, <2>3, <2>4, <1>1, <1>2 DEF Tidy
<1>11. \A h \in Blocks \ {j} : got'[h] = got[h] /\ asked'[h] = asked[h]
  BY <1>0, <1>1 DEF ReqType
<1>12. pc = "loop" /\ j = start =>
         /\ rest'[j] = {} /\ got'[j] \cap skip = {}
         /\ \A k \in waiting'[j] \cup asked'[j] : queue[k] \notin skip
         /\ mask' = 1 .. Cardinality(Live(j)')
  BY <1>0, <1>1, <1>2, <1>5, <1>9 DEF StartInv
<1>13. RequestInv'
  BY <1>1, <1>2, <1>4, <1>10, <1>11, <1>12, OneRequest
<1> QED
  BY <1>9, <1>13

\* A failure takes a position out of those that the request can have.
LEMMA FailRequest ==
  ASSUME RequestInv, NEW j \in Blocks, NEW p, AnswerFails(j, p)
  PROVE  /\ RequestInv' /\ p \in Live(j) /\ Live(j)' = Live(j) \ {p} /\ Gotten(j)' = Gotten(j)
         /\ state[j] = "running" /\ p \in Pos
<1>0. ReqType /\ TidyAll /\ QueueInv /\ StartInv
  BY DEF RequestInv
<1>1. /\ p \in asked[j]
      /\ asked' = [asked EXCEPT ![j] = @ \ {p}]
      /\ failed' = [failed EXCEPT ![j] = @ + 1]
      /\ mask' = mask \ {IF j = start THEN Max(mask) ELSE p}
      /\ UNCHANGED <<pc, queue, skip, buffers, start, i, state, waiting, unasked, rest, got, egErr>>
  BY DEF AnswerFails
<1>2. state[j] = "running" /\ p \in Pos
  BY <1>0, <1>1, OutRuns DEF TidyAll, Tidy, Out
<1>3. Pos' = Pos
  BY <1>1 DEF Pos
<1>4. ReqType'
  BY <1>0, <1>1, <1>3 DEF ReqType, Distinct
<1>5. asked'[j] = asked[j] \ {p}
  BY <1>0, <1>1 DEF ReqType
<1>6. Gotten(j)' = Gotten(j)
  BY <1>1, <1>3 DEF Gotten
<1>7. p \notin waiting[j] /\ p \notin unasked[j] /\ p \notin Gotten(j) /\ p \notin rest[j]
  BY <1>0, <1>1 DEF TidyAll, Tidy, Out, Live
<1>8. Out(j)' = Out(j) \ {p} /\ p \in Out(j)
  BY <1>1, <1>5, <1>7 DEF Out
<1>9. Live(j)' = Live(j) \ {p} /\ p \in Live(j)
  BY <1>6, <1>7, <1>8 DEF Live
<1>10. Tidy(j)'
  <2>1. Tidy(j)
    BY <1>0 DEF TidyAll
  <2>2. (Out(j) \cup rest[j] \subseteq Pos)' /\ (got[j] \subseteq ToSet(queue))'
    BY <2>1, <1>1, <1>3, <1>8 DEF Tidy, ToSet
  <2>3. (waiting[j] \cap asked[j] = {} /\ unasked[j] \cap (waiting[j] \cup asked[j]) = {})'
    BY <2>1, <1>1, <1>5 DEF Tidy
  <2>4. (Out(j) \cap Gotten(j) = {} /\ rest[j] \cap Live(j) = {})'
    BY <2>1, <1>1, <1>6, <1>8, <1>9 DEF Tidy
  <2> QED
    BY <2>2, <2>3, <2>4, <1>1, <1>2 DEF Tidy
<1>11. \A h \in Blocks \ {j} : asked'[h] = asked[h]
  BY <1>0, <1>1 DEF ReqType
<1>12. ASSUME pc = "loop", j = start
       PROVE  /\ rest'[j] = {} /\ got'[j] \cap skip = {}
              /\ \A k \in waiting'[j] \cup asked'[j] : queue[k] \notin skip
              /\ mask' = 1 .. Cardinality(Live(j)')
  <2> DEFINE n == Cardinality(Live(j))
  <2>1. mask = 1 .. n
    BY <1>0, <1>2, <1>12 DEF StartInv
  <2>2. Live(j) \subseteq Pos /\ Len(queue) \in Nat
    BY <1>0 DEF TidyAll, Tidy, ReqType, Live, Gotten
  <2>3. IsFiniteSet(Live(j)) /\ n \in Nat
    BY <2>2, PositionSets DEF Pos
  <2>4. Cardinality(Live(j)') = n - 1 /\ n # 0
    BY <2>3, <1>9, FS_RemoveElement, FS_EmptySet
  <2> HIDE DEF n
  <2>5. Max(mask) = n
    <3>1. n \in 1 .. n /\ \A y \in 1 .. n : y <= n
      BY <2>3, <2>4
    <3>2. \A x \in 1 .. n : (\A y \in 1 .. n : x >= y) => x = n
      BY <3>1, <2>3
    <3>3. Max(1 .. n) = CHOOSE x \in 1 .. n : \A y \in 1 .. n : x >= y
      BY DEF Max
    <3>4. \E x \in 1 .. n : \A y \in 1 .. n : x >= y
      BY <3>1, <2>3
    <3> QED
      BY <3>2, <3>3, <3>4, <2>1
  <2>6. mask' = 1 .. n - 1
    <3>1. (1 .. n) \ {n} = 1 .. n - 1
      BY <2>3
    <3> QED
      BY <3>1, <2>1, <2>5, <1>1, <1>12
  <2> QED
    BY <1>0, <1>1, <1>5, <1>12, <2>4, <2>6 DEF StartInv
<1>13. RequestInv'
  BY <1>1, <1>2, <1>4, <1>10, <1>11, <1>12, OneRequest
<1> QED
  BY <1>2, <1>6, <1>9, <1>13

\* The blobbers of a new round are some of those that are left.
LEMMA NextRoundRequest ==
  ASSUME RequestInv, NEW j \in Blocks, NextRound(j)
  PROVE  RequestInv'
<1>0. ReqType /\ TidyAll /\ QueueInv /\ StartInv
  BY DEF RequestInv
<1>1. /\ state[j] = "running" /\ Out(j) = {} /\ ~Enough(j)
      /\ UNCHANGED <<pc, queue, buffers, start, i, skip, asked, got>>
  BY DEF NextRound, Answered, Out
<1>2. Pos' = Pos /\ ToSet(queue)' = ToSet(queue) /\ Gotten(j)' = Gotten(j) /\ Tidy(j)
  BY <1>0, <1>1 DEF Pos, ToSet, Gotten, TidyAll
<1>3. CASE /\ RequestFails(j)
           /\ UNCHANGED <<waiting, unasked, rest, failed, mask>>
  <2>1. state' = [state EXCEPT ![j] = "returned"] /\ egErr' = TRUE
    BY <1>3 DEF RequestFails
  <2>2. ReqType'
    BY <1>0, <1>1, <1>2, <1>3, <2>1 DEF ReqType, Distinct
  <2>3. Out(j)' = Out(j) /\ Live(j)' = Live(j)
    BY <1>1, <1>2, <1>3 DEF Out, Live
  <2>4. state'[j] = "returned" /\ \A h \in Blocks \ {j} : state'[h] = state[h]
    BY <1>0, <2>1 DEF ReqType
  <2>5. Tidy(j)'
    BY <1>1, <1>2, <1>3, <2>3, <2>4 DEF Tidy
  <2>6. pc = "loop" /\ j = start =>
          /\ rest'[j] = {} /\ got'[j] \cap skip = {}
          /\ \A p \in waiting'[j] \cup asked'[j] : queue[p] \notin skip
    BY <1>0, <1>1, <1>3 DEF StartInv
  <2> QED
    BY <1>1, <1>3, <2>1, <2>2, <2>4, <2>5, <2>6, OneRequest
<1>4. CASE /\ failed[j] <= Cardinality(rest[j])
           /\ Round(j, queue, rest[j], failed[j])
           /\ UNCHANGED <<state, egErr>>
  <2>1. rest[j] \in SUBSET Pos /\ failed[j] \in Nat
    BY <1>0, <1>2 DEF Tidy, ReqType
  <2>2. /\ waiting' \in [Blocks -> SUBSET Nat] /\ unasked' \in [Blocks -> SUBSET Nat]
        /\ rest' \in [Blocks -> SUBSET Nat] /\ failed' \in [Blocks -> Nat]
        /\ \A h \in Blocks \ {j} : waiting'[h] = waiting[h] /\ unasked'[h] = unasked[h] /\ rest'[h] = rest[h]
        /\ waiting'[j] \cup unasked'[j] \cup rest'[j] \subseteq rest[j]
        /\ waiting'[j] \cap unasked'[j] = {} /\ rest'[j] \cap (waiting'[j] \cup unasked'[j]) = {}
        /\ mask' \subseteq mask
    BY <1>0, <1>4, <2>1, RoundEffect
  <2>3. ReqType'
    BY <1>0, <1>1, <1>2, <1>4, <2>2 DEF ReqType, Distinct
  <2>4. asked'[j] = {} /\ Out(j)' = waiting'[j] \cup unasked'[j]
    BY <1>1 DEF Out
  <2>5. Tidy(j)'
    <3>1. (Out(j) \cup rest[j] \subseteq Pos)' /\ (got[j] \subseteq ToSet(queue))'
      BY <1>1, <1>2, <2>1, <2>2, <2>4 DEF Tidy
    <3>2. (waiting[j] \cap asked[j] = {} /\ unasked[j] \cap (waiting[j] \cup asked[j]) = {})'
      BY <2>2, <2>4
    <3>3. rest[j] \cap Gotten(j) = {}
      BY <1>2 DEF Tidy, Live
    <3>4. (Out(j) \cap Gotten(j) = {} /\ rest[j] \cap Live(j) = {})'
      BY <3>3, <1>2, <2>2, <2>4 DEF Live
    <3> QED
      BY <3>1, <3>2, <3>4, <1>1, <1>4 DEF Tidy
  <2>6. ASSUME pc = "loop", j = start PROVE FALSE
    <3>1. rest[j] = {}
      BY <1>0, <2>6 DEF StartInv
    <3>2. failed[j] = 0
      BY <3>1, <1>4, <2>1, FS_EmptySet
    <3> QED
      BY <3>2, <1>1 DEF Enough
  <2> QED
    BY <1>1, <1>4, <2>2, <2>3, <2>5, <2>6, OneRequest
<1> QED
  BY <1>3, <1>4 DEF NextRound

\* A request that ends was answered by everyone it asked.
LEMMA EndRequest ==
  ASSUME RequestInv, NEW j \in Blocks, BlockDone(j) \/ WriteAtFails(j)
  PROVE  RequestInv'
<1>0. ReqType /\ TidyAll /\ QueueInv /\ StartInv
  BY DEF RequestInv
<1>1. /\ state[j] = "running" /\ Out(j) = {}
      /\ state' = [state EXCEPT ![j] = "returned"]
      /\ UNCHANGED <<pc, queue, mask, buffers, start, i, skip, waiting, asked, unasked, rest, failed, got>>
  <2>1. CASE BlockDone(j)
    BY <2>1 DEF BlockDone, Answered, RequestFails, queueVars, Out
  <2>2. CASE WriteAtFails(j)
    BY <2>2 DEF WriteAtFails, Answered, RequestFails, queueVars, Out
  <2> QED
    BY <2>1, <2>2
<1>2. Pos' = Pos /\ ToSet(queue)' = ToSet(queue) /\ Gotten(j)' = Gotten(j) /\ Out(j)' = Out(j) /\ Live(j)' = Live(j) /\ Tidy(j)
  BY <1>0, <1>1 DEF Pos, ToSet, Gotten, TidyAll, Out, Live
<1>3. ReqType'
  BY <1>0, <1>1, <1>2 DEF ReqType, Distinct
<1>4. state'[j] = "returned" /\ \A h \in Blocks \ {j} : state'[h] = state[h]
  BY <1>0, <1>1 DEF ReqType
<1>5. Tidy(j)'
  BY <1>1, <1>2, <1>4 DEF Tidy
<1>6. pc = "loop" /\ j = start =>
        /\ rest'[j] = {} /\ got'[j] \cap skip = {}
        /\ \A p \in waiting'[j] \cup asked'[j] : queue[p] \notin skip
        /\ mask' = 1 .. Cardinality(Live(j)')
  BY <1>0, <1>1, <1>2 DEF StartInv
<1> QED
  BY <1>1, <1>3, <1>4, <1>5, <1>6, OneRequest

\* A request that has not started has nothing.
LEMMA NothingYet ==
  ASSUME RequestInv, NEW h \in Blocks, state[h] = "none"
  PROVE  Out(h) = {} /\ waiting[h] = {} /\ asked[h] = {} /\ unasked[h] = {} /\ rest[h] = {} /\ got[h] = {}
BY DEF RequestInv, TidyAll, Tidy, Out

\* What the other requests have, when the queue is sorted.
LEMMA SortedTidy ==
  ASSUME RequestInv, pc = "loop", i = start + 1 => state[start] = "returned",
         NEW q \in IF i = start + 1 THEN Sorted ELSE {queue}, queue' = q,
         NEW h \in Blocks, state'[h] = state[h], waiting'[h] = waiting[h],
         asked'[h] = asked[h], unasked'[h] = unasked[h], rest'[h] = rest[h], got'[h] = got[h]
  PROVE  Tidy(h)'
<1>0. ReqType /\ TidyAll /\ QueueInv /\ StartInv
  BY DEF RequestInv
<1>1. Len(q) = Len(queue) /\ ToSet(q) = ToSet(queue) /\ (i # start + 1 => q = queue)
  BY <1>0, SortEffect
<1>2. CASE i # start + 1
  BY <1>0, <1>1, <1>2, TidyFrame DEF TidyAll
<1>3. CASE i = start + 1
  <2>1. Out(h) = {} /\ rest[h] = {} /\ got[h] \subseteq ToSet(queue)
    <3>1. CASE state[h] = "none"
      BY <3>1, NothingYet
    <3>2. CASE state[h] # "none"
      <4>1. h = start
        BY <3>2, <1>0, <1>3 DEF QueueInv, Under, ReqType, Blocks
      <4> QED
        BY <4>1, <1>0, <1>3 DEF TidyAll, Tidy, StartInv
    <3> QED
      BY <3>1, <3>2
  <2>2. waiting[h] = {} /\ asked[h] = {} /\ unasked[h] = {}
    BY <2>1 DEF Out
  <2>3. state[h] = "none" => got[h] = {}
    BY NothingYet
  <2> QED
    BY <2>1, <2>2, <2>3, <1>1 DEF Tidy, Out, Gotten, Live
<1> QED
  BY <1>2, <1>3

\* The three ways in which the loop goes on.
PassesOver == (egErr \/ ctxDone) /\ UNCHANGED <<mask, reqVars, egErr>>
FailsAtOnce(j) ==
  /\ ~egErr /\ ~ctxDone /\ Cardinality(mask) < Thresh
  /\ RequestFails(j) /\ UNCHANGED <<mask, waiting, asked, unasked, rest, failed, got>>
Starts(j, q) ==
  /\ ~egErr /\ ~ctxDone /\ Cardinality(mask) >= Thresh
  /\ Round(j, q, mask, Thresh)
  /\ state' = [state EXCEPT ![j] = "running"]
  /\ UNCHANGED <<asked, got, egErr>>

LEMMA StartRequestCases ==
  ASSUME RequestInv, LoopInv, StartRequest
  PROVE  /\ \E q \in IF i = start + 1 THEN Sorted ELSE {queue} :
              queue' = q /\ (PassesOver \/ FailsAtOnce(i) \/ Starts(i, q))
         /\ pc = "loop" /\ i' = i + 1 /\ (i = start + 1 => state[start] = "returned")
         /\ UNCHANGED <<pc, skip, buffers, start>>
         /\ i \in Blocks /\ start \in Blocks /\ start <= i /\ i \in Nat /\ start \in Nat /\ state[i] = "none"
<1>1. \E q \in IF i = start + 1 THEN Sorted ELSE {queue} :
        queue' = q /\ (PassesOver \/ FailsAtOnce(i) \/ Starts(i, q))
  <2>1. PICK q \in IF i = start + 1 THEN Sorted ELSE {queue} :
          /\ queue' = q
          /\ \/ /\ egErr \/ ctxDone
                /\ UNCHANGED <<mask, reqVars, egErr>>
             \/ /\ ~egErr /\ ~ctxDone
                /\ Cardinality({j \in Blocks : state[j] = "running"}) < Limit
                /\ IF Cardinality(mask) < Thresh
                     THEN RequestFails(i) /\ UNCHANGED <<mask, waiting, unasked, rest, failed>>
                     ELSE /\ Round(i, q, mask, Thresh)
                          /\ state' = [state EXCEPT ![i] = "running"]
                          /\ UNCHANGED egErr
                /\ UNCHANGED <<asked, got>>
    BY DEF StartRequest
  <2>2. mask \subseteq Pos /\ Len(queue) \in Nat /\ Thresh \in Nat
    BY SizesAssumption, FS_CardinalityType DEF RequestInv, ReqType
  <2>3. Cardinality(mask) \in Nat
    BY <2>2, PositionSets DEF Pos
  <2>4. ~(Cardinality(mask) < Thresh) => Cardinality(mask) >= Thresh
    BY <2>2, <2>3
  <2> QED
    BY <2>1, <2>4 DEF PassesOver, FailsAtOnce, Starts
<1>2. /\ pc = "loop" /\ i' = i + 1 /\ (i = start + 1 => state[start] = "returned")
      /\ UNCHANGED <<pc, skip, buffers, start>> /\ i < NumBlocks
  BY DEF StartRequest
<1>3. i \in Nat /\ start \in Nat /\ NumBlocks \in Nat /\ start <= i
  BY <1>2, SizesAssumption DEF RequestInv, ReqType, LoopInv, Under
<1>4. i \in Blocks /\ start \in Blocks
  BY <1>2, <1>3 DEF Blocks
<1>5. ReqType /\ QueueInv
  BY DEF RequestInv
<1>6. state[i] = "none"
  <2>1. state[i] # "none" => i < i
    BY <1>2, <1>4, <1>5 DEF QueueInv, Under
  <2> QED
    BY <2>1, <1>3
<1> QED
  BY <1>1, <1>2, <1>3, <1>4, <1>6

\* A request that starts finds its positions in the mask.
LEMMA StartsRequest ==
  ASSUME RequestInv, LoopInv, StartRequest, NEW j, j = i
  PROVE  RequestInv'
<1>0. ReqType /\ TidyAll /\ QueueInv /\ StartInv
  BY DEF RequestInv
<1>1. PICK q \in IF i = start + 1 THEN Sorted ELSE {queue} :
        queue' = q /\ (PassesOver \/ FailsAtOnce(j) \/ Starts(j, q))
  BY StartRequestCases
<1>2. /\ pc = "loop" /\ i' = i + 1 /\ (i = start + 1 => state[start] = "returned")
      /\ UNCHANGED <<pc, skip, buffers, start>>
      /\ j \in Blocks /\ start \in Blocks /\ start <= i /\ i \in Nat /\ start \in Nat /\ state[j] = "none"
  BY StartRequestCases
<1>3. /\ q \in Seq(Blobbers) /\ Len(q) = Len(queue) /\ ToSet(q) = ToSet(queue) /\ Distinct(q)
      /\ (i # start + 1 => q = queue)
  BY <1>0, SortEffect
<1>4. Pos' = Pos /\ Len(queue) \in Nat /\ Thresh \in Nat
  BY <1>0, <1>1, <1>3, SizesAssumption, FS_CardinalityType DEF Pos, ReqType
<1>5. waiting[j] = {} /\ asked[j] = {} /\ unasked[j] = {} /\ rest[j] = {} /\ got[j] = {}
  BY <1>2, NothingYet
<1>6. mask' \subseteq Pos' /\ queue' \in Seq(Blobbers) /\ Distinct(queue)' /\ start' \in Nat /\ i' \in Nat =>
        \/ ~(PassesOver \/ FailsAtOnce(j))
        \/ ReqType'
  BY <1>0, <1>2 DEF ReqType, PassesOver, FailsAtOnce, RequestFails, reqVars
<1>7. /\ got' = got /\ asked' = asked
      /\ \A h \in Blocks \ {j} :
        /\ state'[h] = state[h] /\ waiting'[h] = waiting[h] /\ asked'[h] = asked[h]
        /\ unasked'[h] = unasked[h] /\ rest'[h] = rest[h] /\ got'[h] = got[h]
  <2>1. CASE PassesOver
    BY <2>1 DEF PassesOver, reqVars
  <2>2. CASE FailsAtOnce(j)
    BY <2>2, <1>0 DEF FailsAtOnce, RequestFails, ReqType
  <2>3. CASE Starts(j, q)
    BY <2>3, <1>0, <1>2 DEF Starts, Round, ReqType
  <2> QED
    BY <2>1, <2>2, <2>3, <1>1
<1>8. ASSUME Starts(j, q)
      PROVE  /\ waiting' \in [Blocks -> SUBSET Nat] /\ unasked' \in [Blocks -> SUBSET Nat]
             /\ rest' \in [Blocks -> SUBSET Nat] /\ failed' \in [Blocks -> Nat]
             /\ waiting'[j] \cup unasked'[j] \cup rest'[j] \subseteq mask
             /\ waiting'[j] \cap unasked'[j] = {} /\ rest'[j] \cap (waiting'[j] \cup unasked'[j]) = {}
             /\ \A p \in waiting'[j] : q[p] \notin skip
             /\ mask' \subseteq mask
             /\ j = start => rest'[j] = {}
             /\ j = start /\ mask = 1 .. Cardinality(mask) => mask' = 1 .. Cardinality(waiting'[j] \cup unasked'[j])
  <2>1. mask \in SUBSET Pos /\ Thresh <= Cardinality(mask) /\ Round(j, q, mask, Thresh)
    <3>1. mask \subseteq Pos
      BY <1>0 DEF ReqType
    <3>2. Cardinality(mask) \in Nat
      BY <3>1, <1>4, PositionSets DEF Pos
    <3> QED
      BY <1>4, <1>8, <3>1, <3>2 DEF Starts
  <2> QED
    BY <1>0, <1>2, <1>4, <2>1, RoundEffect
<1>9. ReqType'
  <2>1. queue' \in Seq(Blobbers) /\ Distinct(queue)' /\ start' \in Nat /\ i' \in Nat
    BY <1>1, <1>2, <1>3 DEF Distinct
  <2>2. CASE PassesOver \/ FailsAtOnce(j)
    <3>1. mask' \subseteq Pos'
      BY <2>2, <1>0, <1>4 DEF PassesOver, FailsAtOnce, ReqType
    <3> QED
      BY <3>1, <2>1, <2>2, <1>6
  <2>3. CASE Starts(j, q)
    <3>1. mask' \subseteq Pos'
      BY <2>3, <1>0, <1>4, <1>8 DEF ReqType
    <3>2. state' \in [Blocks -> {"none", "running", "returned"}]
      BY <2>3, <1>0 DEF Starts, ReqType
    <3> QED
      BY <3>1, <3>2, <2>1, <2>3, <1>0, <1>7, <1>8 DEF ReqType
  <2> QED
    BY <2>2, <2>3, <1>1
<1>10. Tidy(j)'
  <2>1. CASE PassesOver
    <3>1. UNCHANGED <<state, waiting, asked, unasked, rest, got>>
      BY <2>1 DEF PassesOver, reqVars
    <3> QED
      BY <3>1, <1>1, <1>2, SortedTidy
  <2>2. CASE FailsAtOnce(j)
    <3>1. UNCHANGED <<waiting, asked, unasked, rest, got>> /\ state'[j] = "returned"
      BY <2>2, <1>0, <1>2 DEF FailsAtOnce, RequestFails, ReqType
    <3> QED
      BY <3>1, <1>5 DEF Tidy, Out, Gotten, Live
  <2>3. CASE Starts(j, q)
    <3>1. state'[j] = "running" /\ got'[j] = {} /\ asked'[j] = {}
      BY <2>3, <1>0, <1>2, <1>5, <1>7 DEF Starts, ReqType
    <3>2. Out(j)' = waiting'[j] \cup unasked'[j] /\ Gotten(j)' = {}
      BY <3>1, <1>5 DEF Out, Gotten
    <3>3. waiting'[j] \cup unasked'[j] \cup rest'[j] \subseteq Pos'
      BY <2>3, <1>0, <1>4, <1>8 DEF ReqType
    <3> QED
      BY <2>3, <3>1, <3>2, <3>3, <1>8 DEF Tidy, Live
  <2> QED
    BY <2>1, <2>2, <2>3, <1>1
<1>11. TidyAll'
  <2>1. \A h \in Blocks \ {j} : Tidy(h)'
    BY <1>1, <1>2, <1>7, SortedTidy
  <2> QED
    BY <2>1, <1>10 DEF TidyAll
<1>12. QueueInv'
  <2>1. pc' = "loop" /\ start' = start /\ i' = i + 1
    BY <1>2
  <2>2. \A h \in Blocks : state'[h] # "none" => start <= h /\ h < i + 1
    <3>1. \A h \in Blocks : state[h] # "none" => start <= h /\ h < i
      BY <1>0, <1>2 DEF QueueInv, Under
    <3>2. ASSUME NEW h \in Blocks, state'[h] # "none" PROVE start <= h /\ h < i + 1
      <4>1. CASE h = j
        BY <4>1, <1>2
      <4>2. CASE h # j
        BY <3>1, <3>2, <4>2, <1>2, <1>7 DEF Blocks
      <4> QED
        BY <4>1, <4>2
    <3> QED
      BY <3>2
  <2>3. i + 1 > start + 1 => state'[start] # "running"
    <3>1. ASSUME i + 1 > start + 1 PROVE state'[start] # "running"
      <4>1. start # j /\ state'[start] = state[start]
        BY <3>1, <1>2, <1>7
      <4>2. i = start + 1 \/ i > start + 1
        BY <3>1, <1>2
      <4> QED
        BY <4>1, <4>2, <1>0, <1>2 DEF QueueInv
    <3> QED
      BY <3>1
  <2>4. Thresh <= Len(queue') /\ start < NumBlocks
    BY <1>0, <1>1, <1>2, <1>3 DEF QueueInv, Under
  <2> QED
    BY <2>1, <2>2, <2>3, <2>4 DEF QueueInv, Under
<1>13. StartInv'
  <2>1. i' # start' /\ start' = start
    BY <1>2
  <2>2. CASE j = start
    <3>1. q = queue /\ got'[j] = {} /\ asked'[j] = {}
      BY <2>2, <1>2, <1>3, <1>5, <1>7
    <3>2. CASE PassesOver
      <4>1. waiting'[j] = {} /\ rest'[j] = {} /\ state'[j] = "none"
        BY <3>2, <1>2, <1>5 DEF PassesOver, reqVars
      <4> QED
        BY <2>1, <2>2, <3>1, <4>1 DEF StartInv
    <3>3. CASE FailsAtOnce(j)
      <4>1. waiting'[j] = {} /\ rest'[j] = {} /\ state'[j] = "returned" /\ egErr' = TRUE
        BY <3>3, <1>0, <1>2, <1>5 DEF FailsAtOnce, RequestFails, ReqType
      <4> QED
        BY <2>1, <2>2, <3>1, <4>1 DEF StartInv
    <3>4. CASE Starts(j, q)
      <4>1. rest'[j] = {} /\ \A p \in waiting'[j] : queue'[p] \notin skip'
        BY <3>4, <1>1, <1>2, <1>8, <2>2
      <4>2. Live(j)' = waiting'[j] \cup unasked'[j]
        BY <3>1 DEF Live, Out, Gotten
      <4>3. PICK n \in Pos : mask = 1 .. n
        BY <1>0, <1>2, <2>2 DEF StartInv
      <4>4. n \in Nat /\ Cardinality(mask) = n
        <5>1. n \in Nat /\ ~(1 > n)
          BY <4>3, <1>4 DEF Pos
        <5> QED
          BY <5>1, <4>3, FS_Interval
      <4>5. mask' = 1 .. Cardinality(Live(j)')
        BY <3>4, <2>2, <1>8, <4>2, <4>3, <4>4
      <4> QED
        BY <2>1, <2>2, <3>1, <4>1, <4>5 DEF StartInv
    <3> QED
      BY <3>2, <3>3, <3>4, <1>1
  <2>3. CASE j # start
    <3>1. /\ state'[start] = state[start] /\ waiting'[start] = waiting[start] /\ asked'[start] = asked[start]
          /\ rest'[start] = rest[start] /\ got'[start] = got[start]
      BY <2>3, <1>2, <1>7
    <3>2. i + 1 # start + 1 /\ state[start] # "running"
      <4>1. i = start + 1 \/ i > start + 1
        BY <2>3, <1>2
      <4> QED
        BY <4>1, <2>3, <1>0, <1>2 DEF QueueInv
    <3>3. \A p \in waiting[start] \cup asked[start] : queue'[p] \notin skip
      <4>1. waiting[start] \cup asked[start] = {}
        BY <3>2, <1>0, <1>2 DEF TidyAll, Tidy, Out
      <4> QED
        BY <4>1
    <3> QED
      BY <2>1, <3>1, <3>2, <3>3, <1>0, <1>2 DEF StartInv
  <2> QED
    BY <2>2, <2>3
<1> QED
  BY <1>9, <1>11, <1>12, <1>13 DEF RequestInv

\* The loop keeps its requests in order.
LEMMA RequestStep == IndInv /\ RequestInv /\ [Next]_vars => RequestInv'
<1> SUFFICES ASSUME IndInv, RequestInv, [Next]_vars PROVE RequestInv'
  OBVIOUS
<1>0. ProgressInv /\ LoopInv
  BY DEF IndInv
<1>1. CASE GetFileRef
  BY <1>0, <1>1, GetFileRefQueue
<1>2. CASE SubmitReadMarkers
  BY <1>2, SubmitReadMarkersQueue
<1>3. CASE StartRequest
  BY <1>0, <1>3, StartsRequest
<1>4. ASSUME NEW j \in Blocks, NextRound(j) PROVE RequestInv'
  BY <1>4, NextRoundRequest
<1>5. ASSUME NEW j \in Blocks, BlockDone(j) \/ WriteAtFails(j) PROVE RequestInv'
  BY <1>5, EndRequest
<1>6. ASSUME NEW j \in Blocks, NEW p \in Positions, Send(j, p) \/ Answer(j, p) \/ AnswerFails(j, p)
      PROVE  RequestInv'
  BY <1>6, SendRequest, AnswerRequest, FailRequest
<1>7. CASE WriteNext \/ HashFails \/ PassOver \/ WriterEnds
  <2>1. UNCHANGED <<reqVars, queue, mask, skip, buffers, start, i, egErr, pc>>
    BY <1>7 DEF WriteNext, HashFails, PassOver, WriterEnds, queueVars
  <2> QED
    BY <2>1, RequestFrame
<1>8. CASE RequestsDone \/ Finish
  <2>1. /\ UNCHANGED <<reqVars, queue, mask, skip, buffers, start, i, egErr>>
        /\ pc' = "done" \/ (pc = "loop" /\ pc' = "closing")
    BY <1>8 DEF RequestsDone, Finish, ErrorCB, queueVars
  <2> QED
    BY <2>1, RequestFrame
<1>9. CASE (\E v \in 1 .. NumBlocks : Update(v)) \/ SaveTick \/ CancelDownload \/ Done \/ UNCHANGED vars
  <2>1. UNCHANGED <<reqVars, queue, mask, skip, buffers, start, i, egErr, pc>>
    BY <1>9 DEF Update, SaveTick, CancelDownload, Done, vars, queueVars
  <2> QED
    BY <2>1, RequestFrame
<1>10. CASE Crash
  <2>1. NoRequests /\ UNCHANGED <<queue, mask, start, i>> /\ pc' = "dead"
    BY <1>10 DEF Crash
  <2>2. queue \in Seq(Blobbers) /\ Distinct(queue) /\ mask \subseteq Pos /\ start \in Nat /\ i \in Nat
    BY DEF RequestInv, ReqType
  <2>3. TidyAll' /\ ReqType'
    BY <2>1, <2>2, FreshRequests DEF Pos, Distinct
  <2>4. QueueInv' /\ StartInv'
    BY <2>1 DEF QueueInv, StartInv, Under
  <2> QED
    BY <2>3, <2>4 DEF RequestInv
<1>11. CASE Retry
  <2>1. NoRequests /\ queue' = <<>> /\ mask' = {} /\ buffers' = {} /\ start' = 0 /\ i' = 0 /\ pc' = "meta"
    BY <1>11 DEF Retry
  <2>2. queue' \in Seq(Blobbers) /\ Distinct(queue')
    BY <2>1 DEF Distinct
  <2>3. TidyAll' /\ ReqType' /\ \A j \in Blocks : state'[j] = "none"
    BY <2>1, <2>2, FreshRequests DEF Distinct
  <2>4. QueueInv' /\ StartInv'
    BY <2>1, <2>3 DEF QueueInv, StartInv, Under
  <2> QED
    BY <2>3, <2>4 DEF RequestInv
<1> QED
  BY <1>1, <1>2, <1>3, <1>4, <1>5, <1>6, <1>7, <1>8, <1>9, <1>10, <1>11 DEF Next, Step

LEMMA RequestInit == Init => RequestInv
<1> SUFFICES ASSUME Init PROVE RequestInv
  OBVIOUS
<1>1. /\ state = Fresh("none") /\ waiting = Fresh({}) /\ asked = Fresh({}) /\ unasked = Fresh({})
      /\ rest = Fresh({}) /\ failed = Fresh(0) /\ got = Fresh({})
      /\ queue = <<>> /\ mask = {} /\ buffers = {} /\ start = 0 /\ i = 0 /\ pc = "meta"
  BY DEF Init
<1>2. queue \in Seq(Blobbers) /\ Distinct(queue)
  BY <1>1 DEF Distinct
<1>3. ReqType
  BY <1>1, <1>2 DEF ReqType, Fresh
<1>4. \A j \in Blocks : /\ state[j] = "none" /\ waiting[j] = {} /\ asked[j] = {} /\ unasked[j] = {}
                        /\ rest[j] = {} /\ got[j] = {}
  BY <1>1 DEF Fresh
<1>5. TidyAll
  BY <1>4 DEF TidyAll, Tidy, Out, Gotten, Live
<1>6. QueueInv /\ StartInv
  BY <1>1, <1>4 DEF QueueInv, StartInv, Under
<1> QED
  BY <1>3, <1>5, <1>6 DEF RequestInv

-----------------------------------------------------------------------------
(* Why a download fails.                                                   *)

Clean == skip = {} /\ buffers = ToSet(queue)

\* The positions whose blobbers failed, and what excuses a failure.
Spoilt == {p \in Pos : queue[p] \in faulty}
Excuse == ctxDone \/ "disk" \in faulty \/ Cardinality(Spoilt) > Len(queue) - Thresh

\* No request gives a position up whose blobber did not fail, and one after the first is
\* always at a threshold of positions, its failures in this round counted.
Rounds ==
  /\ ~egErr
  /\ i = start => mask = Pos
  /\ i = start + 1 => Pos = Live(start) \cup Spoilt
  /\ i > start + 1 => Pos = mask \cup Spoilt
  /\ \A j \in Blocks : state[j] = "running" /\ j # start =>
       /\ Pos = Live(j) \cup rest[j] \cup Spoilt
       /\ Cardinality(Live(j)) + failed[j] = Thresh

RoundsInv == pc = "loop" /\ Clean => Excuse \/ Rounds

\* Errors are reported at the end, or by a writer that could not write or found the wrong
\* hash; requests run in the loop; a first attempt finds no progress.
ErrInv ==
  /\ result = "error" => pc = "done" \/ "disk" \in faulty \/ ctxDone \/ (~writerAt /\ bad # {})
  /\ \A j \in Blocks : state[j] = "running" => pc = "loop"
  /\ attempt \in Nat \ {0} /\ (pc = "meta" /\ attempt = 1 => saved = NoProgress)

FaultInv == RoundsInv /\ ErrInv

\* The positions that failed are as many as the blobbers that did.
LEMMA SpoiltCount ==
  ASSUME ReqType
  PROVE  /\ Cardinality(Spoilt) = Cardinality(faulty \cap ToSet(queue))
         /\ Cardinality(Spoilt) \in Nat /\ Len(queue) \in Nat /\ Thresh \in Nat \ {0}
<1>1. queue \in Seq(Blobbers) /\ Distinct(queue) /\ Len(queue) \in Nat
  BY DEF ReqType
<1>2. Cardinality(Spoilt) = Cardinality(faulty \cap ToSet(queue))
  BY <1>1, CountPositions DEF Spoilt, Pos
<1>3. Cardinality(Spoilt) \in Nat
  <2>1. Spoilt \in SUBSET (1 .. Len(queue))
    BY DEF Spoilt, Pos
  <2> QED
    BY <1>1, <2>1, PositionSets
<1> QED
  BY <1>1, <1>2, <1>3, SizesAssumption, FS_CardinalityType

\* What excuses a failure goes on to do so.
LEMMA ExcuseStays ==
  ASSUME ReqType, ReqType', Excuse, ToSet(queue') = ToSet(queue), Len(queue') = Len(queue),
         faulty \subseteq faulty', ctxDone => ctxDone'
  PROVE  Excuse'
<1>1. CASE ctxDone \/ "disk" \in faulty
  BY <1>1 DEF Excuse
<1>2. CASE Cardinality(Spoilt) > Len(queue) - Thresh
  <2> DEFINE c == Cardinality(Spoilt)
             d == Cardinality(Spoilt)'
  <2>1. c = Cardinality(faulty \cap ToSet(queue)) /\ c \in Nat /\ Len(queue) \in Nat /\ Thresh \in Nat
    BY SpoiltCount
  <2>2. d = Cardinality(faulty' \cap ToSet(queue')) /\ d \in Nat
    <3>1. (/\ Cardinality(Spoilt) = Cardinality(faulty \cap ToSet(queue)) /\ Cardinality(Spoilt) \in Nat)'
      BY SpoiltCount, PTL
    <3> QED
      BY <3>1 DEF ToSet
  <2>3. faulty \cap ToSet(queue) \subseteq faulty' \cap ToSet(queue') /\ faulty' \cap ToSet(queue') \subseteq ToSet(queue)
    OBVIOUS
  <2>4. IsFiniteSet(faulty' \cap ToSet(queue'))
    BY <2>3, QueueBlobbers, FS_Subset
  <2>5. c <= d
    <3>1. Cardinality(faulty \cap ToSet(queue)) <= Cardinality(faulty' \cap ToSet(queue'))
      BY <2>3, <2>4, FS_Subset
    <3> QED
      BY <2>1, <2>2, <3>1
  <2>6. c > Len(queue) - Thresh
    BY <1>2
  <2> HIDE DEF c, d
  <2>7. d > Len(queue) - Thresh
    BY <2>1, <2>2, <2>5, <2>6
  <2>8. d > Len(queue') - Thresh
    BY <2>7
  <2> QED
    BY <2>8 DEF d, Excuse
<1> QED
  BY <1>1, <1>2 DEF Excuse

\* Where fewer than a threshold of positions are left, the rest failed.
LEMMA Shortage ==
  ASSUME ReqType, NEW A \in SUBSET Pos, NEW B \in SUBSET Pos, Pos = A \cup B \cup Spoilt, NEW a \in Nat, NEW b \in Nat,
         Cardinality(A) <= a, Cardinality(B) <= b, a + b < Thresh
  PROVE  Excuse
<1> DEFINE n == Len(queue)
           sp == Spoilt
<1>1. n \in Nat /\ Thresh \in Nat /\ Cardinality(sp) \in Nat
  BY SpoiltCount
<1>2. sp \in SUBSET (1 .. n) /\ A \in SUBSET (1 .. n) /\ B \in SUBSET (1 .. n) /\ A \cup B \in SUBSET (1 .. n) /\ 1 .. n = A \cup B \cup sp
  BY DEF Spoilt, Pos
<1> HIDE DEF n, sp
<1>3. /\ IsFiniteSet(A) /\ IsFiniteSet(B) /\ IsFiniteSet(sp) /\ IsFiniteSet(A \cup B)
      /\ Cardinality(A) \in Nat /\ Cardinality(B) \in Nat /\ Cardinality(A \cup B) \in Nat
  BY <1>1, <1>2, PositionSets
<1>4. Cardinality(A \cup B) <= Cardinality(A) + Cardinality(B)
  <2>1. Cardinality(A \cup B) = Cardinality(A) + Cardinality(B) - Cardinality(A \cap B)
    BY <1>3, FS_Union
  <2>2. Cardinality(A \cap B) \in Nat
    BY <1>3, FS_Intersection, FS_CardinalityType
  <2> QED
    BY <1>3, <2>1, <2>2
<1>5. n <= Cardinality(A \cup B) + Cardinality(sp)
  <2>1. Cardinality(1 .. n) = n
    BY <1>1, FS_Interval
  <2>2. Cardinality(A \cup B \cup sp) = Cardinality(A \cup B) + Cardinality(sp) - Cardinality((A \cup B) \cap sp)
    BY <1>3, FS_Union
  <2>3. Cardinality((A \cup B) \cap sp) \in Nat
    BY <1>3, FS_Intersection, FS_CardinalityType
  <2>4. Cardinality(A \cup B \cup sp) = n
    BY <1>2, <2>1
  <2> QED
    BY <1>1, <1>3, <2>2, <2>3, <2>4
<1>6. Cardinality(sp) > n - Thresh
  BY <1>1, <1>3, <1>4, <1>5
<1> QED
  BY <1>6 DEF Excuse, n, sp

\* One request's step, seen from the others.
LEMMA RoundsOne ==
  ASSUME RequestInv, RequestInv', Rounds, pc = "loop", NEW j \in Blocks, state[j] = "running",
         UNCHANGED <<queue, start, i, egErr>>, faulty \subseteq faulty',
         \A h \in Blocks \ {j} :
           /\ state'[h] = state[h] /\ waiting'[h] = waiting[h] /\ asked'[h] = asked[h]
           /\ unasked'[h] = unasked[h] /\ rest'[h] = rest[h] /\ got'[h] = got[h] /\ failed'[h] = failed[h],
         mask \subseteq mask' \cup Spoilt' \/ j = start,
         j = start => Live(j) \subseteq Live(j)' \cup Spoilt',
         j # start /\ state'[j] = "running" =>
           /\ Live(j) \cup rest[j] \subseteq Live(j)' \cup rest'[j] \cup Spoilt'
           /\ Cardinality(Live(j)') + failed'[j] = Thresh
  PROVE  Rounds'
<1>0. ReqType /\ TidyAll /\ QueueInv
  BY DEF RequestInv
<1>1. Pos' = Pos /\ Spoilt \subseteq Spoilt' /\ Spoilt' \subseteq Pos
  BY DEF Pos, Spoilt
<1>2. start \in Nat /\ i \in Nat /\ j \in Nat /\ start <= j /\ j < i
  BY <1>0, SizesAssumption DEF ReqType, QueueInv, Under, Blocks
<1>3. i # start /\ (i = start + 1 => j = start)
  BY <1>2
<1>4. \A h \in Blocks \ {j} : Live(h)' = Live(h)
  BY <1>0, TidyFrame DEF TidyAll
<1>5. \A h \in Blocks : Live(h)' \subseteq Pos /\ rest'[h] \subseteq Pos
  <2>1. \A h \in Blocks : (Tidy(h))'
    BY DEF RequestInv, TidyAll
  <2> QED
    BY <2>1, <1>1 DEF Tidy, Live, Gotten
<1>6. mask' \subseteq Pos
  BY <1>1 DEF RequestInv, ReqType
<1>7. i > start + 1 => Pos = mask' \cup Spoilt'
  <2>1. ASSUME i > start + 1 PROVE mask \subseteq mask' \cup Spoilt'
    <3>1. state[start] # "running"
      BY <2>1, <1>0 DEF QueueInv
    <3> QED
      BY <3>1
  <2> QED
    BY <2>1, <1>1, <1>6 DEF Rounds
<1>8. i = start + 1 => Pos = Live(start)' \cup Spoilt'
  <2>1. ASSUME i = start + 1 PROVE Pos = Live(start)' \cup Spoilt'
    <3>1. j = start /\ Pos = Live(j) \cup Spoilt
      BY <2>1, <1>3 DEF Rounds
    <3>2. Live(j) \subseteq Live(j)' \cup Spoilt'
      BY <3>1
    <3>3. Pos = Live(j)' \cup Spoilt'
      BY <3>1, <3>2, <1>1, <1>5
    <3> QED
      BY <3>1, <3>3
  <2> QED
    BY <2>1
<1>9. ASSUME NEW h \in Blocks, state'[h] = "running", h # start
      PROVE  /\ Pos = Live(h)' \cup rest'[h] \cup Spoilt'
             /\ Cardinality(Live(h)') + failed'[h] = Thresh
  <2>1. CASE h = j
    BY <2>1, <1>1, <1>5, <1>9 DEF Rounds
  <2>2. CASE h # j
    BY <2>2, <1>1, <1>4, <1>5, <1>9 DEF Rounds
  <2> QED
    BY <2>1, <2>2
<1> QED
  BY <1>1, <1>3, <1>7, <1>8, <1>9 DEF Rounds

\* Steps that the requests have no part in.
LEMMA RoundsFrame ==
  ASSUME RequestInv, RequestInv', RoundsInv, UNCHANGED <<reqVars, queue, mask, skip, buffers, start, i, egErr, pc>>,
         faulty \subseteq faulty', ctxDone => ctxDone'
  PROVE  RoundsInv'
<1> SUFFICES ASSUME pc' = "loop", Clean' PROVE (Excuse \/ Rounds)'
  BY DEF RoundsInv
<1>0. ReqType /\ ReqType' /\ TidyAll
  BY DEF RequestInv
<1>1. pc = "loop" /\ Clean
  BY DEF Clean, ToSet
<1>2. CASE Excuse
  BY <1>0, <1>2, ExcuseStays
<1>3. CASE Rounds
  <2>1. UNCHANGED <<state, waiting, asked, unasked, rest, failed, got>>
    BY DEF reqVars
  <2>2. Pos' = Pos /\ Spoilt \subseteq Spoilt' /\ Spoilt' \subseteq Pos
    BY DEF Pos, Spoilt
  <2>3. \A h \in Blocks : Live(h)' = Live(h) /\ Live(h) \subseteq Pos /\ rest[h] \subseteq Pos
    BY <1>0, <2>1, TidyFrame DEF TidyAll, Tidy, Live, Gotten
  <2>4. start \in Blocks
    BY <1>1, SizesAssumption DEF RequestInv, QueueInv, ReqType, Under, Blocks
  <2>5. Live(start)' = Live(start)
    BY <2>3, <2>4
  <2>6. mask \subseteq Pos
    BY <1>0 DEF ReqType
  <2>7. i = start + 1 => Pos' = Live(start)' \cup Spoilt'
    BY <1>3, <2>2, <2>3, <2>4, <2>5 DEF Rounds
  <2>8. i > start + 1 => Pos' = mask \cup Spoilt'
    BY <1>3, <2>2, <2>6 DEF Rounds
  <2>9. ASSUME NEW h \in Blocks, state[h] = "running", h # start
        PROVE  Pos' = Live(h)' \cup rest[h] \cup Spoilt' /\ Cardinality(Live(h)') + failed[h] = Thresh
    BY <1>3, <2>2, <2>3, <2>9 DEF Rounds
  <2> QED
    BY <1>3, <2>1, <2>2, <2>7, <2>8, <2>9 DEF Rounds
<1> QED
  BY <1>1, <1>2, <1>3 DEF RoundsInv

\* The steps of a request at one blobber.
LEMMA RoundsAtBlobber ==
  ASSUME RequestInv, RoundsInv, NEW j \in Blocks, NEW p, Send(j, p) \/ Answer(j, p) \/ AnswerFails(j, p)
  PROVE  RoundsInv'
<1> SUFFICES ASSUME pc' = "loop", Clean' PROVE (Excuse \/ Rounds)'
  BY DEF RoundsInv
<1>1. RequestInv'
  BY SendRequest, AnswerRequest, FailRequest
<1>2. ReqType /\ TidyAll /\ ReqType' /\ QueueInv
  BY <1>1 DEF RequestInv
<1>3. /\ UNCHANGED <<pc, queue, skip, buffers, start, i, egErr, ctxDone, state, rest>> /\ faulty \subseteq faulty'
      /\ p \in Out(j)
  <2>1. CASE Send(j, p)
    BY <2>1 DEF Send, queueVars, Out
  <2>2. CASE Answer(j, p)
    BY <2>2 DEF Answer, queueVars, Out
  <2>3. CASE AnswerFails(j, p)
    BY <2>3 DEF AnswerFails, Out
  <2> QED
    BY <2>1, <2>2, <2>3
<1>4. state[j] = "running" /\ pc = "loop" /\ Clean
  BY <1>3, OutRuns DEF Clean, ToSet
<1>5. CASE Excuse
  BY <1>2, <1>3, <1>5, ExcuseStays
<1>6. CASE Rounds
  <2>1. \A h \in Blocks \ {j} :
          /\ waiting'[h] = waiting[h] /\ asked'[h] = asked[h]
          /\ unasked'[h] = unasked[h] /\ got'[h] = got[h] /\ failed'[h] = failed[h]
    <3>1. CASE Send(j, p)
      BY <3>1, <1>2 DEF Send, ReqType
    <3>2. CASE Answer(j, p)
      BY <3>2, <1>2 DEF Answer, ReqType
    <3>3. CASE AnswerFails(j, p)
      BY <3>3, <1>2 DEF AnswerFails, ReqType
    <3> QED
      BY <3>1, <3>2, <3>3
  <2>2. CASE Send(j, p) \/ Answer(j, p)
    <3>1. Live(j)' = Live(j)
      <4>1. CASE Send(j, p)
        <5>1. /\ waiting'[j] = waiting[j] \ {p} /\ asked'[j] = asked[j] \cup {p} /\ p \in waiting[j]
              /\ UNCHANGED <<queue, got, unasked>>
          BY <4>1, <1>2 DEF Send, ReqType, queueVars
        <5> QED
          BY <5>1 DEF Live, Out, Gotten, Pos
      <4>2. CASE Answer(j, p)
        BY <4>2, AnswerRequest
      <4> QED
        BY <2>2, <4>1, <4>2
    <3>2. UNCHANGED <<mask, failed>>
      BY <2>2 DEF Send, Answer, queueVars
    <3>3. Cardinality(Live(j)') + failed'[j] = Thresh \/ j = start
      BY <3>1, <3>2, <1>4, <1>6 DEF Rounds
    <3> QED
      BY <1>1, <1>3, <1>4, <1>6, <2>1, <3>1, <3>2, <3>3, RoundsOne
  <2>3. CASE AnswerFails(j, p)
    <3>1. p \in Live(j) /\ Live(j)' = Live(j) \ {p} /\ p \in Pos
      BY <2>3, FailRequest
    <3>2. p \in Spoilt'
      BY <2>3, <3>1, <1>3 DEF AnswerFails, Spoilt, Pos
    <3>3. mask \subseteq mask' \cup Spoilt' \/ j = start
      BY <2>3, <3>2 DEF AnswerFails
    <3>4. failed'[j] = failed[j] + 1 /\ failed[j] \in Nat
      BY <2>3, <1>2 DEF AnswerFails, ReqType
    <3>5. j # start => Cardinality(Live(j)') + failed'[j] = Thresh
      <4>1. Live(j) \subseteq Pos /\ Len(queue) \in Nat
        BY <1>2 DEF TidyAll, Tidy, ReqType, Live, Gotten
      <4>2. IsFiniteSet(Live(j)) /\ Cardinality(Live(j)) \in Nat
        BY <4>1, PositionSets DEF Pos
      <4>3. Cardinality(Live(j)') = Cardinality(Live(j)) - 1
        BY <4>2, <3>1, FS_RemoveElement
      <4>4. j # start => Cardinality(Live(j)) + failed[j] = Thresh
        BY <1>4, <1>6 DEF Rounds
      <4> QED
        BY <3>4, <4>2, <4>3, <4>4
    <3> QED
      BY <1>1, <1>3, <1>4, <1>6, <2>1, <3>1, <3>2, <3>3, <3>5, RoundsOne
  <2> QED
    BY <2>2, <2>3
<1> QED
  BY <1>4, <1>5, <1>6 DEF RoundsInv

\* The first request has no more positions than the mask says.
LEMMA FirstMask ==
  ASSUME RequestInv, pc = "loop", mask = 1 .. Cardinality(Live(start))
  PROVE  /\ Cardinality(mask) = Cardinality(Live(start)) /\ Cardinality(mask) \in Nat
         /\ Live(start) \in SUBSET Pos
<1>1. start \in Blocks
  BY SizesAssumption DEF RequestInv, QueueInv, ReqType, Under, Blocks
<1>2. Live(start) \in SUBSET Pos /\ Len(queue) \in Nat
  BY <1>1 DEF RequestInv, TidyAll, Tidy, ReqType, Live, Gotten
<1>3. Cardinality(Live(start)) \in Nat
  BY <1>2, PositionSets DEF Pos
<1>4. Cardinality(mask) = Cardinality(Live(start))
  BY <1>3, FS_Interval
<1> QED
  BY <1>2, <1>3, <1>4

\* A request gives up when the blobbers that are left are too few.
LEMMA RoundsNext ==
  ASSUME RequestInv, RoundsInv, ErrInv, NEW j \in Blocks, NextRound(j)
  PROVE  RoundsInv'
<1> SUFFICES ASSUME pc' = "loop", Clean' PROVE (Excuse \/ Rounds)'
  BY DEF RoundsInv
<1>1. RequestInv'
  BY NextRoundRequest
<1>2. ReqType /\ TidyAll /\ ReqType' /\ QueueInv /\ StartInv
  BY <1>1 DEF RequestInv
<1>3. /\ UNCHANGED <<pc, queue, skip, buffers, start, i, asked, got, ctxDone, faulty>>
      /\ state[j] = "running" /\ Out(j) = {} /\ ~Enough(j)
  BY DEF NextRound, Answered, Out
<1>4. pc = "loop" /\ Clean /\ start \in Blocks
  BY <1>3, <1>2, SizesAssumption DEF Clean, ToSet, QueueInv, ReqType, Under, Blocks
<1>5. CASE Excuse
  BY <1>2, <1>3, <1>5, ExcuseStays
<1>6. CASE Rounds
  <2>0. /\ Tidy(j) /\ Live(j) = Gotten(j) /\ Live(j) \in SUBSET Pos /\ rest[j] \in SUBSET Pos
        /\ Len(queue) \in Nat /\ failed[j] \in Nat /\ Thresh \in Nat
    BY <1>2, <1>3, SizesAssumption, FS_CardinalityType DEF TidyAll, Tidy, Live, Gotten, ReqType
  <2>1. /\ IsFiniteSet(Live(j)) /\ Cardinality(Live(j)) \in Nat
        /\ IsFiniteSet(rest[j]) /\ Cardinality(rest[j]) \in Nat
    BY <2>0, PositionSets DEF Pos
  <2>2. CASE failed[j] > Cardinality(rest[j])
    <3>1. Excuse
      <4>1. CASE j = start
        <5>1. mask = 1 .. Cardinality(Live(start)) /\ Cardinality(mask) < Thresh
          <6>1. mask = 1 .. Cardinality(Live(start))
            BY <4>1, <1>2, <1>3, <1>4 DEF StartInv
          <6>2. Cardinality(mask) \in Nat
            BY <6>1, <1>4, FirstMask
          <6> QED
            BY <6>1, <6>2, <4>1, <2>0, <1>3 DEF Enough
        <5>2. Cardinality(Live(j)) < Thresh
          BY <4>1, <5>1, <1>4, FirstMask
        <5>3. i = start + 1
          <6>1. start <= j /\ j < i /\ ~(i > start + 1)
            BY <4>1, <1>2, <1>3, <1>4 DEF QueueInv, Under
          <6> QED
            BY <6>1, <4>1, <1>2 DEF ReqType
        <5>4. Pos = Live(j) \cup {} \cup Spoilt
          BY <4>1, <5>3, <1>6 DEF Rounds
        <5>5. Cardinality({}) <= 0 /\ Cardinality(Live(j)) + 0 < Thresh
          BY <5>2, <2>1, FS_EmptySet
        <5> QED
          BY <5>4, <5>5, <2>0, <2>1, <1>2, Shortage
      <4>2. CASE j # start
        <5>1. Pos = Live(j) \cup rest[j] \cup Spoilt /\ Cardinality(Live(j)) + failed[j] = Thresh
          BY <4>2, <1>3, <1>6 DEF Rounds
        <5>2. Cardinality(Live(j)) + Cardinality(rest[j]) < Thresh
          BY <5>1, <2>0, <2>1, <2>2
        <5> QED
          BY <5>1, <5>2, <2>0, <2>1, <1>2, Shortage
      <4> QED
        BY <4>1, <4>2
    <3> QED
      BY <3>1, <1>2, <1>3, ExcuseStays
  <2>3. CASE ~(failed[j] > Cardinality(rest[j]))
    <3>1. /\ failed[j] <= Cardinality(rest[j])
          /\ Round(j, queue, rest[j], failed[j])
          /\ UNCHANGED <<state, egErr>>
      BY <2>3 DEF NextRound
    <3>2. j # start
      <4>1. j = start => rest[j] = {}
        BY <1>2, <1>4 DEF StartInv
      <4>2. rest[j] = {} => failed[j] = 0
        BY <3>1, <2>0, FS_EmptySet
      <4> QED
        BY <4>1, <4>2, <1>3 DEF Enough
    <3>3. \A p \in rest[j] : queue[p] \notin skip
      BY <1>4 DEF Clean
    <3>4. /\ \A h \in Blocks \ {j} : /\ waiting'[h] = waiting[h] /\ unasked'[h] = unasked[h]
                                     /\ rest'[h] = rest[h] /\ failed'[h] = failed[h]
          /\ unasked'[j] = {} /\ failed'[j] = 0 /\ rest[j] = waiting'[j] \cup rest'[j]
          /\ Cardinality(waiting'[j]) = failed[j] /\ mask' = mask
      BY <3>1, <3>2, <3>3, <2>0, <1>2, CleanRound
    <3>5. Gotten(j)' = Gotten(j) /\ asked'[j] = {}
      BY <1>3 DEF Gotten, Pos, Out
    <3>6. Live(j)' = Gotten(j) \cup waiting'[j]
      BY <3>4, <3>5 DEF Live, Out
    <3>7. waiting'[j] \in SUBSET (1 .. Len(queue)) /\ Gotten(j) \cap waiting'[j] = {}
      <4>1. rest[j] \cap Gotten(j) = {}
        BY <2>0 DEF Tidy
      <4> QED
        BY <4>1, <3>4, <2>0 DEF Pos
    <3>8. IsFiniteSet(waiting'[j])
      BY <3>7, <2>0, PositionSets
    <3>9. Cardinality(Live(j)') = Cardinality(Live(j)) + failed[j]
      <4>1. Cardinality(Gotten(j) \cup waiting'[j]) = Cardinality(Gotten(j)) + Cardinality(waiting'[j]) - Cardinality(Gotten(j) \cap waiting'[j])
        BY <3>8, <2>0, <2>1, FS_Union
      <4>2. Cardinality(Gotten(j) \cap waiting'[j]) = 0
        BY <3>7, FS_EmptySet
      <4> QED
        BY <4>1, <4>2, <3>4, <3>6, <2>0, <2>1
    <3>10. Cardinality(Live(j)') + failed'[j] = Thresh
      BY <3>2, <3>4, <3>9, <2>0, <2>1, <1>3, <1>6 DEF Rounds
    <3>11. Live(j) \cup rest[j] \subseteq Live(j)' \cup rest'[j] \cup Spoilt'
      BY <3>4, <3>6, <2>0
    <3>12. Rounds'
      BY <1>1, <1>3, <1>4, <1>6, <3>1, <3>2, <3>4, <3>10, <3>11, RoundsOne
    <3> QED
      BY <3>12
  <2> QED
    BY <2>2, <2>3
<1> QED
  BY <1>4, <1>5, <1>6 DEF RoundsInv

\* A block that all were asked for can be decoded, unless too many failed.
LEMMA RoundsEnd ==
  ASSUME RequestInv, RoundsInv, ErrInv, NEW j \in Blocks, BlockDone(j) \/ WriteAtFails(j)
  PROVE  RoundsInv'
<1> SUFFICES ASSUME pc' = "loop", Clean' PROVE (Excuse \/ Rounds)'
  BY DEF RoundsInv
<1>1. RequestInv'
  BY EndRequest
<1>2. ReqType /\ TidyAll /\ ReqType' /\ QueueInv /\ StartInv
  BY <1>1 DEF RequestInv
<1>3. /\ UNCHANGED <<pc, queue, mask, skip, buffers, start, i, waiting, asked, unasked, rest, failed, got, ctxDone>>
      /\ state[j] = "running" /\ Out(j) = {} /\ Enough(j) /\ faulty \subseteq faulty'
      /\ state' = [state EXCEPT ![j] = "returned"]
      /\ \/ egErr' = egErr
         \/ ctxDone
         \/ ~Decodable(j) /\ UNCHANGED faulty
         \/ "disk" \in faulty'
  <2>1. CASE BlockDone(j)
    BY <2>1 DEF BlockDone, Answered, RequestFails, queueVars, Out
  <2>2. CASE WriteAtFails(j)
    BY <2>2 DEF WriteAtFails, Answered, RequestFails, queueVars, Out
  <2> QED
    BY <2>1, <2>2
<1>4. pc = "loop" /\ Clean /\ start \in Blocks
  BY <1>3, <1>2, SizesAssumption DEF Clean, ToSet, QueueInv, ReqType, Under, Blocks
<1>5. CASE Excuse
  BY <1>2, <1>3, <1>5, ExcuseStays
<1>6. CASE ctxDone \/ "disk" \in faulty'
  BY <1>3, <1>6 DEF Excuse
<1>7. CASE Rounds /\ egErr' = egErr
  <2>1. state'[j] = "returned" /\ \A h \in Blocks \ {j} : state'[h] = state[h]
    BY <1>2, <1>3 DEF ReqType
  <2>2. Live(j)' = Live(j)
    BY <1>3 DEF Live, Out, Gotten, Pos
  <2> QED
    BY <2>1, <2>2, <1>1, <1>3, <1>4, <1>7, RoundsOne
<1>8. CASE Rounds /\ ~Decodable(j) /\ UNCHANGED faulty
  <2>0. /\ Tidy(j) /\ Live(j) = Gotten(j) /\ Live(j) \in SUBSET Pos
        /\ queue \in Seq(Blobbers) /\ Distinct(queue) /\ Len(queue) \in Nat
        /\ failed[j] \in Nat /\ Thresh \in Nat
    BY <1>2, <1>3, SizesAssumption, FS_CardinalityType DEF TidyAll, Tidy, Live, Gotten, ReqType
  <2>1. Cardinality(Live(j)) \in Nat
    BY <2>0, PositionSets DEF Pos
  <2>2. Cardinality(Live(j)) = Cardinality(got[j])
    <3>1. got[j] \cap ToSet(queue) = got[j]
      BY <2>0 DEF Tidy
    <3> QED
      BY <3>1, <2>0, CountPositions DEF Gotten, Pos
  <2>3. Cardinality(Live(j)) < Thresh
    BY <1>8, <2>0, <2>1, <2>2 DEF Decodable
  <2>4. j = start
    <3>1. ASSUME j # start PROVE FALSE
      <4>1. Cardinality(Live(j)) + failed[j] = Thresh
        BY <3>1, <1>3, <1>8 DEF Rounds
      <4>2. failed[j] = 0
        BY <3>1, <1>3 DEF Enough
      <4> QED
        BY <4>1, <4>2, <2>1, <2>3
    <3> QED
      BY <3>1
  <2>5. i = start + 1
    <3>1. start <= j /\ j < i /\ ~(i > start + 1)
      BY <2>4, <1>2, <1>3, <1>4 DEF QueueInv, Under
    <3> QED
      BY <3>1, <2>4, <1>2 DEF ReqType
  <2>6. Pos = Live(j) \cup {} \cup Spoilt
    BY <2>4, <2>5, <1>8 DEF Rounds
  <2>7. Cardinality({}) <= 0 /\ Cardinality(Live(j)) + 0 < Thresh
    BY <2>1, <2>3, FS_EmptySet
  <2>8. Excuse
    BY <2>6, <2>7, <2>0, <2>1, <1>2, Shortage
  <2> QED
    BY <2>8, <1>2, <1>3, ExcuseStays
<1> QED
  BY <1>3, <1>4, <1>5, <1>6, <1>7, <1>8 DEF RoundsInv

\* The sort puts the blobbers that answered where the mask is.
LEMMA SortedMask ==
  ASSUME RequestInv, LoopInv, StartRequest, i = start + 1, ~egErr
  PROVE  /\ mask = 1 .. Cardinality(Live(start)) /\ mask = Gotten(start)'
         /\ Live(start) = Gotten(start)
<1>0. ReqType /\ TidyAll /\ QueueInv /\ StartInv
  BY DEF RequestInv
<1>1. PICK q \in IF i = start + 1 THEN Sorted ELSE {queue} :
        queue' = q /\ (PassesOver \/ FailsAtOnce(i) \/ Starts(i, q))
  BY StartRequestCases
<1>2. pc = "loop" /\ state[start] = "returned" /\ start \in Blocks /\ i # start /\ i \in Nat /\ start' = start
  BY StartRequestCases
<1>3. mask = 1 .. Cardinality(Live(start)) /\ Tidy(start)
  BY <1>0, <1>2 DEF StartInv, TidyAll
<1>4. Live(start) = Gotten(start) /\ got[start] \subseteq ToSet(queue)
  BY <1>2, <1>3 DEF Tidy, Live
<1>5. {p \in 1 .. Len(q) : q[p] \in got[start]} = 1 .. Cardinality(got[start])
  BY <1>0, <1>4, SortEffect
<1>6. got' = got
  BY <1>1 DEF PassesOver, FailsAtOnce, Starts, reqVars
<1>7. Gotten(start)' = {p \in 1 .. Len(q) : q[p] \in got[start]}
  BY <1>1, <1>2, <1>6 DEF Gotten, Pos
<1>8. Cardinality(Gotten(start)) = Cardinality(got[start])
  <2>1. got[start] \cap ToSet(queue) = got[start]
    BY <1>4
  <2>2. queue \in Seq(Blobbers) /\ Distinct(queue)
    BY <1>0 DEF ReqType
  <2> QED
    BY <2>1, <2>2, CountPositions DEF Gotten, Pos
<1> QED
  BY <1>3, <1>4, <1>5, <1>7, <1>8

\* A request that starts has a threshold of positions.
LEMMA RoundsStart ==
  ASSUME RequestInv, RoundsInv, LoopInv, StartRequest, NEW j, j = i
  PROVE  RoundsInv'
<1> SUFFICES ASSUME pc' = "loop", Clean' PROVE (Excuse \/ Rounds)'
  BY DEF RoundsInv
<1>1. RequestInv'
  BY StartsRequest
<1>2. ReqType /\ TidyAll /\ ReqType' /\ QueueInv /\ StartInv /\ QueueInv'
  BY <1>1 DEF RequestInv
<1>3. PICK q \in IF i = start + 1 THEN Sorted ELSE {queue} :
        queue' = q /\ (PassesOver \/ FailsAtOnce(j) \/ Starts(j, q))
  BY StartRequestCases
<1>4. /\ pc = "loop" /\ i' = i + 1 /\ (i = start + 1 => state[start] = "returned")
      /\ UNCHANGED <<pc, skip, buffers, start, ctxDone, faulty>>
      /\ j \in Blocks /\ start \in Blocks /\ start <= i /\ i \in Nat /\ start \in Nat /\ state[j] = "none"
  BY StartRequestCases DEF StartRequest
<1>5. Len(q) = Len(queue) /\ ToSet(q) = ToSet(queue) /\ (i # start + 1 => q = queue)
  BY <1>2, SortEffect
<1>6. Clean /\ Pos' = Pos /\ Len(queue) \in Nat /\ Thresh \in Nat /\ mask \subseteq Pos
  BY <1>2, <1>3, <1>4, <1>5, SizesAssumption, FS_CardinalityType DEF Clean, Pos, ReqType
<1>7. CASE Excuse
  BY <1>2, <1>3, <1>4, <1>5, <1>7, ExcuseStays
<1>8. CASE Rounds /\ PassesOver
  BY <1>4, <1>8 DEF Rounds, PassesOver, Excuse
<1>9. CASE Rounds /\ FailsAtOnce(j)
  <2>1. ~egErr /\ Cardinality(mask) < Thresh /\ Cardinality(mask) \in Nat
    BY <1>6, <1>9, PositionSets DEF FailsAtOnce, Pos
  <2>2. Cardinality({}) <= 0 /\ Cardinality(mask) + 0 < Thresh
    BY <2>1, FS_EmptySet
  <2>3. CASE i = start
    <3>1. mask = 1 .. Len(queue) /\ Thresh <= Len(queue)
      BY <2>3, <1>2, <1>4, <1>9 DEF Rounds, QueueInv, Under, Pos
    <3>2. Cardinality(mask) = Len(queue)
      <4>1. Cardinality(1 .. Len(queue)) = Len(queue)
        BY <1>6, PositionCount
      <4> QED
        BY <3>1, <4>1
    <3> QED
      BY <2>1, <3>1, <3>2, <1>6
  <2>4. CASE i = start + 1
    <3>1. mask = 1 .. Cardinality(Live(start))
      BY <2>1, <2>4, SortedMask
    <3>2. Cardinality(Live(start)) = Cardinality(mask) /\ Live(start) \in SUBSET Pos
      BY <3>1, <1>4, FirstMask
    <3>3. Pos = Live(start) \cup {} \cup Spoilt
      BY <2>4, <1>9 DEF Rounds
    <3>4. Excuse
      BY <2>1, <2>2, <3>2, <3>3, <1>2, Shortage
    <3> QED
      BY <3>4, <1>2, <1>3, <1>4, <1>5, ExcuseStays
  <2>5. CASE i > start + 1
    <3>1. Pos = mask \cup {} \cup Spoilt
      BY <2>5, <1>9 DEF Rounds
    <3>2. Excuse
      BY <2>1, <2>2, <3>1, <1>2, <1>6, Shortage
    <3> QED
      BY <3>2, <1>2, <1>3, <1>4, <1>5, ExcuseStays
  <2> QED
    BY <2>3, <2>4, <2>5, <1>4
<1>10. CASE Rounds /\ Starts(j, q)
  <2>1. /\ mask \in SUBSET Pos /\ Thresh <= Cardinality(mask) /\ Round(j, q, mask, Thresh)
        /\ UNCHANGED <<asked, got, egErr>> /\ state'[j] = "running"
        /\ \A h \in Blocks \ {j} : state'[h] = state[h]
    <3>1. Cardinality(mask) \in Nat
      BY <1>6, PositionSets DEF Pos
    <3>2. /\ Cardinality(mask) >= Thresh /\ Round(j, q, mask, Thresh)
          /\ state' = [state EXCEPT ![j] = "running"] /\ UNCHANGED <<asked, got, egErr>>
      BY <1>10 DEF Starts
    <3>3. state'[j] = "running" /\ \A h \in Blocks \ {j} : state'[h] = state[h]
      BY <3>2, <1>2, <1>4 DEF ReqType
    <3>4. Thresh <= Cardinality(mask)
      BY <3>1, <3>2, <1>6
    <3> QED
      BY <3>2, <3>3, <3>4, <1>6
  <2>2. \A p \in mask : q[p] \notin skip
    BY <1>6 DEF Clean
  <2>3. ~egErr
    BY <1>10 DEF Rounds
  <2>4. got'[j] = {} /\ asked'[j] = {}
    BY <2>1, <1>4, NothingYet
  <2>5. CASE j = start
    <3>1. mask = Pos /\ i = start
      BY <2>5, <1>10 DEF Rounds
    <3>2. mask = waiting'[j]
      BY <2>1, <2>2, <2>5, <1>2, <1>4, <1>6, CleanFirstRound
    <3>4. waiting'[j] = Pos'
      BY <3>1, <3>2, <1>6
    <3>5. Pos' \subseteq Live(start)'
      BY <3>4, <2>5, <1>4 DEF Live, Out
    <3>6. Live(j)' \subseteq Pos'
      BY <1>1, <1>4 DEF RequestInv, TidyAll, Tidy, Live, Gotten
    <3>7. Live(start)' \subseteq Pos'
      BY <3>6, <2>5, <1>4
    <3>8. Pos' = Live(start)' \cup Spoilt'
      BY <3>5, <3>7 DEF Spoilt
    <3>9. \A h \in Blocks : state'[h] = "running" => h = start'
      BY <3>1, <1>2, <1>4 DEF QueueInv, Under, Blocks
    <3>10. i' # start' /\ ~(i' > start' + 1)
      BY <3>1, <1>4
    <3> QED
      BY <3>8, <3>9, <3>10, <2>1, <2>3 DEF Rounds
  <2>6. CASE j # start
    <3>1. /\ \A h \in Blocks \ {j} : /\ waiting'[h] = waiting[h] /\ unasked'[h] = unasked[h]
                                     /\ rest'[h] = rest[h] /\ failed'[h] = failed[h]
          /\ unasked'[j] = {} /\ failed'[j] = 0 /\ mask = waiting'[j] \cup rest'[j]
          /\ Cardinality(waiting'[j]) = Thresh /\ mask' = mask
      BY <2>1, <2>2, <2>6, <1>2, <1>4, <1>6, CleanRound
    <3>2. Pos = mask \cup Spoilt' /\ Spoilt' \subseteq Pos
      <4>0. Spoilt' = {p \in Pos : q[p] \in faulty}
        BY <1>3, <1>4, <1>6 DEF Spoilt
      <4>1. CASE i > start + 1
        <5>1. q = queue
          BY <4>1, <1>4, <1>5
        <5> QED
          BY <4>0, <4>1, <5>1, <1>10 DEF Rounds, Spoilt
      <4>2. CASE i = start + 1
        <5>1. mask = Gotten(start)' /\ Live(start) = Gotten(start)
          BY <4>2, <2>3, SortedMask
        <5>2. Gotten(start)' = {p \in Pos : q[p] \in got[start]}
          BY <2>1, <1>3, <1>4, <1>6 DEF Gotten
        <5>3. Pos = Gotten(start) \cup Spoilt
          BY <4>2, <5>1, <1>10 DEF Rounds
        <5>4. ASSUME NEW p \in Pos PROVE q[p] \in got[start] \cup faulty
          <6>1. q[p] \in ToSet(queue)
            BY <1>5 DEF ToSet, Pos
          <6>2. PICK k \in Pos : queue[k] = q[p]
            BY <6>1 DEF ToSet, Pos
          <6> QED
            BY <6>2, <5>3 DEF Gotten, Spoilt
        <5> QED
          BY <4>0, <5>1, <5>2, <5>4
      <4> QED
        BY <4>1, <4>2, <2>6, <1>4
    <3>3. Live(j)' = waiting'[j]
      BY <2>4, <3>1 DEF Live, Out, Gotten
    <3>4. Pos' = Live(j)' \cup rest'[j] \cup Spoilt' /\ Cardinality(Live(j)') + failed'[j] = Thresh
      BY <3>1, <3>2, <3>3, <1>6
    <3>5. ASSUME NEW h \in Blocks, h # j, state'[h] = "running", h # start
          PROVE  Pos' = Live(h)' \cup rest'[h] \cup Spoilt' /\ Cardinality(Live(h)') + failed'[h] = Thresh
      <4>1. state[h] = "running"
        BY <3>5, <2>1
      <4>2. i # start + 1
        BY <3>5, <4>1, <1>2, <1>4 DEF QueueInv, Under, Blocks
      <4>3. q = queue /\ Spoilt' = Spoilt
        BY <4>2, <1>3, <1>4, <1>5, <1>6 DEF Spoilt
      <4>4. Live(h)' = Live(h)
        BY <3>5, <4>3, <3>1, <2>1, <1>3, <1>6 DEF Live, Out, Gotten
      <4> QED
        BY <3>1, <3>5, <4>1, <4>3, <4>4, <1>6, <1>10 DEF Rounds
    <3>6. i' # start' /\ i' # start' + 1
      BY <2>6, <1>4
    <3>7. \A h \in Blocks : state'[h] = "running" /\ h # start' =>
            /\ Pos' = Live(h)' \cup rest'[h] \cup Spoilt'
            /\ Cardinality(Live(h)') + failed'[h] = Thresh
      BY <3>4, <3>5, <1>4
    <3>8. Pos' = mask' \cup Spoilt'
      BY <3>1, <3>2, <1>6
    <3> QED
      BY <3>6, <3>7, <3>8, <2>1, <2>3 DEF Rounds
  <2> QED
    BY <2>5, <2>6
<1> QED
  BY <1>3, <1>4, <1>6, <1>7, <1>8, <1>9, <1>10 DEF RoundsInv

\* The loop begins at every blobber of the queue, if no read marker was refused or lost.
LEMMA RoundsBegin ==
  ASSUME RequestInv, LoopInv, SubmitReadMarkers
  PROVE  RoundsInv'
<1> SUFFICES ASSUME pc' = "loop", Clean' PROVE Rounds'
  BY DEF RoundsInv
<1>0. RequestInv' /\ ReqType /\ QueueInv /\ pc = "markers"
  BY SubmitReadMarkersQueue DEF RequestInv, SubmitReadMarkers
<1>1. UNCHANGED <<queue, start, state, egErr>>
  BY DEF SubmitReadMarkers, reqVars
<1>2. PICK active \in SUBSET ToSet(queue) :
        mask' = 1 .. Cardinality(active) /\ buffers' = active /\ i' = start
  <2>1. PICK refused \in SUBSET ToSet(queue), lost \in SUBSET ToSet(queue) :
          LET active == ToSet(queue) \ (refused \cup lost)
          IN  mask' = 1 .. Cardinality(active) /\ buffers' = active /\ i' = start
    BY DEF SubmitReadMarkers, ErrorCB
  <2> QED
    BY <2>1
<1>3. active = ToSet(queue)
  BY <1>1, <1>2 DEF Clean, ToSet
<1>4. mask' = Pos' /\ i' = start'
  BY <1>0, <1>1, <1>2, <1>3, QueueBlobbers DEF Pos
<1>5. ~egErr' /\ \A j \in Blocks : state'[j] = "none"
  BY <1>0, <1>1 DEF LoopInv
<1>6. i' # start' + 1 /\ ~(i' > start' + 1)
  BY <1>0, <1>1, <1>2 DEF ReqType
<1> QED
  BY <1>4, <1>5, <1>6 DEF Rounds

\* A queue that has enough blobbers is not empty, and its failed positions excuse.
LEMMA ExcuseFails ==
  ASSUME ReqType, Excuse, Thresh <= Len(queue)
  PROVE  FailsBeyondParity
<1>1. /\ Cardinality(Spoilt) = Cardinality(faulty \cap ToSet(queue))
      /\ Len(queue) \in Nat /\ Thresh \in Nat \ {0}
  BY SpoiltCount
<1>2. queue # <<>>
  BY <1>1
<1> QED
  BY <1>1, <1>2 DEF Excuse, FailsBeyondParity

\* The file is missing from too many blobbers, or is there already.
LEMMA NoFileRef ==
  ASSUME ProgressInv, RequestInv, ErrInv, GetFileRef, pc' = "done"
  PROVE  FailsBeyondParity'
<1>0. NumBlocks \in Nat \ {0} /\ IsFiniteSet(Blobbers) /\ Cardinality(Blobbers) \in Nat /\ Thresh \in Nat
  BY SizesAssumption, FS_CardinalityType
<1> DEFINE from == IF writerAt /\ saved # NoProgress /\ file # {} THEN saved ELSE 0
<1>1. PICK missing \in SUBSET Blobbers :
        /\ faulty' = missing
        /\ Cardinality(Blobbers \ missing) < Thresh \/ from >= NumBlocks
        /\ UNCHANGED <<queue, file, attempt>> /\ pc = "meta"
  BY DEF GetFileRef, queueVars, outVars
<1>2. queue' = <<>>
  BY <1>1 DEF RequestInv, QueueInv
<1>3. CASE Cardinality(Blobbers \ missing) < Thresh
  <2> DEFINE m == Cardinality(missing)
             k == Cardinality(Blobbers \ missing)
  <2>1. missing \cap Blobbers = missing /\ Blobbers \cap missing = missing
    OBVIOUS
  <2>2. IsFiniteSet(missing) /\ m \in Nat /\ k = Cardinality(Blobbers) - m
    <3>1. IsFiniteSet(missing)
      BY <1>0, FS_Subset
    <3>2. k = Cardinality(Blobbers) - Cardinality(Blobbers \cap missing)
      BY <1>0, FS_Difference
    <3> QED
      BY <2>1, <3>1, <3>2, FS_CardinalityType
  <2>3. k < Thresh
    BY <1>3
  <2> HIDE DEF m, k
  <2>4. m > Cardinality(Blobbers) - Thresh
    BY <1>0, <2>2, <2>3
  <2>5. Cardinality(faulty' \cap Blobbers) > Cardinality(Blobbers) - Thresh
    BY <1>1, <2>1, <2>4 DEF m
  <2> QED
    BY <1>2, <2>5 DEF FailsBeyondParity
<1>4. CASE from >= NumBlocks
  <2>1. saved # NoProgress /\ from = saved
    BY <1>0, <1>4
  <2>2. saved \in 0 .. NumBlocks /\ file \subseteq Blocks
    BY <2>1 DEF ProgressInv, ProgressType
  <2>3. saved = NumBlocks
    BY <1>0, <1>4, <2>1, <2>2
  <2>4. 0 .. saved - 1 \subseteq file
    BY <1>0, <2>3 DEF ProgressInv, SavedWritten
  <2>5. file = Blocks
    BY <2>2, <2>3, <2>4 DEF Blocks
  <2>6. attempt > 1
    BY <1>1, <2>1 DEF ErrInv
  <2> QED
    BY <1>1, <1>2, <2>5, <2>6 DEF FailsBeyondParity
<1> QED
  BY <1>1, <1>3, <1>4

\* Nothing happens at the end but another attempt.
LEMMA DoneStays ==
  ASSUME ErrInv, RequestInv, [Next]_vars, pc = "done"
  PROVE  Retry \/ UNCHANGED vars
<1>1. \A j \in Blocks : state[j] # "running"
  BY DEF ErrInv
<1>2. \A j \in Blocks : Out(j) = {}
  BY <1>1 DEF RequestInv, TidyAll, Tidy
<1>3. ~\E j \in Blocks : NextRound(j) \/ BlockDone(j) \/ WriteAtFails(j)
  BY <1>1 DEF NextRound, BlockDone, WriteAtFails, Answered
<1>4. ~\E j \in Blocks, p \in Positions : Send(j, p) \/ Answer(j, p) \/ AnswerFails(j, p)
  BY <1>2, NobodyAsked
<1>5. ~(GetFileRef \/ SubmitReadMarkers \/ StartRequest \/ RequestsDone \/ Finish)
  BY DEF GetFileRef, SubmitReadMarkers, StartRequest, RequestsDone, Finish
<1>6. ~(WriteNext \/ HashFails \/ PassOver \/ WriterEnds \/ SaveTick \/ CancelDownload \/ Crash)
  BY DEF WriteNext, HashFails, PassOver, WriterEnds, Writing, SaveTick, CancelDownload, Crash
<1>7. ~\E v \in 1 .. NumBlocks : Update(v)
  BY DEF Update
<1> QED
  BY <1>3, <1>4, <1>5, <1>6, <1>7 DEF Next, Step, Done

\* Within the loop nobody forgets a fault.
FaultsKept ==
  /\ faulty \subseteq faulty' /\ bad \subseteq bad' /\ (ctxDone => ctxDone')
  /\ UNCHANGED <<attempt, writerAt>>

LEMMA FaultsStay ==
  ASSUME \/ StartRequest \/ WriteNext \/ HashFails \/ PassOver \/ WriterEnds \/ RequestsDone \/ Finish
         \/ CancelDownload \/ Crash \/ SaveTick \/ Done \/ UNCHANGED vars
         \/ \E v \in 1 .. NumBlocks : Update(v)
         \/ \E j \in Blocks : \/ NextRound(j) \/ BlockDone(j) \/ WriteAtFails(j)
                              \/ \E p \in Positions : Send(j, p) \/ Answer(j, p) \/ AnswerFails(j, p)
  PROVE  FaultsKept
<1>1. CASE StartRequest \/ WriteNext \/ HashFails \/ PassOver \/ WriterEnds
  BY <1>1 DEF StartRequest, WriteNext, HashFails, PassOver, WriterEnds, bufVars, FaultsKept
<1>6. CASE RequestsDone \/ Finish
  <2>1. CASE RequestsDone
    BY <2>1 DEF RequestsDone, bufVars, FaultsKept
  <2>2. CASE Finish
    BY <2>2 DEF Finish, bufVars, FaultsKept
  <2> QED
    BY <1>6, <2>1, <2>2
<1>2. CASE CancelDownload \/ Crash \/ SaveTick \/ Done \/ UNCHANGED vars
  BY <1>2 DEF CancelDownload, Crash, SaveTick, Done, vars, bufVars, FaultsKept
<1>3. CASE \E v \in 1 .. NumBlocks : Update(v)
  BY <1>3 DEF Update, bufVars, FaultsKept
<1>4. ASSUME NEW j \in Blocks, NextRound(j) \/ BlockDone(j) \/ WriteAtFails(j)
      PROVE  FaultsKept
  BY <1>4 DEF NextRound, BlockDone, WriteAtFails, bufVars, FaultsKept
<1>5. ASSUME NEW j \in Blocks, NEW p \in Positions, Send(j, p) \/ Answer(j, p) \/ AnswerFails(j, p)
      PROVE  FaultsKept
  BY <1>5 DEF Send, Answer, AnswerFails, bufVars, FaultsKept
<1> QED
  BY <1>1, <1>2, <1>3, <1>4, <1>5, <1>6

\* An error is the end, or a write that failed or was refused for its hash.
LEMMA ErrStep == IndInv /\ RequestInv /\ ErrInv /\ [Next]_vars => ErrInv'
<1> SUFFICES ASSUME IndInv, RequestInv, ErrInv, [Next]_vars PROVE ErrInv'
  OBVIOUS
<1>0. ProgressInv /\ LoopInv /\ ReqType /\ QueueInv
  BY DEF IndInv, RequestInv
<1>1. CASE GetFileRef
  <2>1. UNCHANGED <<state, attempt>> /\ pc = "meta" /\ pc' \in {"done", "markers"}
    BY <1>1, <1>0, GetFileRefEffect DEF GetFileRef, reqVars
  <2>2. result' = "error" => pc' = "done"
    BY <1>0, <1>1, <2>1, GetFileRefEffect DEF LoopInv
  <2> QED
    BY <1>0, <2>1, <2>2 DEF ErrInv, QueueInv
<1>2. CASE SubmitReadMarkers
  <2>1. /\ UNCHANGED <<state, attempt>> /\ pc = "markers"
        /\ pc' = "done" \/ (pc' = "loop" /\ UNCHANGED result)
    BY <1>2 DEF SubmitReadMarkers, ErrorCB, reqVars
  <2> QED
    BY <1>0, <2>1 DEF ErrInv, QueueInv, LoopInv
<1>3. CASE StartRequest
  <2>1. FaultsKept
    BY <1>3, FaultsStay
  <2>2. pc = "loop" /\ UNCHANGED <<pc, result>>
    BY <1>3, StartRequestEffect
  <2> QED
    BY <2>1, <2>2 DEF ErrInv, FaultsKept
<1>4. ASSUME NEW j \in Blocks, NextRound(j) \/ BlockDone(j) \/ WriteAtFails(j) PROVE ErrInv'
  <2>1. FaultsKept
    BY <1>4, FaultsStay
  <2>2. state[j] = "running" /\ UNCHANGED <<pc, result>>
    BY <1>4, EndEffect
  <2>3. pc = "loop"
    BY <2>2 DEF ErrInv
  <2> QED
    BY <2>1, <2>2, <2>3 DEF ErrInv, FaultsKept
<1>5. ASSUME NEW j \in Blocks, NEW p \in Positions, Send(j, p) \/ Answer(j, p) \/ AnswerFails(j, p)
      PROVE  ErrInv'
  <2>1. FaultsKept
    BY <1>5, FaultsStay
  <2>2. UNCHANGED <<pc, result, state>>
    BY <1>5, RequestEffect
  <2>3. UNCHANGED saved
    BY <1>5 DEF Send, Answer, AnswerFails, storerVars
  <2> QED
    BY <2>1, <2>2, <2>3 DEF ErrInv, FaultsKept
<1>6. CASE WriteNext \/ HashFails \/ PassOver \/ WriterEnds
  <2>1. FaultsKept
    BY <1>6, FaultsStay
  <2>2. UNCHANGED <<pc, state, saved>>
    BY <1>6 DEF WriteNext, HashFails, PassOver, WriterEnds, reqVars, storerVars
  <2>3. result' = result \/ "disk" \in faulty' \/ HashFails
    BY <1>6 DEF WriteNext, HashFails, PassOver, WriterEnds
  <2>4. ASSUME HashFails, result # "error", ~ctxDone PROVE ~writerAt /\ bad # {}
    <3>1. ~writerAt /\ Under /\ ~HashRight
      BY <2>4 DEF HashFails, Writing, Under
    <3>2. stream = [k \in 1 .. order |-> k - 1]
      BY <2>4, <3>1 DEF IndInv, WriterInv
    <3> QED
      BY <3>1, <3>2 DEF HashRight
  <2> QED
    BY <2>1, <2>2, <2>3, <2>4 DEF ErrInv, FaultsKept
<1>7. CASE RequestsDone
  <2>1. FaultsKept
    BY <1>7, FaultsStay
  <2>2. /\ pc = "loop" /\ state' = state /\ \A j \in Blocks : state[j] # "running"
        /\ pc' = "done" \/ (pc' = "closing" /\ UNCHANGED result)
    BY <1>7 DEF RequestsDone, ErrorCB, reqVars
  <2> QED
    BY <2>1, <2>2 DEF ErrInv, FaultsKept
<1>8. CASE Finish
  <2>1. FaultsKept
    BY <1>8, FaultsStay
  <2>2. pc = "closing" /\ state' = state /\ pc' = "done"
    BY <1>8 DEF Finish, reqVars
  <2> QED
    BY <2>1, <2>2 DEF ErrInv, FaultsKept
<1>9. CASE CancelDownload \/ SaveTick \/ Done \/ UNCHANGED vars
  <2>1. FaultsKept
    BY <1>9, FaultsStay
  <2>2. UNCHANGED <<pc, state, result>> /\ (saved' = saved \/ pc # "meta")
    BY <1>9 DEF CancelDownload, SaveTick, Done, vars, reqVars, storerVars
  <2> QED
    BY <2>1, <2>2 DEF ErrInv, FaultsKept
<1>10. CASE \E v \in 1 .. NumBlocks : Update(v)
  <2>1. FaultsKept
    BY <1>10, FaultsStay
  <2>2. UNCHANGED <<pc, state, result, saved>>
    BY <1>10 DEF Update, reqVars
  <2> QED
    BY <2>1, <2>2 DEF ErrInv, FaultsKept
<1>11. CASE Crash
  <2>1. FaultsKept
    BY <1>11, FaultsStay
  <2>2. pc # "done" /\ pc' = "dead" /\ result' = result /\ \A j \in Blocks : state'[j] = "none"
    BY <1>11 DEF Crash, NoRequests, Fresh
  <2> QED
    BY <2>1, <2>2 DEF ErrInv, FaultsKept
<1>12. CASE Retry
  <2>1. attempt' = attempt + 1 /\ result' = "none" /\ \A j \in Blocks : state'[j] = "none"
    BY <1>12 DEF Retry, NoRequests, Fresh
  <2> QED
    BY <2>1 DEF ErrInv
<1> QED
  BY <1>1, <1>2, <1>3, <1>4, <1>5, <1>6, <1>7, <1>8, <1>9, <1>10, <1>11, <1>12 DEF Next, Step

\* No step of the requests makes a failure that is not excused.
LEMMA RoundsStep == IndInv /\ RequestInv /\ RoundsInv /\ ErrInv /\ [Next]_vars => RoundsInv'
<1> SUFFICES ASSUME IndInv, RequestInv, RoundsInv, ErrInv, [Next]_vars PROVE RoundsInv'
  OBVIOUS
<1>0. RequestInv' /\ LoopInv /\ ProgressInv
  BY RequestStep DEF IndInv
<1>1. CASE GetFileRef
  <2>1. pc' # "loop"
    BY <1>0, <1>1, GetFileRefEffect
  <2> QED
    BY <2>1 DEF RoundsInv
<1>2. CASE SubmitReadMarkers
  BY <1>0, <1>2, RoundsBegin
<1>3. CASE StartRequest
  BY <1>0, <1>3, RoundsStart
<1>4. ASSUME NEW j \in Blocks, NextRound(j) \/ BlockDone(j) \/ WriteAtFails(j) PROVE RoundsInv'
  BY <1>4, RoundsNext, RoundsEnd
<1>5. ASSUME NEW j \in Blocks, NEW p \in Positions, Send(j, p) \/ Answer(j, p) \/ AnswerFails(j, p)
      PROVE  RoundsInv'
  BY <1>5, RoundsAtBlobber
<1>6. CASE WriteNext \/ HashFails \/ PassOver \/ WriterEnds
  <2>1. UNCHANGED <<reqVars, queue, mask, skip, buffers, start, i, egErr, pc, ctxDone>>
    BY <1>6 DEF WriteNext, HashFails, PassOver, WriterEnds, queueVars
  <2> QED
    BY <2>1, <1>0, <1>6, FaultsStay, RoundsFrame DEF FaultsKept
<1>7. CASE RequestsDone \/ Finish \/ Crash \/ Retry
  <2>1. pc' # "loop"
    BY <1>7 DEF RequestsDone, Finish, Crash, Retry, ErrorCB
  <2> QED
    BY <2>1 DEF RoundsInv
<1>8. CASE (\E v \in 1 .. NumBlocks : Update(v)) \/ SaveTick \/ CancelDownload \/ Done \/ UNCHANGED vars
  <2>1. UNCHANGED <<reqVars, queue, mask, skip, buffers, start, i, egErr, pc>> /\ (ctxDone => ctxDone')
    BY <1>8 DEF Update, SaveTick, CancelDownload, Done, vars, queueVars
  <2> QED
    BY <2>1, <1>0, <1>8, FaultsStay, RoundsFrame DEF FaultsKept
<1> QED
  BY <1>1, <1>2, <1>3, <1>4, <1>5, <1>6, <1>7, <1>8 DEF Next, Step

\* How a download comes to its end.
LEMMA EndsByThese ==
  ASSUME [Next]_vars, pc # "done", pc' = "done"
  PROVE  GetFileRef \/ SubmitReadMarkers \/ RequestsDone \/ Finish
<1>1. ~(StartRequest \/ WriteNext \/ HashFails \/ PassOver \/ WriterEnds \/ CancelDownload \/ Crash \/ Retry)
  BY DEF StartRequest, WriteNext, HashFails, PassOver, WriterEnds, CancelDownload, Crash, Retry
<1>2. ~(SaveTick \/ Done \/ UNCHANGED vars \/ \E v \in 1 .. NumBlocks : Update(v))
  BY DEF SaveTick, Done, vars, Update
<1>3. ~\E j \in Blocks : NextRound(j) \/ BlockDone(j) \/ WriteAtFails(j)
  <2>1. \A j \in Blocks : ~NextRound(j)
    BY DEF NextRound
  <2>2. \A j \in Blocks : ~BlockDone(j) /\ ~WriteAtFails(j)
    BY DEF BlockDone, WriteAtFails
  <2> QED
    BY <2>1, <2>2
<1>4. ~\E j \in Blocks, p \in Positions : Send(j, p) \/ Answer(j, p) \/ AnswerFails(j, p)
  <2>1. \A j \in Blocks, p \in Positions : ~Send(j, p)
    BY DEF Send
  <2>2. \A j \in Blocks, p \in Positions : ~Answer(j, p)
    BY DEF Answer
  <2>3. \A j \in Blocks, p \in Positions : ~AnswerFails(j, p)
    BY DEF AnswerFails
  <2> QED
    BY <2>1, <2>2, <2>3
<1> QED
  BY <1>1, <1>2, <1>3, <1>4 DEF Next, Step

LEMMA FaultInit == Init => FaultInv
<1> SUFFICES ASSUME Init PROVE FaultInv
  OBVIOUS
<1>1. pc = "meta" /\ result = "none" /\ attempt = 1 /\ saved = NoProgress /\ state = Fresh("none")
  BY DEF Init
<1> QED
  BY <1>1 DEF FaultInv, RoundsInv, ErrInv, Fresh

LEMMA FaultsAlways == Spec => [](IndInv /\ RequestInv /\ FaultInv)
<1>1. (IndInv /\ RequestInv /\ FaultInv) /\ [Next]_vars => (RequestInv /\ FaultInv)'
  BY RequestStep, RoundsStep, ErrStep DEF FaultInv
<1> QED
  BY <1>1, Inductive, RequestInit, FaultInit, PTL DEF Spec

-----------------------------------------------------------------------------
(* The buffers of a stream.                                                *)

Fine == Under /\ ~writerAt /\ ~egErr /\ ~ctxDone /\ faulty = {}

\* Without a fault the mask is a row of blobbers that answered the first request, and every
\* later request is at the first of them.  What the writer has is answered in full.
Row == i > start + 1 => \E n \in Thresh .. Len(queue) : mask = 1 .. n /\ \A p \in 1 .. n : queue[p] \in got[start]
Smooth ==
  /\ bad = {} /\ Row
  /\ \A j \in Blocks : state[j] # "none" /\ j # start => failed[j] = 0 /\ Live(j) = 1 .. Thresh
  /\ \A j \in ready : state[j] = "returned"
  /\ \A j \in Blocks : j < order => state[j] = "returned"

\* Blobber b answers block j, or has answered it.
Has(b, j) == b \in got[j] \/ \E p \in asked[j] : queue[p] = b

\* What a blobber answers is in its buffer until it is written, in a chunk that is in use
\* and in which nothing else is.
Chunks ==
  /\ busy = [b \in Blobbers |-> busy[b]] /\ holds = [b \in Blobbers |-> holds[b]]
  /\ \A b \in buffers, j \in Blocks : Has(b, j) => j < order \/ j \in holds[b]
  /\ \A b \in Blobbers : \A j \in holds[b] :
       /\ j \in Blocks /\ order <= j /\ Key(j) \in busy[b] /\ state[j] # "none"
       /\ j # start => \E p \in 1 .. Thresh : queue[p] = b
       /\ \A k \in holds[b] : Key(k) = Key(j) => k = j

Empty == [b \in Blobbers |-> {}]
StreamInv ==
  /\ Fine => Smooth /\ Chunks
  /\ pc \in {"meta", "markers"} => bad = {} /\ busy = Empty /\ holds = Empty

\* The steps that neither a request nor a buffer takes part in.
LEMMA StreamFrame ==
  ASSUME Smooth, Chunks, UNCHANGED <<reqVars, queue, mask, buffers, start, i, writerAt, bufVars, order, ready>>
  PROVE  (Smooth /\ Chunks)'
<1>1. /\ UNCHANGED <<state, waiting, asked, unasked, rest, failed, got>> /\ UNCHANGED <<busy, holds, bad>>
      /\ UNCHANGED <<queue, mask, buffers, start, i, writerAt, order, ready>>
  BY DEF reqVars, bufVars
<1>2. \A j \in Blocks : Live(j)' = Live(j)
  BY <1>1 DEF Live, Out, Gotten, Pos
<1>3. Row'
  BY <1>1 DEF Smooth, Row
<1>4. Smooth'
  BY <1>1, <1>2, <1>3 DEF Smooth
<1>5. \A j : Key(j)' = Key(j)
  BY <1>1 DEF Key, Size
<1>6. \A b, j : Has(b, j)' = Has(b, j)
  BY <1>1 DEF Has
<1>7. Chunks'
  BY <1>1, <1>5, <1>6 DEF Chunks
<1> QED
  BY <1>4, <1>7

\* The loop begins with empty buffers.
LEMMA StreamBegin ==
  ASSUME IndInv, RequestInv, StreamInv, SubmitReadMarkers, Fine'
  PROVE  (Smooth /\ Chunks)'
<1>0. LoopInv /\ ReqType /\ QueueInv /\ pc = "markers" /\ RequestInv'
  BY SubmitReadMarkersQueue DEF IndInv, RequestInv, SubmitReadMarkers
<1>1. /\ UNCHANGED <<state, waiting, asked, unasked, rest, failed, got>> /\ UNCHANGED <<busy, holds, bad>>
      /\ UNCHANGED <<queue, start, writerAt, order, ready>>
  BY DEF SubmitReadMarkers, reqVars, bufVars, outVars
<1>2. i' = start'
  BY DEF SubmitReadMarkers, ErrorCB, Fine, Under
<1>3. /\ bad' = {} /\ busy' = Empty /\ holds' = Empty /\ order' = 0 /\ ready' = {}
      /\ \A j \in Blocks : state'[j] = "none"
  BY <1>0, <1>1 DEF StreamInv, LoopInv, QueueInv
<1>4. \A j \in Blocks : got'[j] = {} /\ asked'[j] = {}
  BY <1>0, <1>1, NothingYet DEF QueueInv
<1>5. start' \in Nat /\ ~(i' > start' + 1)
  BY <1>0, <1>1, <1>2 DEF ReqType
<1>6. \A j \in Blocks : ~(j < 0)
  BY DEF Blocks
<1>7. Smooth'
  BY <1>3, <1>5, <1>6 DEF Smooth, Row
<1>8. \A b, j : j \in Blocks => ~Has(b, j)'
  BY <1>4 DEF Has
<1>9. Chunks'
  BY <1>3, <1>8 DEF Chunks, Empty
<1> QED
  BY <1>7, <1>9

\* A chunk that is taken was free, so nothing that it holds is lost.
LEMMA StreamSend ==
  ASSUME LoopInv, RequestInv, Smooth, Chunks, Fine, NEW j \in Blocks, NEW p, Send(j, p), Fine'
  PROVE  (Smooth /\ Chunks)'
<1>0. ReqType /\ TidyAll
  BY DEF RequestInv
<1> DEFINE b == queue[p]
<1>1. /\ p \in waiting[j]
      /\ waiting' = [waiting EXCEPT ![j] = @ \ {p}]
      /\ asked' = [asked EXCEPT ![j] = @ \cup {p}]
      /\ UNCHANGED <<queue, mask, buffers, start, i, state, unasked, rest, failed, got, bad, order, ready, writerAt>>
      /\ \/ /\ b \in buffers /\ ChunkFree(b, j)
            /\ busy' = [busy EXCEPT ![b] = @ \cup {Key(j)}]
            /\ holds' = [holds EXCEPT ![b] = @ \cup {j}]
         \/ b \notin buffers /\ UNCHANGED <<busy, holds>>
  BY DEF Send, queueVars, outVars, Fine
<1>2. state[j] = "running" /\ p \in Pos /\ p \in Live(j)
  BY <1>0, <1>1, OutRuns DEF TidyAll, Tidy, Out, Live
<1>3. b \in Blobbers
  BY <1>0, <1>2 DEF ReqType, Pos
<1>4. /\ waiting'[j] = waiting[j] \ {p} /\ asked'[j] = asked[j] \cup {p}
      /\ \A h \in Blocks \ {j} : waiting'[h] = waiting[h] /\ asked'[h] = asked[h]
  BY <1>0, <1>1 DEF ReqType
<1>5. \A h \in Blocks : Live(h)' = Live(h)
  BY <1>1, <1>4 DEF Live, Out, Gotten, Pos
<1>6. Row'
  BY <1>1 DEF Smooth, Row
<1>7. Smooth'
  BY <1>1, <1>5, <1>6 DEF Smooth
<1>8. \A h : Key(h)' = Key(h)
  BY <1>1 DEF Key, Size
<1>9. \A c, h : h \in Blocks /\ Has(c, h)' => Has(c, h) \/ (c = b /\ h = j)
  BY <1>1, <1>4 DEF Has
<1>10. order <= j
  <2>1. ~(j < order)
    BY <1>2 DEF Smooth
  <2>2. order \in Nat /\ j \in Nat
    BY SizesAssumption DEF LoopInv, Blocks
  <2> QED
    BY <2>1, <2>2
<1>11. j # start => \E k \in 1 .. Thresh : queue[k] = b
  BY <1>2 DEF Smooth
<1> HIDE DEF b
<1>12. CASE b \notin buffers /\ UNCHANGED <<busy, holds>>
  <2>1. \A c \in buffers, h \in Blocks : Has(c, h)' => h < order \/ h \in holds[c]
    BY <1>9, <1>12 DEF Chunks
  <2> QED
    BY <1>1, <1>7, <1>8, <1>12, <2>1 DEF Chunks
<1>13. CASE /\ b \in buffers /\ ChunkFree(b, j)
            /\ busy' = [busy EXCEPT ![b] = @ \cup {Key(j)}]
            /\ holds' = [holds EXCEPT ![b] = @ \cup {j}]
  <2>1. /\ busy'[b] = busy[b] \cup {Key(j)} /\ holds'[b] = holds[b] \cup {j}
        /\ \A c \in Blobbers \ {b} : busy'[c] = busy[c] /\ holds'[c] = holds[c]
        /\ busy' = [c \in Blobbers |-> busy'[c]] /\ holds' = [c \in Blobbers |-> holds'[c]]
    BY <1>3, <1>13 DEF Chunks
  <2>2. Key(j) \notin busy[b]
    BY <1>13 DEF ChunkFree, Fine
  <2>3. \A c \in buffers, h \in Blocks : Has(c, h)' => h < order \/ h \in holds'[c]
    <3>1. ASSUME NEW c \in buffers, NEW h \in Blocks, Has(c, h)' PROVE h < order \/ h \in holds'[c]
      <4>1. CASE Has(c, h)
        <5>1. h < order \/ h \in holds[c]
          BY <4>1 DEF Chunks
        <5>2. holds[c] \subseteq holds'[c]
          BY <1>13 DEF Chunks
        <5> QED
          BY <5>1, <5>2
      <4>2. CASE c = b /\ h = j
        BY <4>2, <2>1
      <4> QED
        BY <3>1, <4>1, <4>2, <1>9
    <3> QED
      BY <3>1
  <2>4. \A k \in holds[b] : Key(k) # Key(j)
    BY <1>3, <2>2 DEF Chunks
  <2>5. ASSUME NEW c \in Blobbers, NEW h \in holds'[c]
        PROVE  /\ h \in Blocks /\ order <= h /\ Key(h) \in busy'[c] /\ state[h] # "none"
               /\ h # start => \E k \in 1 .. Thresh : queue[k] = c
               /\ \A k \in holds'[c] : Key(k) = Key(h) => k = h
    <3>1. CASE c # b
      <4>1. h \in holds[c] /\ holds'[c] = holds[c] /\ busy'[c] = busy[c]
        BY <2>1, <2>5, <3>1
      <4> QED
        BY <4>1 DEF Chunks
    <3>2. CASE c = b /\ h = j
      BY <3>2, <2>1, <2>4, <1>2, <1>10, <1>11
    <3>3. CASE c = b /\ h # j
      <4>1. h \in holds[b]
        BY <3>3, <2>1, <2>5
      <4>2. \A k \in holds'[b] : Key(k) = Key(h) => k = h
        BY <4>1, <2>1, <2>4, <1>3 DEF Chunks
      <4> QED
        BY <3>3, <4>1, <4>2, <2>1, <1>3 DEF Chunks
    <3> QED
      BY <3>1, <3>2, <3>3
  <2>6. Chunks'
    BY <1>1, <1>8, <2>1, <2>3, <2>5 DEF Chunks
  <2> QED
    BY <1>7, <2>6
<1> QED
  BY <1>1, <1>12, <1>13

\* An answer overwrites nothing.
LEMMA StreamAnswer ==
  ASSUME RequestInv, Smooth, Chunks, NEW j \in Blocks, NEW p, Answer(j, p)
  PROVE  (Smooth /\ Chunks)'
<1>0. ReqType /\ TidyAll
  BY DEF RequestInv
<1> DEFINE b == queue[p]
<1>1. /\ p \in asked[j]
      /\ asked' = [asked EXCEPT ![j] = @ \ {p}]
      /\ got' = [got EXCEPT ![j] = @ \cup {b}]
      /\ bad' \subseteq bad \cup {k \in holds[b] \ {j} : j \in holds[b] /\ Key(k) = Key(j)}
      /\ UNCHANGED <<queue, mask, buffers, start, i, state, waiting, unasked, rest, failed, busy, holds,
                     order, ready, writerAt>>
  BY DEF Answer, queueVars, outVars
<1>2. state[j] = "running" /\ p \in Pos /\ b \in Blobbers
  BY <1>0, <1>1, OutRuns DEF TidyAll, Tidy, Out, ReqType, Pos
<1>3. /\ asked'[j] = asked[j] \ {p} /\ got'[j] = got[j] \cup {b}
      /\ \A h \in Blocks \ {j} : got'[h] = got[h] /\ asked'[h] = asked[h]
  BY <1>0, <1>1 DEF ReqType
<1>4. \A h \in Blocks : Live(h)' = Live(h)
  <2>1. Live(j)' = Live(j)
    BY AnswerRequest
  <2>2. \A h \in Blocks \ {j} : Live(h)' = Live(h)
    BY <1>1, <1>3 DEF Live, Out, Gotten, Pos
  <2> QED
    BY <2>1, <2>2
<1>5. bad' = {}
  <2>1. \A k \in holds[b] : j \in holds[b] /\ Key(k) = Key(j) => k = j
    BY <1>2 DEF Chunks
  <2>2. bad = {}
    BY DEF Smooth
  <2> QED
    BY <1>1, <2>1, <2>2
<1>6. Row'
  <2>1. got[start] \subseteq got'[start]
    BY <1>1
  <2> QED
    BY <1>1, <2>1 DEF Smooth, Row
<1>7. Smooth'
  BY <1>1, <1>4, <1>5, <1>6 DEF Smooth
<1>8. \A h : Key(h)' = Key(h)
  BY <1>1 DEF Key, Size
<1>9. \A c, h : h \in Blocks /\ Has(c, h)' => Has(c, h)
  <2>1. Has(b, j)
    BY <1>1 DEF Has
  <2> QED
    BY <1>1, <1>3, <2>1 DEF Has
<1>10. Chunks'
  BY <1>1, <1>8, <1>9 DEF Chunks
<1> QED
  BY <1>7, <1>10

\* No request of a stream without faults needs another round.
LEMMA StreamNoRound ==
  ASSUME RequestInv, ErrInv, Smooth, NEW j \in Blocks, NextRound(j)
  PROVE  egErr'
<1>0. ReqType /\ StartInv /\ state[j] = "running" /\ ~Enough(j) /\ failed[j] \in Nat
  BY DEF RequestInv, NextRound, Answered, ReqType
<1>1. pc = "loop" /\ failed[j] # 0
  BY <1>0 DEF ErrInv, Enough
<1>2. j = start
  BY <1>0, <1>1 DEF Smooth
<1>3. rest[j] = {}
  BY <1>0, <1>1, <1>2 DEF StartInv
<1>4. ~(failed[j] <= Cardinality(rest[j]))
  BY <1>0, <1>1, <1>3, FS_EmptySet
<1> QED
  BY <1>4 DEF NextRound, RequestFails

\* A block goes to the writer when it is answered in full.
LEMMA StreamEnd ==
  ASSUME RequestInv, LoopInv, Smooth, Chunks, Fine, NEW j \in Blocks, BlockDone(j), ~egErr'
  PROVE  (Smooth /\ Chunks)'
<1>0. ReqType
  BY DEF RequestInv
<1>1. /\ state[j] = "running" /\ state' = [state EXCEPT ![j] = "returned"] /\ ready' = ready \cup {j}
      /\ UNCHANGED <<queue, mask, buffers, start, i, waiting, asked, unasked, rest, failed, got, busy, holds, bad,
                     order, writerAt>>
  BY DEF BlockDone, Answered, RequestFails, Fine, queueVars
<1>2. state'[j] = "returned" /\ \A h \in Blocks \ {j} : state'[h] = state[h]
  BY <1>0, <1>1 DEF ReqType
<1>3. \A h \in Blocks : Live(h)' = Live(h)
  BY <1>1 DEF Live, Out, Gotten, Pos
<1>4. Row'
  BY <1>1 DEF Smooth, Row
<1>5. \A h \in ready' : state'[h] = "returned"
  <2>1. \A h \in ready : state'[h] = "returned"
    BY <1>0, <1>1 DEF Smooth, ReqType
  <2> QED
    BY <2>1, <1>1, <1>2
<1>6. Smooth'
  <2>1. \A h \in Blocks : h < order => state'[h] = "returned"
    BY <1>2 DEF Smooth
  <2>2. \A h \in Blocks : state'[h] # "none" /\ h # start => failed[h] = 0 /\ Live(h) = 1 .. Thresh
    BY <1>1, <1>2 DEF Smooth
  <2> QED
    BY <2>1, <2>2, <1>1, <1>3, <1>4, <1>5 DEF Smooth
<1>7. \A h : Key(h)' = Key(h)
  BY <1>1 DEF Key, Size
<1>8. \A c, h : Has(c, h)' = Has(c, h)
  BY <1>1 DEF Has
<1>9. \A h \in Blocks : state[h] # "none" => state'[h] # "none"
  BY <1>2
<1>10. Chunks'
  BY <1>1, <1>7, <1>8, <1>9 DEF Chunks
<1> QED
  BY <1>6, <1>10

\* The writer frees the chunks of the block that it wrote, and no others.
LEMMA StreamWrite ==
  ASSUME RequestInv, LoopInv, Smooth, Chunks, Fine, WriteNext
  PROVE  (Smooth /\ Chunks)'
<1>0. ReqType /\ TidyAll /\ QueueInv
  BY DEF RequestInv
<1>1. /\ order \in ready /\ order < NumBlocks /\ order' = order + 1 /\ ready' = ready \ {order}
      /\ busy' = [b \in Blobbers |-> IF b \in buffers THEN busy[b] \ {Key(order)} ELSE busy[b]]
      /\ holds' = [b \in Blobbers |-> holds[b] \ {order}]
      /\ UNCHANGED <<state, waiting, asked, unasked, rest, failed, got, queue, mask, buffers, start, i, bad, writerAt>>
  BY DEF WriteNext, Writing, Release, queueVars, reqVars
<1>2. order \in Blocks /\ order \in Nat /\ start = 0 /\ start \in Blocks /\ NumBlocks \in Nat /\ Thresh \in Nat \ {0}
  <2>1. order \in Nat /\ NumBlocks \in Nat \ {0} /\ start = 0 /\ Thresh \in Nat \ {0}
    BY <1>0, SizesAssumption, FS_CardinalityType DEF LoopInv, Fine, Under
  <2> QED
    BY <1>1, <2>1 DEF Blocks
<1>3. state[order] = "returned"
  BY <1>1 DEF Smooth
<1>4. \A h \in Blocks : Live(h)' = Live(h)
  BY <1>1 DEF Live, Out, Gotten, Pos
<1>5. Row'
  BY <1>1 DEF Smooth, Row
<1>6. \A h \in Blocks : h \in Nat /\ (h < order + 1 => h < order \/ h = order)
  BY <1>2 DEF Blocks
<1>7. Smooth'
  <2>1. \A h \in Blocks : h < order + 1 => state[h] = "returned"
    BY <1>3, <1>6 DEF Smooth
  <2> QED
    BY <1>1, <1>4, <1>5, <2>1 DEF Smooth
<1>8. \A h : Key(h)' = Key(h)
  BY <1>1 DEF Key, Size
<1>9. \A c, h : Has(c, h)' = Has(c, h)
  BY <1>1 DEF Has
<1>10. ASSUME NEW b \in Blobbers, b \in buffers, NEW k \in holds[b], Key(k) = Key(order)
       PROVE  k = order
  <2>0. k \in Blocks /\ order <= k /\ state[k] # "none"
    BY DEF Chunks
  <2>1. order \in holds[b] => k = order
    BY <1>10 DEF Chunks
  <2>2. Has(b, order) => order \in holds[b]
    <3>1. ~(order < order)
      BY <1>2
    <3> QED
      BY <3>1, <1>2, <1>10 DEF Chunks
  <2>3. ASSUME k # order PROVE Has(b, order)
    <3>1. k # start /\ k > order /\ k \in Nat
      BY <2>0, <2>3, <1>2, <1>6
    <3>2. PICK p \in 1 .. Thresh : queue[p] = b
      BY <3>1 DEF Chunks
    <3>3. CASE order # start
      <4>1. Live(order) = 1 .. Thresh /\ Out(order) = {}
        BY <3>3, <1>0, <1>2, <1>3 DEF Smooth, TidyAll, Tidy
      <4>2. p \in Gotten(order)
        BY <4>1, <3>2 DEF Live
      <4> QED
        BY <4>2, <3>2 DEF Gotten, Has
    <3>4. CASE order = start
      <4>1. i > start + 1
        <5>1. k < i /\ i \in Nat
          BY <2>0, <1>0 DEF QueueInv, Fine, ReqType
        <5> QED
          BY <5>1, <3>1, <3>4, <1>2
      <4>2. PICK n \in Thresh .. Len(queue) : mask = 1 .. n /\ \A q \in 1 .. n : queue[q] \in got[start]
        BY <4>1 DEF Smooth, Row
      <4>3. p \in 1 .. n
        <5>1. Len(queue) \in Nat
          BY <1>0 DEF ReqType
        <5> QED
          BY <5>1, <4>2, <3>2, <1>2
      <4> QED
        BY <4>2, <4>3, <3>2, <3>4 DEF Has
    <3> QED
      BY <3>3, <3>4
  <2> QED
    BY <2>1, <2>2, <2>3
<1>11. \A b \in Blobbers : holds'[b] = holds[b] \ {order} /\ busy'[b] = IF b \in buffers THEN busy[b] \ {Key(order)} ELSE busy[b]
  BY <1>1
<1>12. ASSUME NEW b \in Blobbers, NEW k \in holds'[b]
       PROVE  /\ k \in Blocks /\ order' <= k /\ Key(k) \in busy'[b] /\ state[k] # "none"
              /\ k # start => \E p \in 1 .. Thresh : queue[p] = b
              /\ \A h \in holds'[b] : Key(h) = Key(k) => h = k
  <2>1. k \in holds[b] /\ k # order
    BY <1>11, <1>12
  <2>2. /\ k \in Blocks /\ order <= k /\ Key(k) \in busy[b] /\ state[k] # "none"
        /\ k # start => \E p \in 1 .. Thresh : queue[p] = b
        /\ \A h \in holds[b] : Key(h) = Key(k) => h = k
    BY <2>1 DEF Chunks
  <2>3. order' <= k
    BY <1>1, <1>2, <1>6, <2>1, <2>2
  <2>4. b \in buffers => Key(k) # Key(order)
    BY <1>10, <2>1
  <2>5. Key(k) \in busy'[b]
    BY <1>11, <2>2, <2>4
  <2> QED
    BY <1>11, <2>2, <2>3, <2>5
<1>13. ASSUME NEW b \in buffers, NEW h \in Blocks, Has(b, h) PROVE h < order' \/ h \in holds'[b]
  <2>1. h < order \/ h \in holds[b]
    BY <1>13 DEF Chunks
  <2>2. b \in Blobbers
    <3>1. got[h] \subseteq Blobbers /\ asked[h] \subseteq Pos /\ queue \in Seq(Blobbers)
      BY <1>0 DEF ReqType, TidyAll, Tidy, Out
    <3> QED
      BY <3>1, <1>13 DEF Has, Pos
  <2>3. h < order => h < order + 1
    BY <1>2, <1>6
  <2>4. order < order + 1
    BY <1>2
  <2> QED
    BY <2>1, <2>2, <2>3, <2>4, <1>1, <1>11
<1>14. Chunks'
  <2>1. busy' = [b \in Blobbers |-> busy'[b]] /\ holds' = [b \in Blobbers |-> holds'[b]]
    BY <1>1
  <2> QED
    BY <2>1, <1>1, <1>8, <1>9, <1>12, <1>13 DEF Chunks
<1> QED
  BY <1>7, <1>14

\* A request after the first is at the first blobbers of the row.
LEMMA StreamStart ==
  ASSUME RequestInv, LoopInv, Smooth, Chunks, Fine, StartRequest, ~egErr', NEW j, j = i
  PROVE  (Smooth /\ Chunks)'
<1>0. ReqType /\ TidyAll /\ QueueInv /\ StartInv
  BY DEF RequestInv
<1>1. PICK q \in IF i = start + 1 THEN Sorted ELSE {queue} :
        queue' = q /\ Starts(j, q)
  <2>1. PICK q \in IF i = start + 1 THEN Sorted ELSE {queue} :
          queue' = q /\ (PassesOver \/ FailsAtOnce(j) \/ Starts(j, q))
    BY StartRequestCases
  <2> QED
    BY <2>1 DEF PassesOver, FailsAtOnce, RequestFails, Fine
<1>2. /\ pc = "loop" /\ i' = i + 1 /\ (i = start + 1 => state[start] = "returned")
      /\ j \in Blocks /\ start \in Blocks /\ start <= i /\ i \in Nat /\ start \in Nat /\ state[j] = "none"
  BY StartRequestCases
<1>3. /\ UNCHANGED <<buffers, start, skip, busy, holds, bad, order, ready, writerAt, asked, got>> /\ ~egErr
      /\ state' = [state EXCEPT ![j] = "running"] /\ Cardinality(mask) >= Thresh /\ Round(j, q, mask, Thresh)
  BY <1>1 DEF StartRequest, bufVars, outVars, Starts, Fine
<1>4. state'[j] = "running" /\ \A h \in Blocks \ {j} : state'[h] = state[h]
  BY <1>0, <1>2, <1>3 DEF ReqType
<1>5. Len(q) = Len(queue) /\ (i # start + 1 => q = queue) /\ Len(queue) \in Nat /\ Thresh \in Nat
      /\ mask \in SUBSET Pos
  BY <1>0, SortEffect, SizesAssumption, FS_CardinalityType DEF ReqType
<1>6. \A h \in Blocks : state[h] # "none" => start <= h /\ h < i
  BY <1>0, <1>2 DEF QueueInv, Under
<1>7. i = start + 1 => \A h \in Blocks : state[h] # "none" => h = start
  BY <1>2, <1>6 DEF Blocks
<1>8. bad' = {} /\ \A h \in ready' : state'[h] = "returned"
  <2>1. \A h \in ready : state[h] = "returned" /\ h # j
    BY <1>2 DEF Smooth
  <2> QED
    BY <2>1, <1>0, <1>3 DEF Smooth, ReqType
<1>9. \A h \in Blocks : h < order' => state'[h] = "returned"
  BY <1>2, <1>3, <1>4 DEF Smooth
<1>10. /\ Row'
       /\ \A h \in Blocks : state'[h] # "none" /\ h # start' => failed'[h] = 0 /\ Live(h)' = 1 .. Thresh
  <2>1. CASE j = start
    <3>1. ~(i' > start' + 1)
      <4>1. i' = start + 1 /\ start' = start
        BY <2>1, <1>2, <1>3
      <4> QED
        BY <4>1, <1>2
    <3>2. \A h \in Blocks : state'[h] # "none" => h = start'
      BY <2>1, <1>2, <1>3, <1>4, <1>6 DEF Blocks
    <3> QED
      BY <3>1, <3>2 DEF Row
  <2>2. CASE j # start
    <3>1. PICK n \in Thresh .. Len(queue) : mask = 1 .. n /\ \A p \in 1 .. n : q[p] \in got[start]
      <4>1. CASE i > start + 1
        <5>1. q = queue
          BY <4>1, <1>2, <1>5
        <5> QED
          BY <4>1, <5>1 DEF Smooth, Row
      <4>2. CASE i = start + 1
        <5> DEFINE n == Cardinality(mask)
        <5>1. mask = 1 .. Cardinality(Live(start)) /\ mask = Gotten(start)'
          BY <4>2, <1>3, SortedMask
        <5>2. n = Cardinality(Live(start)) /\ n \in Nat
          BY <5>1, <1>2, FirstMask
        <5>3. n <= Len(queue)
          BY <1>5, PositionSets DEF Pos
        <5>4. mask = 1 .. n
          BY <5>1, <5>2
        <5>5. \A p \in mask : q[p] \in got[start]
          BY <5>1, <1>1, <1>3 DEF Gotten
        <5>6. n \in Thresh .. Len(queue)
          BY <5>2, <5>3, <1>3, <1>5
        <5> HIDE DEF n
        <5> QED
          BY <5>4, <5>5, <5>6
      <4> QED
        BY <4>1, <4>2, <2>2, <1>2
    <3>2. \A p \in mask : q[p] \notin skip
      BY <3>1, <1>0, <1>2 DEF StartInv
    <3>3. n \in Nat /\ Thresh \in 0 .. n /\ Thresh <= Cardinality(mask)
      <4>1. n \in Nat /\ Thresh \in 0 .. n
        BY <3>1, <1>5
      <4>2. Cardinality(1 .. n) = n
        BY <4>1, FS_Interval
      <4> QED
        BY <3>1, <4>1, <4>2
    <3>4. /\ \A h \in Blocks \ {j} : /\ waiting'[h] = waiting[h] /\ unasked'[h] = unasked[h]
                                     /\ failed'[h] = failed[h]
          /\ unasked'[j] = {} /\ failed'[j] = 0 /\ waiting'[j] = FirstOf(mask, Thresh) /\ mask' = mask
      BY <2>2, <3>2, <3>3, <1>0, <1>2, <1>3, <1>5, CleanRound
    <3>5. waiting'[j] = 1 .. Thresh
      BY <3>1, <3>3, <3>4, FirstOfInterval
    <3>6. got'[j] = {} /\ asked'[j] = {}
      BY <1>2, <1>3, NothingYet
    <3>7. Live(j)' = 1 .. Thresh
      BY <3>4, <3>5, <3>6 DEF Live, Out, Gotten
    <3>8. Row'
      <4>1. Len(queue') = Len(queue) /\ start' = start /\ got' = got /\ mask' = mask /\ queue' = q
        BY <1>1, <1>3, <1>5, <3>4
      <4> QED
        BY <3>1, <4>1 DEF Row
    <3>9. ASSUME NEW h \in Blocks, h # j, state'[h] # "none", h # start
          PROVE  failed'[h] = 0 /\ Live(h)' = 1 .. Thresh
      <4>1. state[h] # "none" /\ q = queue
        BY <3>9, <1>4, <1>5, <1>7
      <4>2. Live(h)' = Live(h)
        BY <3>4, <3>9, <4>1, <1>1, <1>3 DEF Live, Out, Gotten, Pos
      <4> QED
        BY <3>4, <3>9, <4>1, <4>2 DEF Smooth
    <3> QED
      BY <3>4, <3>7, <3>8, <3>9, <1>3
  <2> QED
    BY <2>1, <2>2
<1>11. Smooth'
  BY <1>8, <1>9, <1>10 DEF Smooth
<1>12. \A h : Key(h)' = Key(h)
  BY <1>3 DEF Key, Size
<1>13. ASSUME NEW c \in buffers, NEW h \in Blocks, Has(c, h)' PROVE Has(c, h)
  <2>1. CASE i # start + 1
    BY <2>1, <1>1, <1>3, <1>5, <1>13 DEF Has
  <2>2. CASE i = start + 1
    <3>1. asked[h] = {}
      <4>1. state[h] # "running"
        BY <2>2, <1>2, <1>7
      <4> QED
        BY <4>1, <1>0 DEF TidyAll, Tidy, Out
    <3> QED
      BY <3>1, <1>3, <1>13 DEF Has
  <2> QED
    BY <2>1, <2>2
<1>14. ASSUME NEW b \in Blobbers, NEW h \in holds[b]
       PROVE  state'[h] # "none" /\ (h # start => \E p \in 1 .. Thresh : queue'[p] = b)
  <2>1. h \in Blocks /\ state[h] # "none" /\ (h # start => \E p \in 1 .. Thresh : queue[p] = b)
    BY DEF Chunks
  <2>2. h # start => queue' = queue
    BY <2>1, <1>1, <1>5, <1>7
  <2> QED
    BY <2>1, <2>2, <1>4
<1>15. Chunks'
  BY <1>3, <1>12, <1>13, <1>14 DEF Chunks
<1> QED
  BY <1>11, <1>15

\* As long as nothing fails, nothing is overwritten.
LEMMA FineStep ==
  ASSUME IndInv, RequestInv, ErrInv, StreamInv, [Next]_vars, Fine'
  PROVE  (Smooth /\ Chunks)'
<1>0. LoopInv /\ ProgressInv
  BY DEF IndInv
<1>p. pc' \in {"loop", "closing"} /\ ~writerAt' /\ ~egErr' /\ ~ctxDone' /\ faulty' = {}
  BY DEF Fine, Under
<1>1. CASE SubmitReadMarkers
  BY <1>1, StreamBegin
<1>2. ~(GetFileRef \/ Finish \/ Crash \/ Retry)
  <2>1. ~GetFileRef
    BY <1>0, <1>p, GetFileRefEffect
  <2> QED
    BY <2>1, <1>p DEF Finish, Crash, Retry
<1>3. CASE ~SubmitReadMarkers
  <2>1. faulty \subseteq faulty'
    BY <1>2, <1>3, FaultsStay DEF Next, Step, FaultsKept
  <2>2. CASE Fine
    <3>0. Smooth /\ Chunks
      BY <2>2 DEF StreamInv
    <3>1. CASE StartRequest
      BY <3>0, <3>1, <2>2, <1>0, <1>p, StreamStart
    <3>2. ASSUME NEW j \in Blocks, NEW p \in Positions, Send(j, p) \/ Answer(j, p) \/ AnswerFails(j, p)
          PROVE  (Smooth /\ Chunks)'
      <4>1. ~AnswerFails(j, p)
        BY <1>p DEF AnswerFails
      <4> QED
        BY <3>0, <3>2, <4>1, <2>2, <1>0, StreamSend, StreamAnswer
    <3>3. ASSUME NEW j \in Blocks, NextRound(j) \/ BlockDone(j) \/ WriteAtFails(j)
          PROVE  (Smooth /\ Chunks)'
      <4>1. ~NextRound(j)
        BY <3>0, <1>p, StreamNoRound
      <4>2. ~WriteAtFails(j)
        BY <1>p DEF WriteAtFails
      <4> QED
        BY <3>0, <3>3, <4>1, <4>2, <2>2, <1>0, <1>p, StreamEnd
    <3>4. CASE WriteNext
      BY <3>0, <3>4, <2>2, <1>0, StreamWrite
    <3>5. ~PassOver /\ ~HashFails
      <4>1. ~PassOver
        BY <1>0, <2>2, NoPassOver DEF Fine
      <4>2. ASSUME HashFails, result # "error" PROVE FALSE
        <5>1. stream = [k \in 1 .. order |-> k - 1]
          BY <4>2, <2>2 DEF IndInv, WriterInv, Fine
        <5> QED
          BY <4>2, <5>1, <3>0 DEF HashFails, HashRight, Smooth
      <4>3. ASSUME HashFails, result = "error" PROVE FALSE
        <5>1. pc # "done" /\ faulty = {} /\ ~ctxDone
          BY <2>2 DEF Fine, Under
        <5> QED
          BY <4>3, <5>1, <3>0 DEF ErrInv, Smooth
      <4> QED
        BY <4>1, <4>2, <4>3
    <3>6. ~WriterEnds /\ ~CancelDownload
      BY <1>p, <2>2 DEF WriterEnds, CancelDownload, Fine
    <3>7. CASE RequestsDone \/ SaveTick \/ Done \/ UNCHANGED vars
      <4>1. UNCHANGED <<reqVars, queue, mask, buffers, start, i, writerAt, bufVars, order, ready>>
        BY <3>7 DEF RequestsDone, SaveTick, Done, vars, queueVars, outVars
      <4> QED
        BY <3>0, <4>1, StreamFrame
    <3>8. CASE \E v \in 1 .. NumBlocks : Update(v)
      <4>1. UNCHANGED <<reqVars, queue, mask, buffers, start, i, writerAt, bufVars, order, ready>>
        BY <3>8 DEF Update, queueVars, outVars
      <4> QED
        BY <3>0, <4>1, StreamFrame
    <3> QED
      BY <1>2, <1>3, <3>1, <3>2, <3>3, <3>4, <3>5, <3>6, <3>7, <3>8 DEF Next, Step
  <2>3. Fine
    <3>1. CASE StartRequest
      <4>1. pc = "loop" /\ UNCHANGED <<writerAt, ctxDone>> /\ (egErr' = egErr \/ egErr' = TRUE)
        BY <3>1, StartRequestEffect
      <4> QED
        BY <4>1, <1>p, <2>1 DEF Fine, Under
    <3>2. ASSUME NEW j \in Blocks, NEW p \in Positions, Send(j, p) \/ Answer(j, p) \/ AnswerFails(j, p)
          PROVE  Fine
      BY <3>2, <1>p, <2>1, RequestEffect DEF Fine, Under
    <3>3. ASSUME NEW j \in Blocks, NextRound(j) \/ BlockDone(j) \/ WriteAtFails(j)
          PROVE  Fine
      BY <3>3, <1>p, <2>1, EndEffect DEF Fine, Under
    <3>4. CASE WriteNext \/ HashFails \/ PassOver \/ WriterEnds
      <4>1. UNCHANGED <<pc, writerAt, egErr, ctxDone>>
        BY <3>4 DEF WriteNext, HashFails, PassOver, WriterEnds
      <4> QED
        BY <4>1, <1>p, <2>1 DEF Fine, Under
    <3>5. CASE RequestsDone \/ CancelDownload
      <4>1. UNCHANGED <<writerAt, egErr>> /\ pc = "loop" /\ (ctxDone => ctxDone')
        <5>1. CASE RequestsDone
          BY <5>1 DEF RequestsDone
        <5>2. CASE CancelDownload
          BY <5>2 DEF CancelDownload
        <5> QED
          BY <3>5, <5>1, <5>2
      <4> QED
        BY <4>1, <1>p, <2>1 DEF Fine, Under
    <3>6. CASE (\E v \in 1 .. NumBlocks : Update(v)) \/ SaveTick \/ Done \/ UNCHANGED vars
      BY <3>6, <1>p, <2>1, StorerEffect DEF Fine, Under
    <3> QED
      BY <1>2, <1>3, <3>1, <3>2, <3>3, <3>4, <3>5, <3>6 DEF Next, Step
  <2> QED
    BY <2>2, <2>3
<1> QED
  BY <1>1, <1>3

\* The buffers are empty before the loop.
LEMMA StreamStep == IndInv /\ RequestInv /\ ErrInv /\ StreamInv /\ [Next]_vars => StreamInv'
<1> SUFFICES ASSUME IndInv, RequestInv, ErrInv, StreamInv, [Next]_vars PROVE StreamInv'
  OBVIOUS
<1>1. Fine' => (Smooth /\ Chunks)'
  BY FineStep
<1>2. ASSUME pc' \in {"meta", "markers"} PROVE bad' = {} /\ busy' = Empty /\ holds' = Empty
  <2>1. CASE Retry
    BY <2>1 DEF Retry, Empty
  <2>2. CASE GetFileRef
    BY <2>2 DEF GetFileRef, bufVars, StreamInv
  <2>3. CASE ~Retry /\ ~GetFileRef
    <3>1. pc' = pc /\ pc \in {"meta", "markers"}
      <4>1. ~(SubmitReadMarkers \/ RequestsDone \/ Finish \/ Crash)
        BY <1>2 DEF SubmitReadMarkers, RequestsDone, Finish, Crash, ErrorCB
      <4>2. pc' = pc
        <5>1. CASE Quiet
          BY <5>1, QuietEffect
        <5>2. CASE (\E v \in 1 .. NumBlocks : Update(v)) \/ SaveTick
          BY <5>2, StorerEffect
        <5>3. ASSUME NEW j \in Blocks, BlockDone(j) PROVE pc' = pc
          BY <5>3 DEF BlockDone
        <5> QED
          BY <2>3, <4>1, <5>1, <5>2, <5>3 DEF Next, Step, Quiet
      <4> QED
        BY <1>2, <4>2
    <3>2. \A j \in Blocks : state[j] # "running" /\ Out(j) = {}
      <4>1. pc # "loop"
        BY <3>1
      <4> QED
        BY <4>1 DEF ErrInv, RequestInv, TidyAll, Tidy
    <3>3. ~\E j \in Blocks : NextRound(j) \/ BlockDone(j) \/ WriteAtFails(j)
      BY <3>2 DEF NextRound, BlockDone, WriteAtFails, Answered
    <3>4. ~\E j \in Blocks, p \in Positions : Send(j, p) \/ Answer(j, p) \/ AnswerFails(j, p)
      BY <3>2, NobodyAsked
    <3>5. ~(SubmitReadMarkers \/ StartRequest \/ WriteNext \/ HashFails \/ PassOver \/ RequestsDone \/ Finish)
      BY <3>1 DEF SubmitReadMarkers, StartRequest, WriteNext, HashFails, PassOver, Writing, RequestsDone, Finish, ErrorCB
    <3>6. ~(WriterEnds \/ SaveTick \/ CancelDownload \/ Crash \/ \E v \in 1 .. NumBlocks : Update(v))
      BY <3>1 DEF WriterEnds, Writing, SaveTick, CancelDownload, Crash, Update
    <3>7. UNCHANGED vars
      BY <2>3, <3>3, <3>4, <3>5, <3>6 DEF Next, Step, Done
    <3> QED
      BY <3>1, <3>7 DEF vars, bufVars, StreamInv
  <2> QED
    BY <2>1, <2>2, <2>3
<1> QED
  BY <1>1, <1>2 DEF StreamInv

LEMMA StreamInit == Init => StreamInv
BY DEF Init, StreamInv, Fine, Under, Empty

-----------------------------------------------------------------------------
(* The results.                                                            *)

\* What the writer has is answered in full, so nothing is spoilt after the check of the
\* hash.
HashInv ==
  Under /\ ~writerAt /\ ~ctxDone /\ result # "error" =>
    /\ \A j \in ready : j \in Blocks /\ state[j] = "returned"
    /\ \A j \in Blocks : j < order => state[j] = "returned"
    /\ order = NumBlocks => bad = {}

AllInv == IndInv /\ RequestInv /\ FaultInv /\ StreamInv /\ HashInv

\* The check of the hash is the last thing that happens to a stream.
LEMMA HashStep == AllInv /\ [Next]_vars => HashInv'
<1> SUFFICES ASSUME AllInv, [Next]_vars, Under', ~writerAt', ~ctxDone', result' # "error"
             PROVE  /\ \A j \in ready' : j \in Blocks /\ state'[j] = "returned"
                    /\ \A j \in Blocks : j < order' => state'[j] = "returned"
                    /\ order' = NumBlocks => bad' = {}
  BY DEF HashInv
<1>0. /\ ProgressInv /\ LoopInv /\ RequestInv /\ ReqType /\ TidyAll
      /\ NumBlocks \in Nat \ {0} /\ order \in 0 .. NumBlocks
  BY SizesAssumption DEF AllInv, IndInv, RequestInv, LoopInv
<1>a. Under /\ ~writerAt /\ ~ctxDone /\ result # "error" =>
        /\ \A j \in ready : j \in Blocks /\ state[j] = "returned"
        /\ \A j \in Blocks : j < order => state[j] = "returned"
        /\ order = NumBlocks => bad = {}
  BY DEF AllInv, HashInv
<1>1. ~(GetFileRef \/ Finish \/ Crash \/ Retry)
  <2>1. ~GetFileRef
    BY <1>0, GetFileRefEffect DEF Under
  <2> QED
    BY <2>1 DEF Finish, Crash, Retry, Under
<1>2. CASE SubmitReadMarkers
  <2>1. pc = "markers" /\ UNCHANGED <<ready, order>>
    BY <1>2 DEF SubmitReadMarkers, outVars
  <2>2. ready' = {} /\ order' = 0
    BY <1>0, <2>1 DEF LoopInv
  <2>3. \A j \in Blocks : ~(j < 0)
    BY DEF Blocks
  <2> QED
    BY <1>0, <2>2, <2>3
<1>3. CASE StartRequest
  <2>1. /\ UNCHANGED <<writerAt, pc, result, ctxDone, order, ready, bad>>
        /\ \/ UNCHANGED state
           \/ state' = [state EXCEPT ![i] = "returned"]
           \/ state' = [state EXCEPT ![i] = "running"]
    BY <1>3, StartRequestEffect
  <2>2. state[i] = "none"
    BY <1>0, <1>3, StartRequestCases
  <2>3. \A j \in Blocks : state[j] = "returned" => state'[j] = state[j]
    BY <1>0, <2>1, <2>2 DEF ReqType
  <2> QED
    BY <2>1, <2>3, <1>a DEF Under
<1>4. ASSUME NEW j \in Blocks, NextRound(j) \/ BlockDone(j) \/ WriteAtFails(j)
      PROVE  /\ \A k \in ready' : k \in Blocks /\ state'[k] = "returned"
             /\ \A k \in Blocks : k < order' => state'[k] = "returned"
             /\ order' = NumBlocks => bad' = {}
  <2>1. /\ UNCHANGED <<writerAt, pc, result, ctxDone, order, bad>> /\ ready' \subseteq ready \cup {j}
        /\ \/ UNCHANGED <<state, ready>>
           \/ state' = [state EXCEPT ![j] = "returned"]
    BY <1>4, EndEffect
  <2>2. /\ state'[j] = "returned" \/ ready' = ready
        /\ \A k \in Blocks : state[k] = "returned" => state'[k] = "returned"
    BY <1>0, <2>1 DEF ReqType
  <2> QED
    BY <2>1, <2>2, <1>a DEF Under
<1>5. ASSUME NEW j \in Blocks, NEW p \in Positions, Send(j, p) \/ Answer(j, p) \/ AnswerFails(j, p)
      PROVE  /\ \A k \in ready' : k \in Blocks /\ state'[k] = "returned"
             /\ \A k \in Blocks : k < order' => state'[k] = "returned"
             /\ order' = NumBlocks => bad' = {}
  <2>1. UNCHANGED <<writerAt, pc, result, state, ctxDone, order, ready>>
    BY <1>5, RequestEffect
  <2>2. CASE Send(j, p) \/ AnswerFails(j, p)
    <3>1. UNCHANGED bad
      BY <2>2 DEF Send, AnswerFails
    <3> QED
      BY <2>1, <3>1, <1>a DEF Under
  <2>3. CASE Answer(j, p)
    <3>1. state[j] = "running"
      <4>1. p \in asked[j]
        BY <2>3 DEF Answer
      <4> QED
        BY <1>0, <4>1, OutRuns DEF Out
    <3>2. order # NumBlocks
      BY <2>1, <3>1, <1>0, <1>a DEF Blocks, Under
    <3> QED
      BY <2>1, <3>2, <1>a DEF Under
  <2> QED
    BY <1>5, <2>2, <2>3
<1>6. CASE WriteNext
  <2>1. /\ UNCHANGED <<writerAt, pc, result, state, ctxDone, bad>>
        /\ order \in ready /\ ready' = ready \ {order} /\ order' = order + 1
        /\ order = NumBlocks - 1 => bad = {}
    BY <1>6 DEF WriteNext, HashRight, reqVars
  <2>2. \A j \in Blocks : j < order + 1 => j < order \/ j = order
    BY <1>0 DEF Blocks
  <2>3. order + 1 = NumBlocks => bad = {}
    BY <1>0, <2>1
  <2> QED
    BY <2>1, <2>2, <2>3, <1>a DEF Under
<1>7. ~(HashFails \/ PassOver \/ WriterEnds \/ CancelDownload)
  <2>1. ~PassOver
    BY <1>0, NoPassOver DEF PassOver
  <2> QED
    BY <2>1 DEF HashFails, WriterEnds, CancelDownload
<1>8. CASE RequestsDone
  <2>1. pc = "loop" /\ UNCHANGED <<writerAt, state, ctxDone, order, ready, bad>>
    BY <1>8 DEF RequestsDone, reqVars, bufVars, outVars
  <2>2. UNCHANGED result
    BY <1>8 DEF RequestsDone, ErrorCB
  <2> QED
    BY <2>1, <2>2, <1>a DEF Under
<1>9. CASE (\E v \in 1 .. NumBlocks : Update(v)) \/ SaveTick \/ Done \/ UNCHANGED vars
  <2>1. UNCHANGED <<writerAt, pc, result, state, ctxDone, order, ready, bad>>
    BY <1>9, StorerEffect
  <2> QED
    BY <2>1, <1>a DEF Under
<1> QED
  BY <1>1, <1>2, <1>3, <1>4, <1>5, <1>6, <1>7, <1>8, <1>9 DEF Next, Step

\* A download that completes has spoilt nothing.
LEMMA CompleteStep == AllInv /\ Complete /\ [Next]_vars => Complete'
<1> SUFFICES ASSUME AllInv, Complete, [Next]_vars, ~Complete' PROVE FALSE
  OBVIOUS
<1>0. IndInv /\ IndInv' /\ ErrInv /\ RequestInv
  BY ProgressStep, LoopStep, WriterStep, DoneStep DEF AllInv, IndInv, FaultInv
<1>1. result' = "completed" /\ ~ctxDone' /\ ~writerAt' /\ bad' # {} /\ pc' = "done"
  BY <1>0 DEF IndInv, DoneInv, InPlace, Complete
<1>2. CASE pc = "done"
  <2>1. UNCHANGED vars
    BY <1>0, <1>1, <1>2, DoneStays DEF Retry
  <2>2. UNCHANGED <<result, ctxDone, writerAt, bad>>
    BY <2>1 DEF vars, bufVars
  <2> QED
    BY <1>1, <2>2 DEF Complete
<1>3. CASE pc # "done"
  <2>1. GetFileRef \/ SubmitReadMarkers \/ RequestsDone \/ Finish
    BY <1>1, <1>3, EndsByThese
  <2>2. ~GetFileRef
    BY <1>0, <1>1, GetFileRefEffect DEF IndInv
  <2>3. ~SubmitReadMarkers /\ ~RequestsDone
    BY <1>1 DEF SubmitReadMarkers, RequestsDone, ErrorCB
  <2>4. /\ pc = "closing" /\ result # "error" /\ order = NumBlocks
        /\ UNCHANGED <<writerAt, ctxDone, bad>>
    BY <1>1, <2>1, <2>2, <2>3 DEF Finish, bufVars
  <2> QED
    BY <1>1, <2>4 DEF AllInv, HashInv, Under
<1> QED
  BY <1>2, <1>3

\* Every way to fail.
LEMMA FailsStep == AllInv /\ FailsBeyondParity /\ [Next]_vars => FailsBeyondParity'
<1> SUFFICES ASSUME AllInv, FailsBeyondParity, [Next]_vars, ~FailsBeyondParity' PROVE FALSE
  OBVIOUS
<1>0. /\ ProgressInv /\ LoopInv /\ RoundsInv /\ ErrInv /\ RequestInv /\ RequestInv' /\ StreamInv
      /\ ReqType /\ QueueInv
  BY RequestStep DEF AllInv, IndInv, FaultInv, RequestInv
<1>1. result' = "error" /\ "disk" \notin faulty' /\ Clean' /\ ~ctxDone' /\ pc' = "done"
  BY DEF FailsBeyondParity, Clean
<1>2. CASE pc = "done"
  <2>1. Retry \/ UNCHANGED vars
    BY <1>0, <1>2, DoneStays
  <2>2. UNCHANGED vars
    BY <2>1, <1>1 DEF Retry
  <2>3. UNCHANGED <<pc, result, skip, buffers, queue, ctxDone, faulty, attempt, file, writerAt, bad>>
    BY <2>2 DEF vars, queueVars, bufVars, outVars
  <2>4. ToSet(queue') = ToSet(queue) /\ Len(queue') = Len(queue)
    BY <2>3
  <2>5. FailsBeyondParity'
    BY <1>0, <2>3, <2>4 DEF FailsBeyondParity
  <2> QED
    BY <2>5
<1>3. CASE pc # "done"
  <2>0. GetFileRef \/ SubmitReadMarkers \/ RequestsDone \/ Finish
    BY <1>1, <1>3, EndsByThese
  <2>1. CASE GetFileRef
    BY <1>0, <1>1, <2>1, NoFileRef
  <2>2. CASE SubmitReadMarkers
    <3>1. pc = "markers" /\ UNCHANGED <<buffers, queue>>
      BY <1>1, <2>2 DEF SubmitReadMarkers
    <3>2. buffers = {} /\ Thresh <= Len(queue) /\ queue \in Seq(Blobbers)
      BY <1>0, <3>1 DEF QueueInv, ReqType
    <3>3. 1 \in 1 .. Len(queue)
      <4>1. Thresh \in Nat \ {0} /\ Len(queue) \in Nat
        BY <1>0, SpoiltCount
      <4> QED
        BY <4>1, <3>2
    <3>4. queue[1] \in ToSet(queue)
      BY <3>2, <3>3 DEF ToSet
    <3> QED
      BY <1>1, <3>1, <3>2, <3>4 DEF Clean
  <2>3. CASE RequestsDone
    <3>1. pc = "loop" /\ egErr /\ UNCHANGED <<queue, skip, buffers, ctxDone, faulty, attempt, file>>
      BY <1>1, <2>3 DEF RequestsDone, queueVars, outVars
    <3>2. Clean
      BY <1>1, <3>1 DEF Clean, ToSet
    <3>3. Excuse
      BY <1>0, <3>1, <3>2 DEF RoundsInv, Rounds
    <3>4. Excuse'
      <4>1. ReqType'
        BY <1>0 DEF RequestInv
      <4> QED
        BY <3>1, <3>3, <4>1, <1>0, ExcuseStays
    <3>5. (Thresh <= Len(queue))' /\ ReqType'
      BY <1>0, <3>1 DEF QueueInv, Under, RequestInv
    <3>6. FailsBeyondParity'
      BY <3>4, <3>5, ExcuseFails, PTL
    <3> QED
      BY <3>6
  <2>4. CASE Finish
    <3>1. pc = "closing" /\ result = "error" /\ UNCHANGED <<faulty, bad, ctxDone, writerAt>>
      BY <1>1, <2>4 DEF Finish, bufVars
    <3>2. ~writerAt /\ bad # {} /\ ~egErr
      BY <1>0, <1>1, <3>1 DEF ErrInv, LoopInv
    <3>3. faulty # {}
      BY <1>0, <1>1, <3>1, <3>2 DEF StreamInv, Smooth, Fine, Under
    <3>4. FailsBeyondParity'
      BY <3>1, <3>2, <3>3 DEF FailsBeyondParity
    <3> QED
      BY <3>4
  <2> QED
    BY <2>0, <2>1, <2>2, <2>3, <2>4
<1> QED
  BY <1>2, <1>3

LEMMA ResultInit == Init => HashInv /\ Complete /\ FailsBeyondParity
BY DEF Init, HashInv, Complete, FailsBeyondParity, Under

LEMMA AllAlways == Spec => []AllInv
<1>1. (IndInv /\ RequestInv /\ FaultInv) /\ StreamInv /\ [Next]_vars => StreamInv'
  BY StreamStep DEF FaultInv
<1>2. Init => HashInv
  BY ResultInit
<1>3. (IndInv /\ RequestInv /\ FaultInv) /\ StreamInv /\ HashInv /\ [Next]_vars => HashInv'
  BY HashStep DEF AllInv
<1>4. IndInv /\ RequestInv /\ FaultInv /\ StreamInv /\ HashInv => AllInv
  BY DEF AllInv
<1> QED
  BY <1>1, <1>2, <1>3, <1>4, StreamInit, FaultsAlways, PTL DEF Spec

\* Whatever order the answers, the failures and the sends of the parallel requests come in,
\* a download whose read markers were all accepted ends with an error only for a reason: a
\* cancel, a write, a file that too few blobbers know or that is there already, more failed
\* blobbers among those it reads from than the shards it can do without, or, for a stream,
\* a block that a failed or a slow blobber let another one overwrite.
THEOREM FailsBeyondParityHolds == Spec => []FailsBeyondParity
<1>1. Init => FailsBeyondParity
  BY ResultInit
<1> QED
  BY <1>1, FailsStep, AllAlways, PTL DEF Spec

\* A download that reports Completed and was not cancelled has every block at its place,
\* and none with another one's data, whatever failed: in a file that takes WriteAt because
\* no chunk is used twice, and in a stream because the hash is checked when every request
\* has ended.
THEOREM CompleteHolds == Spec => []Complete
<1>1. Init => Complete
  BY ResultInit
<1> QED
  BY <1>1, CompleteStep, AllAlways, PTL DEF Spec
=============================================================================
