----------------------------- MODULE WriterProofs -----------------------------
(***************************************************************************)
(* Theorems about PersistenceWriter, for every set of flows, buffer        *)
(* capacity, batch size, number of retries and kind of repository.         *)
(***************************************************************************)
EXTENDS PersistenceWriter, Descent, SequenceTheorems, FiniteSetTheorems, TLAPS

-------------------------------------------------------------------------------
(* Type correctness *)

\* Taking the front of the channel moves a flow from held to gone.
LEMMA TakeTypes ==
  ASSUME held \in Seq(Flows), gone \in Seq(Flows), Take
  PROVE  /\ Head(held) \in Flows
         /\ held' \in Seq(Flows)
         /\ gone' = Append(gone, Head(held))
         /\ gone' \in Seq(Flows)
<1>1. held # <<>>
  BY DEF Take, Depart
<1>2. Head(held) \in Flows /\ Tail(held) \in Seq(Flows)
  BY <1>1, HeadTailProperties
<1>3. Append(gone, Head(held)) \in Seq(Flows)
  BY <1>2, AppendProperties
<1>4. QED BY <1>2, <1>3 DEF Take, Depart

\* flush (writer.rs:64-69) keeps the types of what it moves.
LEMMA FlushTypes ==
  ASSUME TypeOK, NEW b \in Seq(Flows), Flush(b)
  PROVE  /\ batch' \in Seq(Flows) /\ flight' \in Seq(Flows)
         /\ row' \in Nat /\ attempt' \in 0..MaxRetries
         /\ pc' \in {"recv", "save", "done"}
<1>1. 0 \in 0..MaxRetries
  BY WriterAssumption
<1>2. pc' \in {"recv", "save", "done"}
  BY DEF Flush
<1>3. batch' \in Seq(Flows) /\ flight' \in Seq(Flows)
  <2>1. (batch' = b /\ flight' = flight) \/ (batch' = <<>> /\ flight' = b)
    BY DEF Flush
  <2>2. <<>> \in Seq(Flows) /\ flight \in Seq(Flows)
    BY DEF TypeOK
  <2>3. QED BY <2>1, <2>2
<1>4. row' \in Nat /\ attempt' \in 0..MaxRetries
  <2>1. UNCHANGED <<row, attempt>> \/ (row' = 0 /\ attempt' = 0)
    BY DEF Flush
  <2>2. row \in Nat /\ attempt \in 0..MaxRetries
    BY DEF TypeOK
  <2>3. QED BY <1>1, <2>1, <2>2
<1>5. QED BY <1>2, <1>3, <1>4

\* The members of a sequence of flows are flows.
LEMMA RangeType ==
  ASSUME NEW s \in Seq(Flows)
  PROVE  RangeOf(s) \subseteq Flows
BY ElementOfSeq DEF RangeOf

\* Every step of the sink, close and run keeps the types.
LEMMA TypeInductive == TypeOK /\ [WriterNext]_pipeVars => TypeOK'
<1> SUFFICES ASSUME TypeOK, [WriterNext]_pipeVars
             PROVE  TypeOK'
  OBVIOUS
<1>1. ASSUME NEW f \in Flows, BeginPush(f)
      PROVE  TypeOK'
  BY <1>1 DEF BeginPush, TypeOK, chanVars, writerVars
<1>2. ASSUME NEW f \in Flows, EndPush(f)
      PROVE  TypeOK'
  <2>1. Append(held, f) \in Seq(Flows)
    BY AppendProperties DEF TypeOK
  <2>2. QED BY <1>2, <2>1 DEF EndPush, Admit, TypeOK, writerVars
<1>3. CASE CloseBuffer
  BY <1>3 DEF CloseBuffer, TypeOK, chanVars, writerVars
<1>4. CASE RecvFlow
  <2>1. /\ Head(held) \in Flows
        /\ held' \in Seq(Flows) /\ gone' \in Seq(Flows)
    BY <1>4, TakeTypes DEF RecvFlow, TypeOK
  <2> DEFINE b == Append(batch, Head(held))
  <2>2. b \in Seq(Flows)
    BY <2>1, AppendProperties DEF TypeOK
  <2>3. /\ batch' \in Seq(Flows) /\ flight' \in Seq(Flows)
        /\ row' \in Nat /\ attempt' \in 0..MaxRetries
        /\ pc' \in {"recv", "save", "done"}
    <3>1. CASE Flush(b)
      BY <2>2, <3>1, FlushTypes
    <3>2. CASE batch' = b /\ UNCHANGED <<flight, row, attempt, pc>>
      BY <1>4, <2>2, <3>2 DEF RecvFlow, TypeOK
    <3>3. QED BY <1>4, <3>1, <3>2 DEF RecvFlow
  <2>4. QED BY <1>4, <2>1, <2>3 DEF RecvFlow, TypeOK, producerVars
<1>5. CASE RecvNone
  <2>1. /\ batch' \in Seq(Flows) /\ flight' \in Seq(Flows)
        /\ row' \in Nat /\ attempt' \in 0..MaxRetries
        /\ pc' \in {"recv", "save", "done"}
    BY <1>5, FlushTypes DEF RecvNone, TypeOK
  <2>2. QED BY <1>5, <2>1 DEF RecvNone, TypeOK, chanVars, producerVars
<1>6. CASE UpsertRow
  <2>1. flight[row + 1] \in Flows
    BY <1>6, ElementOfSeq DEF UpsertRow, TypeOK
  <2>2. row' \in Nat /\ stored' \subseteq Flows
    BY <1>6, <2>1 DEF UpsertRow, TypeOK
  <2>3. QED BY <1>6, <2>2 DEF UpsertRow, TypeOK, chanVars, producerVars
<1>7. CASE SaveOk
  <2>1. saved \o flight \in Seq(Flows)
    BY ConcatProperties DEF TypeOK
  <2>2. stored' \subseteq Flows
    BY <1>7, RangeType DEF SaveOk, TypeOK
  <2>3. QED BY <1>7, <2>1, <2>2 DEF SaveOk, TypeOK, chanVars, producerVars
<1>8. CASE SaveTransient
  <2>1. attempt' \in 0..MaxRetries
    BY <1>8, WriterAssumption DEF SaveTransient, TypeOK
  <2>2. QED BY <1>8, <2>1 DEF SaveTransient, TypeOK, chanVars, producerVars
<1>9. CASE Retry \/ SaveFails \/ PublishFails \/ Flushed
  BY <1>9 DEF Retry, SaveFails, PublishFails, Flushed, TypeOK, chanVars, producerVars
<1>10. CASE PublishOne
  <2>1. Head(outbox) \in Flows /\ Tail(outbox) \in Seq(Flows)
    BY <1>10, HeadTailProperties DEF PublishOne, TypeOK
  <2>2. Append(published, Head(outbox)) \in Seq(Flows)
    BY <2>1, AppendProperties DEF TypeOK
  <2>3. QED BY <1>10, <2>1, <2>2 DEF PublishOne, TypeOK, chanVars, producerVars
<1>11. CASE UNCHANGED pipeVars
  BY <1>11 DEF TypeOK, pipeVars, chanVars, producerVars, writerVars
<1>12. QED
  BY <1>1, <1>2, <1>3, <1>4, <1>5, <1>6, <1>7, <1>8, <1>9, <1>10, <1>11
     DEF WriterNext, WriterStep, Save, Publish

\* Every variable of the writer keeps its type; in particular a batch is never
\* retried more often than MaxRetries (writer.rs:83-85).
THEOREM WriterTypeCorrect == WriterSpec => []TypeOK
<1>1. WriterInit => TypeOK
  <2>1. 0 \in 0..MaxRetries /\ <<>> \in Seq(Flows)
    BY WriterAssumption
  <2> SUFFICES ASSUME WriterInit
               PROVE  TypeOK
    OBVIOUS
  <2>2. /\ held \in Seq(Flows) /\ gone \in Seq(Flows)
        /\ batch \in Seq(Flows) /\ flight \in Seq(Flows) /\ outbox \in Seq(Flows)
        /\ saved \in Seq(Flows) /\ published \in Seq(Flows)
        /\ row \in Nat /\ attempt \in 0..MaxRetries
    BY <2>1 DEF WriterInit, ChannelInit
  <2>3. closed \in BOOLEAN /\ ending \in BOOLEAN
    BY DEF WriterInit
  <2>4. /\ pushing \subseteq Flows /\ refused \subseteq Flows /\ stored \subseteq Flows
        /\ pc \in {"recv", "save", "backoff", "publish", "done", "failed"}
    BY DEF WriterInit
  <2>5. QED BY <2>2, <2>3, <2>4 DEF TypeOK
<1>2. QED BY <1>1, TypeInductive, PTL DEF WriterSpec
-------------------------------------------------------------------------------
(* The pipeline keeps every flow, once and in order *)

\* Concatenation of sequences of flows is associative.
LEMMA FlowConcat == \A s, t, u \in Seq(Flows) : (s \o t) \o u = s \o (t \o u)
BY ConcatAssociative

\* Appending to the second of two sequences appends to their concatenation
\* (batch.push, writer.rs:51).
LEMMA AppendConcat ==
  ASSUME NEW s \in Seq(Flows), NEW t \in Seq(Flows), NEW f \in Flows
  PROVE  Append(s \o t, f) = s \o Append(t, f)
<1>1. s \o t \in Seq(Flows) /\ <<f>> \in Seq(Flows)
  BY ConcatProperties
<1>2. Append(s \o t, f) = (s \o t) \o <<f>> /\ Append(t, f) = t \o <<f>>
  BY <1>1, AppendIsConcat
<1>3. QED BY <1>1, <1>2, ConcatAssociative

\* Moving the head of the second sequence behind the first keeps their
\* concatenation (the publish loop, writer.rs:70-74).
LEMMA HeadTailConcat ==
  ASSUME NEW s \in Seq(Flows), NEW t \in Seq(Flows), t # <<>>
  PROVE  s \o t = Append(s, Head(t)) \o Tail(t)
<1>1. Head(t) \in Flows /\ Tail(t) \in Seq(Flows) /\ <<Head(t)>> \in Seq(Flows)
  BY HeadTailProperties
<1>2. t = <<Head(t)>> \o Tail(t)
  <2>1. <<Head(t)>> \o Tail(t) \in Seq(Flows)
    BY <1>1, ConcatProperties
  <2>2. /\ Len(<<Head(t)>> \o Tail(t)) = Len(t)
        /\ \A i \in 1..Len(t) : t[i] = (<<Head(t)>> \o Tail(t))[i]
    BY <1>1, ConcatProperties, HeadTailProperties
  <2>3. QED BY <2>1, <2>2, SeqEqual
<1>3. Append(s, Head(t)) = s \o <<Head(t)>>
  BY <1>1, AppendIsConcat
<1>4. QED BY <1>1, <1>2, <1>3, ConcatAssociative

\* A concatenation holds the members of both parts.
LEMMA RangeConcat ==
  ASSUME NEW s \in Seq(Flows), NEW t \in Seq(Flows)
  PROVE  RangeOf(s \o t) = RangeOf(s) \cup RangeOf(t)
<1>1. RangeOf(s) = Range(s) /\ RangeOf(t) = Range(t)
  BY RangeEquality DEF RangeOf
<1>2. s \o t \in Seq(Flows)
  BY ConcatProperties
<1>3. RangeOf(s \o t) = Range(s \o t)
  BY <1>2, RangeEquality DEF RangeOf
<1>4. QED BY <1>1, <1>3, RangeConcatenation

\* What flush leaves behind: the flows of b are in batch or in flight.
LEMMA FlushKeeps ==
  ASSUME TypeOK, NEW b \in Seq(Flows), Flush(b), flight = <<>>, Len(b) <= BatchSize
  PROVE  /\ b = flight' \o batch'
         /\ batch' = <<>>
         /\ Len(flight') <= BatchSize
         /\ pc' = "save" \/ (flight' = <<>> /\ pc' = IF ending' THEN "done" ELSE "recv")
         /\ row' = 0 \/ row' = row
<1>1. Len(<<>>) = 0 /\ b \o <<>> = b /\ <<>> \in Seq(Flows) /\ <<>> \o <<>> = <<>>
  BY ConcatEmptySeq
<1>2. QED BY <1>1, WriterAssumption DEF Flush, TypeOK

\* Every step of the sink, close and run keeps the invariant.
LEMMA InvInductive == TypeOK /\ TypeOK' /\ WriterInv /\ [WriterNext]_pipeVars => WriterInv'
<1> SUFFICES ASSUME TypeOK, TypeOK', WriterInv, [WriterNext]_pipeVars
             PROVE  WriterInv'
  OBVIOUS
<1> USE DEF WriterInv, Pipeline, WholeBatches, Stages, LossBounded
<1>1. ASSUME NEW f \in Flows, BeginPush(f) \/ EndPush(f)
      PROVE  WriterInv'
  <2>1. UNCHANGED <<gone, writerVars>>
    BY <1>1 DEF BeginPush, EndPush, Admit, chanVars
  <2>2. QED BY <2>1 DEF writerVars
<1>2. CASE CloseBuffer
  BY <1>2 DEF CloseBuffer, chanVars, writerVars
<1>3. CASE RecvFlow
  <2> DEFINE b == Append(batch, Head(held))
  <2>1. Head(held) \in Flows /\ gone' = Append(gone, Head(held))
    BY <1>3, TakeTypes DEF RecvFlow, TypeOK
  <2>2. b \in Seq(Flows) /\ Len(b) = Len(batch) + 1
    BY <2>1, AppendProperties DEF TypeOK
  <2>3. flight = <<>> /\ outbox = <<>> /\ pc = "recv" /\ ~ending
    BY <1>3 DEF RecvFlow
  <2>4. saved \o flight = saved
    BY <2>3, ConcatEmptySeq DEF TypeOK
  <2>5. gone' = saved \o b
    <3>1. gone' = Append(saved \o batch, Head(held))
      BY <2>1, <2>4
    <3>2. saved \in Seq(Flows) /\ batch \in Seq(Flows) /\ Head(held) \in Flows
      BY <2>1 DEF TypeOK
    <3>3. Append(saved \o batch, Head(held)) = saved \o Append(batch, Head(held))
      BY <3>2, AppendConcat
    <3>4. QED BY <3>1, <3>3
  <2>6. /\ UNCHANGED <<outbox, ending, stored, saved, published>>
        /\ Flush(b) \/ (batch' = b /\ Len(b) < BatchSize /\ UNCHANGED <<flight, row, attempt, pc>>)
    BY <1>3, <2>2, WriterAssumption DEF RecvFlow
  <2>7. Len(b) <= BatchSize
    BY <2>2, WriterAssumption DEF TypeOK
  <2> HIDE DEF b
  <2>8. CASE Flush(b)
    <3>1. /\ b = flight' \o batch'
          /\ batch' = <<>>
          /\ Len(flight') <= BatchSize
          /\ pc' = "save" \/ (flight' = <<>> /\ pc' = IF ending' THEN "done" ELSE "recv")
          /\ row' = 0 \/ row' = row
      BY <2>2, <2>3, <2>7, <2>8, FlushKeeps
    <3>2. gone' = (saved' \o flight') \o batch'
      BY <2>5, <2>6, <3>1, ConcatAssociative DEF TypeOK
    <3>3. Len(batch') = 0
      BY <3>1
    <3>4. WholeBatches'
      BY <2>3, <2>6, <3>1 DEF RangeOf
    <3>5. Pipeline'
      BY <2>6, <3>2
    <3>6. LossBounded'
      BY <2>6, <3>1, <3>3, WriterAssumption
    <3>7. Stages'
      BY <2>3, <2>6, <3>1
    <3>8. QED BY <3>4, <3>5, <3>6, <3>7
  <2>9. CASE batch' = b /\ Len(b) < BatchSize /\ UNCHANGED <<flight, row, attempt, pc>>
    BY <2>3, <2>4, <2>5, <2>6, <2>9
  <2>10. QED BY <2>6, <2>8, <2>9
<1>4. CASE RecvNone
  <2>1. flight = <<>> /\ outbox = <<>> /\ Len(batch) <= BatchSize
    BY <1>4, WriterAssumption DEF RecvNone, TypeOK
  <2>2. /\ batch = flight' \o batch'
        /\ batch' = <<>>
        /\ Len(flight') <= BatchSize
        /\ pc' = "save" \/ (flight' = <<>> /\ pc' = IF ending' THEN "done" ELSE "recv")
        /\ row' = 0 \/ row' = row
    BY <1>4, <2>1, FlushKeeps DEF RecvNone, TypeOK
  <2>3. /\ UNCHANGED <<gone, outbox, stored, saved, published>>
        /\ ending' = TRUE
    BY <1>4 DEF RecvNone, chanVars
  <2>4. saved \o flight = saved
    BY <2>1, ConcatEmptySeq DEF TypeOK
  <2>5. gone' = (saved' \o flight') \o batch'
    <3>1. gone = saved \o batch
      BY <2>4
    <3>2. (saved \o flight') \o batch' = saved \o (flight' \o batch')
      <4>1. saved \in Seq(Flows) /\ flight' \in Seq(Flows) /\ batch' \in Seq(Flows)
        BY DEF TypeOK
      <4>2. QED BY <4>1, FlowConcat, Zenon
    <3>3. QED BY <2>2, <2>3, <3>1, <3>2
  <2>6. Len(batch') = 0
    BY <2>2
  <2>7. WholeBatches'
    BY <2>1, <2>3 DEF RangeOf
  <2>8. LossBounded'
    BY <2>2, <2>3, <2>6, WriterAssumption
  <2>9. Stages'
    BY <2>1, <2>2, <2>3
  <2>10. QED BY <2>3, <2>5, <2>7, <2>8, <2>9
<1>5. CASE UpsertRow
  <2>1. flight[row + 1] \in RangeOf(flight) /\ row + 1 <= Len(flight)
    BY <1>5 DEF UpsertRow, TypeOK, RangeOf
  <2>2. WholeBatches'
    BY <1>5, <2>1 DEF UpsertRow
  <2>3. row' <= BatchSize
    BY <1>5, <2>1, WriterAssumption DEF UpsertRow, TypeOK
  <2>4. QED BY <1>5, <2>2, <2>3 DEF UpsertRow, chanVars
<1>6. CASE SaveOk
  <2>1. flight' = <<>> /\ outbox' = flight /\ batch = <<>> /\ outbox = <<>>
    BY <1>6 DEF SaveOk
  <2>2. saved' = saved \o flight /\ stored' = stored \cup RangeOf(flight)
        /\ UNCHANGED <<gone, batch, row, ending, published>> /\ pc' = "publish"
    BY <1>6 DEF SaveOk, chanVars
  <2>3. saved' \o flight' = saved'
    BY <2>1, ConcatEmptySeq DEF TypeOK
  <2>4. saved = published
    BY <2>1, ConcatEmptySeq DEF TypeOK
  <2>5. RangeOf(saved') = RangeOf(saved) \cup RangeOf(flight)
    BY <2>2, RangeConcat DEF TypeOK
  <2>6. WholeBatches'
    BY <2>2, <2>5
  <2>7. Pipeline'
    BY <2>1, <2>2, <2>3, <2>4
  <2>8. Len(flight') = 0
    BY <2>1
  <2>9. QED BY <2>1, <2>2, <2>6, <2>7, <2>8, WriterAssumption
<1>7. CASE SaveTransient \/ SaveFails
  BY <1>7 DEF SaveTransient, SaveFails, chanVars
<1>8. CASE Retry
  BY <1>8, WriterAssumption DEF Retry, chanVars
<1>9. CASE PublishOne
  <2>1. outbox # <<>> /\ published' = Append(published, Head(outbox)) /\ outbox' = Tail(outbox)
    BY <1>9 DEF PublishOne
  <2>2. saved = published' \o outbox'
    BY <2>1, HeadTailConcat DEF TypeOK
  <2>3. Len(outbox') <= BatchSize
    BY <2>1, HeadTailProperties, WriterAssumption DEF TypeOK
  <2>4. pc = "publish"
    BY <1>9 DEF PublishOne
  <2>5. QED BY <1>9, <2>2, <2>3, <2>4 DEF PublishOne, chanVars
<1>10. CASE PublishFails \/ Flushed
  <2>1. /\ UNCHANGED <<gone, batch, flight, row, outbox, ending, stored, saved, published>>
        /\ pc = "publish"
        /\ pc' = "failed" \/ (outbox = <<>> /\ pc' = IF ending THEN "done" ELSE "recv")
    BY <1>10 DEF PublishFails, Flushed, chanVars
  <2>2. Stages'
    BY <2>1
  <2>3. QED BY <2>1, <2>2
<1>11. CASE UNCHANGED pipeVars
  BY <1>11 DEF pipeVars, chanVars, writerVars
<1>12. QED
  BY <1>1, <1>2, <1>3, <1>4, <1>5, <1>6, <1>7, <1>8, <1>9, <1>10, <1>11
     DEF WriterNext, WriterStep, Save, Publish

\* The inductive invariant of the writer holds in every reachable state: what
\* batch, flight and outbox hold at each stage of run, and what was lost when
\* it returned an error.
THEOREM WriterInvariant == WriterSpec => []WriterInv
<1>1. WriterInit => WriterInv
  <2>1. <<>> \in Seq(Flows) /\ Len(<<>>) = 0 /\ <<>> \o <<>> = <<>>
    BY ConcatEmptySeq
  <2>2. QED BY <2>1, WriterAssumption DEF WriterInit, ChannelInit, WriterInv, Pipeline,
               WholeBatches, Stages, LossBounded, RangeOf
<1>2. QED BY <1>1, InvInductive, WriterTypeCorrect, PTL DEF WriterSpec

\* No flow received is skipped, repeated or reordered on its way to the
\* repository and to the subscribers (writer.rs:46-76).
THEOREM PipelineKept == WriterSpec => []Pipeline
BY WriterInvariant, PTL DEF WriterInv

\* With a transactional repository readers only ever see whole batches,
\* whatever fails and is retried (writer.rs:78-91, sqlite.rs:226-233).
THEOREM WholeBatchesVisible == WriterSpec => []WholeBatches
BY WriterInvariant, PTL DEF WriterInv

\* Two consequences of the invariant.
LEMMA InvImplies == TypeOK /\ WriterInv => AnnouncedIsStored /\ CompleteAtEnd
<1> SUFFICES ASSUME TypeOK, WriterInv
             PROVE  AnnouncedIsStored /\ CompleteAtEnd
  OBVIOUS
<1>1. RangeOf(published) \subseteq RangeOf(saved)
  BY RangeConcat DEF TypeOK, WriterInv, Pipeline
<1>2. AnnouncedIsStored
  BY <1>1 DEF WriterInv, WholeBatches, AnnouncedIsStored
<1>3. ASSUME pc = "done"
      PROVE  published = gone
  <2>1. batch = <<>> /\ flight = <<>> /\ outbox = <<>>
    BY <1>3 DEF WriterInv, Stages
  <2>2. saved \o flight = saved /\ saved \o batch = saved /\ published \o outbox = published
    BY <2>1, ConcatEmptySeq DEF TypeOK
  <2>3. QED BY <2>1, <2>2 DEF WriterInv, Pipeline
<1>4. QED BY <1>2, <1>3 DEF CompleteAtEnd

\* An announced flow is in the repository (writer.rs:69-74).
THEOREM AnnouncedFound == WriterSpec => []AnnouncedIsStored
BY InvImplies, WriterTypeCorrect, WriterInvariant, PTL

\* When run returns Ok, all it received was saved and announced
\* (writer.rs:56-59).
THEOREM NothingLeftBehind == WriterSpec => []CompleteAtEnd
BY InvImplies, WriterTypeCorrect, WriterInvariant, PTL
-------------------------------------------------------------------------------
(* How far the writer is from its end *)

\* The stages of a batch.
StageLeft(p) == CASE p \in {"save", "backoff"} -> 3 [] p = "publish" -> 2 [] p = "recv" -> 1 [] OTHER -> 0

\* What is still to be received: the flows whose push is under way or done, and the end.
Coming == Cardinality(pushing) + Len(held) + (IF ending THEN 0 ELSE 1)

\* What the writer has left: that, the stages of the batch in hand, the attempts to save it and
\* the rows of an attempt, or the events of the batch.
TriesLeft == 2 * (MaxRetries - attempt) + (IF pc = "backoff" THEN 1 ELSE 0)
ItemsLeft == IF pc = "publish" THEN Len(outbox)
             ELSE IF pc \in {"save", "backoff"} THEN Len(flight) - row ELSE 0
WriterLeft == <<Coming, StageLeft(pc), TriesLeft, ItemsLeft>>

\* The writer's own steps take it on, and once the buffer is closed nothing else takes it back.
WriterDescends == /\ WriterStep => Below(WriterLeft', WriterLeft)
                  /\ closed => NotAbove(WriterLeft', WriterLeft)

\* Few pushes are under way, and an attempt writes no more rows than the batch has.
InBounds == /\ IsFiniteSet(pushing)
            /\ pc \in {"save", "backoff"} => row <= Len(flight)

\* The first places of two measures that differ decide between them.
LEMMA BelowFour ==
  ASSUME NEW a, NEW b, NEW c, NEW d, NEW e, NEW f, NEW g, NEW h,
         a < e \/ (a = e /\ b < f) \/ (a = e /\ b = f /\ c < g) \/ (a = e /\ b = f /\ c = g /\ d < h)
  PROVE  Below(<<a, b, c, d>>, <<e, f, g, h>>)
<1> DEFINE x == <<a, b, c, d>>
           y == <<e, f, g, h>>
<1>1. /\ DOMAIN y = 1..4 /\ x[1] = a /\ x[2] = b /\ x[3] = c /\ x[4] = d
      /\ y[1] = e /\ y[2] = f /\ y[3] = g /\ y[4] = h
  OBVIOUS
<1> HIDE DEF x, y
<1>2. CASE a < e
  BY <1>1, <1>2 DEF Below
<1>3. CASE a = e /\ b < f
  <2>1. \A k \in DOMAIN y : k < 2 => k = 1
    BY <1>1
  <2>2. QED BY <1>1, <1>3, <2>1 DEF Below
<1>4. CASE a = e /\ b = f /\ c < g
  <2>1. \A k \in DOMAIN y : k < 3 => k = 1 \/ k = 2
    BY <1>1
  <2>2. QED BY <1>1, <1>4, <2>1 DEF Below
<1>5. CASE a = e /\ b = f /\ c = g /\ d < h
  <2>1. \A k \in DOMAIN y : k < 4 => k = 1 \/ k = 2 \/ k = 3
    BY <1>1
  <2>2. QED BY <1>1, <1>5, <2>1 DEF Below
<1>6. QED BY <1>2, <1>3, <1>4, <1>5 DEF x, y

\* A set that is finite has a number of members, also with one more or one less.
LEMMA CountOfPushes ==
  ASSUME IsFiniteSet(pushing), NEW f
  PROVE  /\ Cardinality(pushing) \in Nat
         /\ IsFiniteSet(pushing \cup {f}) /\ IsFiniteSet(pushing \ {f})
         /\ f \in pushing => Cardinality(pushing \ {f}) = Cardinality(pushing) - 1
BY FS_CardinalityType, FS_AddElement, FS_RemoveElement

\* Every step keeps the bounds.
LEMMA BoundsInductive == TypeOK /\ InBounds /\ [WriterNext]_pipeVars => InBounds'
<1> SUFFICES ASSUME TypeOK, InBounds, [WriterNext]_pipeVars
             PROVE  InBounds'
  OBVIOUS
<1>1. IsFiniteSet(pushing')
  <2>1. ASSUME NEW f \in Flows, BeginPush(f) \/ EndPush(f)
        PROVE  IsFiniteSet(pushing')
    BY <2>1, CountOfPushes DEF BeginPush, EndPush, InBounds
  <2>2. CASE CloseBuffer \/ UNCHANGED pipeVars
    BY <2>2 DEF CloseBuffer, pipeVars, producerVars, InBounds
  <2>3. CASE WriterStep
    BY <2>3 DEF WriterStep, RecvFlow, RecvNone, Save, UpsertRow, SaveOk, SaveTransient, Retry, SaveFails,
                Publish, PublishOne, PublishFails, Flushed, producerVars, InBounds
  <2>4. QED BY <2>1, <2>2, <2>3 DEF WriterNext
<1>2. pc' \in {"save", "backoff"} => row' <= Len(flight')
  <2>1. CASE RecvFlow \/ RecvNone
    <3>1. \A b \in Seq(Flows) : Len(b) \in Nat
      BY LenProperties
    <3>2. \/ pc' \in {"recv", "done"}
          \/ row' = 0
      BY <2>1 DEF RecvFlow, RecvNone, Flush
    <3>3. flight' \in Seq(Flows)
      BY <2>1, TypeInductive DEF WriterNext, WriterStep, TypeOK
    <3>4. QED BY <3>1, <3>2, <3>3
  <2>2. CASE UpsertRow
    BY <2>2 DEF UpsertRow, InBounds, TypeOK
  <2>3. CASE SaveTransient \/ Retry
    <3>1. row \in Nat /\ Len(flight) \in Nat
      BY DEF TypeOK
    <3>2. QED BY <2>3, <3>1 DEF SaveTransient, Retry, InBounds
  <2>4. CASE SaveOk \/ SaveFails \/ PublishFails \/ Flushed
    BY <2>4 DEF SaveOk, SaveFails, PublishFails, Flushed
  <2>5. CASE PublishOne
    BY <2>5 DEF PublishOne
  <2>6. CASE CloseBuffer \/ (\E f \in Flows : BeginPush(f) \/ EndPush(f)) \/ UNCHANGED pipeVars
    BY <2>6 DEF CloseBuffer, BeginPush, EndPush, pipeVars, writerVars, InBounds
  <2>7. QED BY <2>1, <2>2, <2>3, <2>4, <2>5, <2>6 DEF WriterNext, WriterStep, Save, Publish
<1>3. QED BY <1>1, <1>2 DEF InBounds

\* The measure is made of numbers.
LEMMA WriterLeftTyped == TypeOK /\ InBounds => WriterLeft \in Nat \X Nat \X Nat \X Nat
<1> SUFFICES ASSUME TypeOK, InBounds
             PROVE  WriterLeft \in Nat \X Nat \X Nat \X Nat
  OBVIOUS
<1>1. Coming \in Nat
  <2>1. Cardinality(pushing) \in Nat /\ Len(held) \in Nat
    BY FS_CardinalityType DEF TypeOK, InBounds
  <2>2. QED BY <2>1 DEF Coming
<1>2. StageLeft(pc) \in Nat
  BY DEF StageLeft
<1>3. TriesLeft \in Nat
  <2>1. MaxRetries - attempt \in Nat
    BY WriterAssumption DEF TypeOK
  <2>2. QED BY <2>1 DEF TriesLeft
<1>4. ItemsLeft \in Nat
  <2>1. Len(outbox) \in Nat /\ Len(flight) \in Nat /\ row \in Nat
    BY DEF TypeOK
  <2>2. pc \in {"save", "backoff"} => Len(flight) - row \in Nat
    BY <2>1 DEF InBounds
  <2>3. QED BY <2>1, <2>2 DEF ItemsLeft
<1>5. QED BY <1>1, <1>2, <1>3, <1>4 DEF WriterLeft

\* Receiving a flow, or the end, leaves less to receive.
LEMMA ReceivingLowers ==
  ASSUME TypeOK, InBounds, WriterInv, RecvFlow \/ RecvNone
  PROVE  Below(WriterLeft', WriterLeft)
<1>1. pushing' = pushing
  BY DEF RecvFlow, RecvNone, producerVars
<1>2. Cardinality(pushing) \in Nat
  BY CountOfPushes DEF InBounds
<1>3. CASE RecvFlow
  <2>1. ending' = ending /\ held # <<>> /\ held' = Tail(held)
    BY <1>3 DEF RecvFlow, Take, Depart
  <2>2. Len(held') = Len(held) - 1 /\ Len(held) \in Nat
    BY <2>1, HeadTailProperties DEF TypeOK
  <2>3. Coming' < Coming
    BY <1>1, <1>2, <2>1, <2>2 DEF Coming
  <2>4. QED BY <2>3, BelowFour DEF WriterLeft
<1>4. CASE RecvNone
  <2>1. ~ending /\ ending' /\ held' = held
    BY <1>4 DEF RecvNone, WriterInv, Stages, chanVars
  <2>2. Coming' < Coming
    <3>1. Len(held) \in Nat
      BY DEF TypeOK
    <3>2. QED BY <1>1, <1>2, <2>1, <3>1 DEF Coming
  <2>3. QED BY <2>2, BelowFour DEF WriterLeft
<1>5. QED BY <1>3, <1>4

\* Of a batch, each step leaves fewer stages, fewer tries or fewer rows or events.
LEMMA SavingLowers ==
  ASSUME TypeOK, InBounds, Save \/ Publish
  PROVE  Below(WriterLeft', WriterLeft)
<1>1. Coming' = Coming
  BY DEF Save, UpsertRow, SaveOk, SaveTransient, Retry, SaveFails, Publish, PublishOne, PublishFails, Flushed,
         producerVars, chanVars, Coming
<1>2. CASE StageLeft(pc') < StageLeft(pc)
  BY <1>1, <1>2, BelowFour DEF WriterLeft
<1>3. CASE UpsertRow
  <2>1. pc = "save" /\ pc' = pc /\ attempt' = attempt /\ row' = row + 1 /\ flight' = flight
    BY <1>3 DEF UpsertRow
  <2>2. TriesLeft' = TriesLeft /\ ItemsLeft' < ItemsLeft
    BY <2>1 DEF TriesLeft, ItemsLeft, TypeOK
  <2>3. QED BY <1>1, <2>1, <2>2, BelowFour DEF WriterLeft
<1>4. CASE SaveTransient
  <2>1. pc = "save" /\ pc' = "backoff" /\ attempt' = attempt + 1
    BY <1>4 DEF SaveTransient
  <2>2. TriesLeft' < TriesLeft
    BY <2>1, WriterAssumption DEF TriesLeft, TypeOK
  <2>3. StageLeft(pc') = StageLeft(pc)
    BY <2>1 DEF StageLeft
  <2>4. QED BY <1>1, <2>2, <2>3, BelowFour DEF WriterLeft
<1>5. CASE Retry
  <2>1. pc = "backoff" /\ pc' = "save" /\ attempt' = attempt
    BY <1>5 DEF Retry
  <2>2. TriesLeft' < TriesLeft
    BY <2>1, WriterAssumption DEF TriesLeft, TypeOK
  <2>3. StageLeft(pc') = StageLeft(pc)
    BY <2>1 DEF StageLeft
  <2>4. QED BY <1>1, <2>2, <2>3, BelowFour DEF WriterLeft
<1>6. CASE PublishOne
  <2>1. pc = "publish" /\ pc' = pc /\ attempt' = attempt /\ outbox # <<>> /\ outbox' = Tail(outbox)
    BY <1>6 DEF PublishOne
  <2>2. Len(outbox') = Len(outbox) - 1 /\ Len(outbox) \in Nat
    BY <2>1, HeadTailProperties DEF TypeOK
  <2>3. TriesLeft' = TriesLeft /\ ItemsLeft' < ItemsLeft
    BY <2>1, <2>2 DEF TriesLeft, ItemsLeft
  <2>4. QED BY <1>1, <2>1, <2>3, BelowFour DEF WriterLeft
<1>7. CASE SaveOk \/ SaveFails \/ PublishFails \/ Flushed
  <2>1. StageLeft(pc') < StageLeft(pc)
    BY <1>7 DEF SaveOk, SaveFails, PublishFails, Flushed, StageLeft
  <2>2. QED BY <1>2, <2>1
<1>8. QED BY <1>3, <1>4, <1>5, <1>6, <1>7 DEF Save, Publish

\* A push that ends moves its flow from one side of the channel to the other; once the buffer is
\* closed, no other begins.
LEMMA PushesKeep ==
  ASSUME TypeOK, InBounds, closed, (\E f \in Flows : BeginPush(f) \/ EndPush(f)) \/ CloseBuffer
  PROVE  WriterLeft' = WriterLeft
<1>1. UNCHANGED writerVars
  BY DEF BeginPush, EndPush, CloseBuffer
<1>2. Coming' = Coming
  <2>1. ASSUME NEW f \in Flows, EndPush(f)
        PROVE  Coming' = Coming
    <3>1. f \in pushing /\ pushing' = pushing \ {f} /\ held' = Append(held, f)
      BY <2>1 DEF EndPush, Admit
    <3>2. Cardinality(pushing') = Cardinality(pushing) - 1 /\ Cardinality(pushing) \in Nat
      BY <3>1, CountOfPushes DEF InBounds
    <3>3. Len(held') = Len(held) + 1 /\ Len(held) \in Nat
      BY <3>1, AppendProperties DEF TypeOK
    <3>4. QED BY <1>1, <3>2, <3>3 DEF Coming, writerVars
  <2>2. ASSUME NEW f \in Flows, BeginPush(f)
        PROVE  Coming' = Coming
    BY <1>1, <2>2 DEF BeginPush, Coming, writerVars, chanVars
  <2>3. CASE CloseBuffer
    BY <1>1, <2>3 DEF CloseBuffer, Coming, writerVars, chanVars
  <2>4. QED BY <2>1, <2>2, <2>3
<1>3. QED BY <1>1, <1>2 DEF WriterLeft, TriesLeft, ItemsLeft, writerVars

\* Closing the buffer ends the writer (WriterEnds): each of its steps leaves it less to receive, fewer
\* stages, tries, rows or events, and nothing that still pushes gives it more (writer.rs:46-91).
THEOREM WriterRunsOut == WriterSpec => [](WriterLeft \in Nat \X Nat \X Nat \X Nat) /\ [][WriterDescends]_pipeVars
<1>1. WriterInit => InBounds
  BY FS_EmptySet DEF WriterInit, InBounds
<1>2. TypeOK /\ WriterInv /\ InBounds /\ [WriterNext]_pipeVars => [WriterDescends]_pipeVars
  <2> SUFFICES ASSUME TypeOK, WriterInv, InBounds, WriterNext
               PROVE  WriterDescends
    OBVIOUS
  <2>1. WriterStep => Below(WriterLeft', WriterLeft)
    BY ReceivingLowers, SavingLowers DEF WriterStep
  <2>2. closed => NotAbove(WriterLeft', WriterLeft)
    BY <2>1, PushesKeep DEF WriterNext, NotAbove
  <2>3. QED BY <2>1, <2>2 DEF WriterDescends
<1>3. QED BY <1>1, <1>2, WriterLeftTyped, BoundsInductive, WriterTypeCorrect, WriterInvariant, PTL DEF WriterSpec
=============================================================================
