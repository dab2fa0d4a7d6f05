-------------------------- MODULE PersistenceWriter --------------------------
(***************************************************************************)
(* crates/capture/src/writer.rs and sink.rs: the tasks that capture flows  *)
(* push them through FlowBufferSink, one task receives them in batches,    *)
(* saves each batch with retries and publishes an event per saved flow.    *)
(* The buffer is the channel of FlowChannel (FlowBuffer implements it);    *)
(* the repository is either the transactional one of SQLite or the default *)
(* save_batch of the port, which saves flow by flow.                       *)
(***************************************************************************)
EXTENDS FlowChannel, FiniteSets

CONSTANTS BatchSize,   \* flows per batch (with_batch_size)
          MaxRetries,  \* retries of a transient failure (with_max_retries)
          Atomic       \* save_batch is one transaction

ASSUME WriterAssumption ==
  /\ Capacity \in Nat \ {0}
  /\ BatchSize \in Nat \ {0}
  /\ MaxRetries \in Nat
  /\ Atomic \in BOOLEAN
  /\ Lossy = FALSE     \* the writer is fed by a Block buffer (sink.rs:9)

VARIABLES closed,      \* the buffer was closed
          pushing,     \* flows whose push read `closed` as FALSE and is under way
          refused,     \* flows whose push answered Overflow
          batch,       \* received, not yet being saved
          flight,      \* `flows` of flush: being saved
          row,         \* how many of them this attempt has written
          attempt,     \* retries of this batch so far
          outbox,      \* saved, their events not yet published
          pc,          \* "recv" | "save" | "backoff" | "publish" | "done" | "failed"
          ending,      \* recv has answered None
          stored,      \* the flows readers of the repository can see
          saved,       \* history: the flows of the batches saved, in order
          published    \* history: the flows announced, in order

producerVars == <<closed, pushing, refused>>
writerVars   == <<batch, flight, row, attempt, outbox, pc, ending, stored, saved, published>>
pipeVars         == <<chanVars, producerVars, writerVars>>

RangeOf(s) == {s[i] : i \in 1..Len(s)}

WriterInit == /\ ChannelInit
              /\ closed = FALSE /\ pushing = {} /\ refused = {}
              /\ batch = <<>> /\ flight = <<>> /\ outbox = <<>>
              /\ row = 0 /\ attempt = 0
              /\ pc = "recv" /\ ending = FALSE
              /\ stored = {} /\ saved = <<>> /\ published = <<>>

-------------------------------------------------------------------------------
(* The sink and close.  Operators named ...Bug are the definition after     *)
(* them with a plausible slip; WriterNext never uses them.                  *)

\* FlowBufferSink::push: the outcome of the buffer's push is ignored.
BeginPush(f) ==
  /\ Fresh(f) /\ f \notin pushing \cup refused
  /\ IF closed THEN refused' = refused \cup {f} /\ UNCHANGED pushing
               ELSE pushing' = pushing \cup {f} /\ UNCHANGED refused
  /\ UNCHANGED <<chanVars, closed, writerVars>>

EndPush(f) ==
  /\ f \in pushing
  /\ Admit(f)
  /\ pushing' = pushing \ {f}
  /\ UNCHANGED <<closed, refused, writerVars>>

CloseBuffer == /\ ~closed
               /\ closed' = TRUE
               /\ UNCHANGED <<chanVars, pushing, refused, writerVars>>

-------------------------------------------------------------------------------
(* run *)

\* flush: nothing to do for an empty batch, else take it and start saving.
\* bug: the batch is cloned, not taken
FlushBug(b) ==
  IF b = <<>>
    THEN /\ pc' = IF ending' THEN "done" ELSE "recv"
         /\ batch' = b /\ UNCHANGED <<flight, row, attempt>>
    ELSE /\ pc' = "save"
         /\ batch' = b /\ flight' = b /\ row' = 0 /\ attempt' = 0

Flush(b) ==
  IF b = <<>>
    THEN /\ pc' = IF ending' THEN "done" ELSE "recv"
         /\ batch' = b /\ UNCHANGED <<flight, row, attempt>>
    ELSE /\ pc' = "save"
         /\ batch' = <<>> /\ flight' = b /\ row' = 0 /\ attempt' = 0

RecvFlow ==
  /\ pc = "recv"
  /\ Take
  /\ UNCHANGED ending
  /\ LET b == Append(batch, Head(held)) IN
       IF Len(b) >= BatchSize
         THEN Flush(b)
         ELSE batch' = b /\ UNCHANGED <<flight, row, attempt, pc>>
  /\ UNCHANGED <<producerVars, outbox, stored, saved, published>>

\* bug: None returns at once, without the last flush
RecvNoneBug ==
  /\ pc = "recv"
  /\ closed /\ held = <<>>
  /\ ending' = TRUE
  /\ pc' = "done"
  /\ UNCHANGED <<chanVars, producerVars, batch, flight, row, attempt, outbox,
                 stored, saved, published>>

RecvNone ==
  /\ pc = "recv"
  /\ closed /\ held = <<>>
  /\ ending' = TRUE
  /\ Flush(batch)
  /\ UNCHANGED <<chanVars, producerVars, outbox, stored, saved, published>>

-------------------------------------------------------------------------------
(* save_batch_with_retry *)

\* One upsert; inside a transaction nobody sees it yet.
UpsertRow ==
  /\ pc = "save" /\ row < Len(flight)
  /\ row' = row + 1
  /\ stored' = IF Atomic THEN stored ELSE stored \cup {flight[row + 1]}
  /\ UNCHANGED <<chanVars, producerVars, batch, flight, attempt, outbox, pc,
                 ending, saved, published>>

\* The last upsert or the commit succeeds.
SaveOk ==
  /\ pc = "save" /\ row = Len(flight)
  /\ stored' = stored \cup RangeOf(flight)
  /\ saved' = saved \o flight
  /\ outbox' = flight /\ flight' = <<>>
  /\ pc' = "publish"
  /\ UNCHANGED <<chanVars, producerVars, batch, row, attempt, ending, published>>

\* bug: the counter is not advanced
SaveTransientBug ==
  /\ pc = "save" /\ attempt < MaxRetries
  /\ pc' = "backoff"
  /\ UNCHANGED <<chanVars, producerVars, batch, flight, row, attempt, outbox, ending,
                 stored, saved, published>>

\* A transient failure with retries left: sleep and try the whole batch again.
SaveTransient ==
  /\ pc = "save" /\ attempt < MaxRetries
  /\ attempt' = attempt + 1
  /\ pc' = "backoff"
  /\ UNCHANGED <<chanVars, producerVars, batch, flight, row, outbox, ending,
                 stored, saved, published>>

Retry ==
  /\ pc = "backoff"
  /\ row' = 0
  /\ pc' = "save"
  /\ UNCHANGED <<chanVars, producerVars, batch, flight, attempt, outbox, ending,
                 stored, saved, published>>

\* A permanent failure, or a transient one with no retry left, ends the task:
\* the batch in flight is lost and nobody receives from the buffer any more.
SaveFails ==
  /\ pc = "save"
  /\ pc' = "failed"
  /\ UNCHANGED <<chanVars, producerVars, batch, flight, row, attempt, outbox,
                 ending, stored, saved, published>>

-------------------------------------------------------------------------------
(* the events of a saved batch *)

PublishOne ==
  /\ pc = "publish" /\ outbox # <<>>
  /\ published' = Append(published, Head(outbox))
  /\ outbox' = Tail(outbox)
  /\ UNCHANGED <<chanVars, producerVars, batch, flight, row, attempt, pc, ending,
                 stored, saved>>

\* The port may refuse an event (the EventBus never does): the task ends.
PublishFails ==
  /\ pc = "publish" /\ outbox # <<>>
  /\ pc' = "failed"
  /\ UNCHANGED <<chanVars, producerVars, batch, flight, row, attempt, outbox, ending,
                 stored, saved, published>>

Flushed ==
  /\ pc = "publish" /\ outbox = <<>>
  /\ pc' = IF ending THEN "done" ELSE "recv"
  /\ UNCHANGED <<chanVars, producerVars, batch, flight, row, attempt, outbox, ending,
                 stored, saved, published>>

Save    == UpsertRow \/ SaveOk \/ SaveTransient \/ Retry \/ SaveFails
Publish == PublishOne \/ PublishFails \/ Flushed

WriterStep == RecvFlow \/ RecvNone \/ Save \/ Publish

WriterNext == \/ \E f \in Flows : BeginPush(f) \/ EndPush(f)
              \/ CloseBuffer \/ WriterStep

WriterSpec == WriterInit /\ [][WriterNext]_pipeVars

\* The spawned task keeps running; the repository answers every call.
WriterFairSpec == WriterSpec /\ WF_pipeVars(WriterStep)
-------------------------------------------------------------------------------
(* Properties *)

TypeOK ==
  /\ held \in Seq(Flows) /\ gone \in Seq(Flows)
  /\ closed \in BOOLEAN /\ ending \in BOOLEAN
  /\ pushing \subseteq Flows /\ refused \subseteq Flows
  /\ batch \in Seq(Flows) /\ flight \in Seq(Flows) /\ outbox \in Seq(Flows)
  /\ row \in Nat /\ attempt \in 0..MaxRetries
  /\ pc \in {"recv", "save", "backoff", "publish", "done", "failed"}
  /\ stored \subseteq Flows
  /\ saved \in Seq(Flows) /\ published \in Seq(Flows)

\* A flow taken from the buffer is in exactly one place, and no step of the
\* pipeline (writer.rs:46-76) reorders: what was saved, what is being saved and
\* what waits in the batch are the flows received, in order; what was announced
\* and what waits to be are the flows saved, in order.
Pipeline == /\ gone = (saved \o flight) \o batch
            /\ saved = published \o outbox

\* Readers see whole batches only when save_batch is a transaction
\* (sqlite.rs:226-233), whatever the failures and retries; the default
\* save_batch (ports/src/lib.rs:27-32) exposes flows of the batch in flight too.
WholeBatches ==
  /\ RangeOf(saved) \subseteq stored
  /\ stored \subseteq RangeOf(saved) \cup RangeOf(flight)
  /\ Atomic => stored = RangeOf(saved)

\* The inductive invariant behind WriterProofs: which of batch, flight and
\* outbox may hold flows at each stage of run.  The writer holds at most one
\* batch, so a failing save (writer.rs:69) or event loses at most BatchSize
\* flows or events, and never some of both.
Stages ==
  /\ pc = "recv" => flight = <<>> /\ outbox = <<>> /\ ~ending
  /\ pc \in {"save", "backoff"} => batch = <<>> /\ outbox = <<>>
  /\ pc = "publish" => batch = <<>> /\ flight = <<>>
  /\ pc = "done" => batch = <<>> /\ flight = <<>> /\ outbox = <<>>
  /\ pc = "failed" => batch = <<>> /\ (flight = <<>> \/ outbox = <<>>)
LossBounded == /\ Len(batch) < BatchSize
               /\ Len(flight) <= BatchSize /\ row <= BatchSize
               /\ Len(outbox) <= BatchSize
WriterInv == Pipeline /\ WholeBatches /\ Stages /\ LossBounded

\* A subscriber told of a captured flow finds it in the repository.
AnnouncedIsStored == RangeOf(published) \subseteq stored

\* When run returns Ok every flow it received was saved and announced.
CompleteAtEnd == pc = "done" => published = gone

\* Closing the buffer ends the writer: retries are bounded and the last,
\* partly filled batch is flushed (writer.rs:56-59, 78-91).
WriterEnds == <>[](closed => pc \in {"done", "failed"})
=============================================================================
