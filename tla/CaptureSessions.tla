---------------------------- MODULE CaptureSessions ----------------------------
(***************************************************************************)
(* apps/api-tester-server: what becomes of captured flows and of the rows  *)
(* of their sessions.  Every flow is captured by a task of its own, which  *)
(* goes through DashboardSink::push and leaves a second task behind that   *)
(* counts the flow in the row of its session.  Meanwhile API calls start,  *)
(* stop, delete and clear sessions, and a stop of the proxy drops the      *)
(* store.  A row is always read and written as a whole; the two tasks of a *)
(* flow hold the mutex of the store meanwhile, API calls work on a clone.  *)
(***************************************************************************)
EXTENDS Naturals, Sequences, FiniteSets

CONSTANTS Captured,          \* the flows captured
          MaxCalls,       \* bound: API calls made
          RingCapacity    \* flows kept in memory

ASSUME SessionsAssumption == MaxCalls \in Nat /\ RingCapacity \in Nat \ {0}

Calls     == 1..MaxCalls     \* in the order they are made
Sessions  == 1..MaxCalls     \* a session has the number of the call that started it
NoSession == 0

VARIABLES active,   \* active_session_id
          rows,     \* the sessions table
          savedFlows, \* the flows table
          ring,     \* RingBuffer, the flows in memory
          open,     \* the store is cached
          lock,     \* the mutex of the store is held across an await
          capture,  \* per flow: where its capture task stands
          session,  \* per flow: the session it was captured under
          bump,     \* per flow: where the task that counts it stands
          seen,     \* per flow: the row that task has read
          call,     \* per API call: where it stands
          about,    \* per API call: its session
          read,     \* per API call: the row stop_session has read
          counted,  \* history: the flows written into a flow_count
          spoilt    \* history: sessions stop_session saved an outdated row of

tables   == <<rows, savedFlows, ring>>
flowVars == <<capture, session, bump, seen>>
callVars == <<call, about, read>>
history  == <<counted, spoilt>>
sessVars == <<active, tables, open, lock, flowVars, callVars, history>>

Row   == [stored : BOOLEAN, ended : BOOLEAN, count : Nat]
NoRow == [stored |-> FALSE, ended |-> FALSE, count |-> 0]
FreshRow == [NoRow EXCEPT !.stored = TRUE]

SessInit == /\ active = NoSession /\ open = FALSE /\ lock = FALSE
            /\ rows = [s \in Sessions |-> NoRow] /\ savedFlows = {} /\ ring = <<>>
            /\ capture = [f \in Captured |-> "spawned"] /\ bump = [f \in Captured |-> "none"]
            /\ session = [f \in Captured |-> NoSession] /\ seen = [f \in Captured |-> NoRow]
            /\ call = [c \in Calls |-> "idle"] /\ about = [c \in Calls |-> NoSession]
            /\ read = [c \in Calls |-> NoRow]
            /\ counted = {} /\ spoilt = {}

\* SessionRepository::save writes every column of the row, or fails.
SaveRow(s, row) == rows' \in {[rows EXCEPT ![s] = row], rows}

-------------------------------------------------------------------------------
(* The capture task of a flow.  Operators named ...Bug are the definition    *)
(* after them with a plausible slip; SessNext never uses them.               *)

captureFrame == <<callVars, history, active>>
Captures(f, step) == capture' = [capture EXCEPT ![f] = step]

\* spawn_capture reads the active session when its task runs.
Attribute(f) ==
  /\ capture[f] = "spawned"
  /\ session' = [session EXCEPT ![f] = active]
  /\ Captures(f, IF active = NoSession THEN "discarded" ELSE "push")
  /\ UNCHANGED <<captureFrame, tables, open, lock, bump, seen>>

\* push: the mutex is held while the flow is saved; without a store it is not saved.
TakeStore(f) ==
  /\ capture[f] = "push" /\ ~lock
  /\ lock' = open
  /\ Captures(f, IF open THEN "save" ELSE "show")
  /\ UNCHANGED <<captureFrame, tables, open, session, bump, seen>>

\* bug: the flow is counted before the mutex is released
SaveFlowBug(f) ==
  /\ capture[f] = "save"
  /\ savedFlows' \in {savedFlows \cup {f}, savedFlows}
  /\ bump' = [bump EXCEPT ![f] = "queued"]
  /\ Captures(f, "show")
  /\ UNCHANGED <<captureFrame, rows, ring, open, session, seen, lock>>

\* The result of the save is ignored, and the count is left to another task.
SaveFlow(f) ==
  /\ capture[f] = "save"
  /\ savedFlows' \in {savedFlows \cup {f}, savedFlows}
  /\ bump' = [bump EXCEPT ![f] = "queued"]
  /\ lock' = FALSE
  /\ Captures(f, "show")
  /\ UNCHANGED <<captureFrame, rows, ring, open, session, seen>>

\* The ring drops its oldest flow when it is full.
Show(f) ==
  /\ capture[f] = "show"
  /\ ring' = Append(IF Len(ring) >= RingCapacity THEN Tail(ring) ELSE ring, f)
  /\ Captures(f, "shown")
  /\ UNCHANGED <<captureFrame, rows, savedFlows, open, lock, session, bump, seen>>

\* bug: the row is read before the mutex is taken
ReadRowBug(f) ==
  /\ bump[f] = "queued"
  /\ bump' = [bump EXCEPT ![f] = IF rows[session[f]].stored THEN "write" ELSE "done"]
  /\ seen' = [seen EXCEPT ![f] = rows[session[f]]]
  /\ UNCHANGED <<captureFrame, tables, open, lock, capture, session>>

\* The counting task: no store or no row, no count.
ReadRow(f) ==
  LET found == open /\ rows[session[f]].stored IN
  /\ bump[f] = "queued" /\ ~lock
  /\ lock' = found
  /\ seen' = [seen EXCEPT ![f] = IF found THEN rows[session[f]] ELSE NoRow]
  /\ bump' = [bump EXCEPT ![f] = IF found THEN "write" ELSE "done"]
  /\ UNCHANGED <<captureFrame, tables, open, capture, session>>

\* The row as it was read goes back with one flow more.
WriteCount(f) ==
  LET row == [seen[f] EXCEPT !.count = @ + 1] IN
  /\ bump[f] = "write"
  /\ lock' = FALSE
  /\ bump' = [bump EXCEPT ![f] = "done"] /\ seen' = [seen EXCEPT ![f] = NoRow]
  /\ \/ /\ rows' = [rows EXCEPT ![session[f]] = row]
        /\ counted' = counted \cup {f}
     \/ UNCHANGED <<rows, counted>>
  /\ UNCHANGED <<active, callVars, spoilt, savedFlows, ring, open, capture, session>>

CaptureStep(f) == Attribute(f) \/ TakeStore(f) \/ SaveFlow(f) \/ Show(f)
BumpStep(f)    == ReadRow(f) \/ WriteCount(f)

-------------------------------------------------------------------------------
(* API calls.  open_store takes the mutex, opens the store when it must, and *)
(* gives out a clone; when the store does not open the call goes without.    *)

callFrame == <<flowVars, lock>>
Goes(c, step) == call' = [call EXCEPT ![c] = step]
Called(c)     == /\ call[c] = "idle"
                 /\ \A d \in Calls : d < c => call[d] # "idle"

OpenStore(c, next, without) ==
  /\ ~lock
  /\ \/ open' = TRUE /\ Goes(c, next)
     \/ ~open /\ open' = open /\ Goes(c, without)

\* start_session: an id nobody has had.
StartCalled(c) ==
  /\ Called(c)
  /\ about' = [about EXCEPT ![c] = c]
  /\ OpenStore(c, "insert", "activate")
  /\ UNCHANGED <<callFrame, tables, active, read, history>>

\* The result is ignored.
Insert(c) ==
  /\ call[c] = "insert" /\ Goes(c, "activate")
  /\ SaveRow(about[c], FreshRow)
  /\ UNCHANGED <<callFrame, savedFlows, ring, active, open, about, read, history>>

Activate(c) ==
  /\ call[c] = "activate" /\ Goes(c, "done")
  /\ active' = about[c]
  /\ UNCHANGED <<callFrame, tables, open, about, read, history>>

\* stop_session takes the active id, and then edits the row of that session.
StopCalled(c) ==
  /\ Called(c)
  /\ about' = [about EXCEPT ![c] = active]
  /\ active' = NoSession
  /\ Goes(c, IF active = NoSession THEN "done" ELSE "stop")
  /\ UNCHANGED <<callFrame, tables, open, read, history>>

StopOpens(c) ==
  /\ call[c] = "stop" /\ OpenStore(c, "get", "done")
  /\ UNCHANGED <<callFrame, tables, active, about, read, history>>

StopReads(c) ==
  /\ call[c] = "get"
  /\ \/ /\ rows[about[c]].stored
        /\ read' = [read EXCEPT ![c] = rows[about[c]]]
        /\ Goes(c, "end")
     \/ read' = read /\ Goes(c, "done")     \* no such row, or the query failed
  /\ UNCHANGED <<callFrame, tables, active, open, about, history>>

StopSaves(c) ==
  /\ call[c] = "end" /\ Goes(c, "done")
  /\ read' = [read EXCEPT ![c] = NoRow]
  /\ \/ /\ rows' = [rows EXCEPT ![about[c]] = [read[c] EXCEPT !.ended = TRUE]]
        /\ spoilt' = IF rows[about[c]] = read[c] THEN spoilt ELSE spoilt \cup {about[c]}
     \/ UNCHANGED <<rows, spoilt>>
  /\ UNCHANGED <<callFrame, savedFlows, ring, active, open, about, counted>>

\* delete_session and clear_all_sessions leave active_session_id alone.
DeleteCalled(c) ==
  /\ Called(c) /\ OpenStore(c, "delete", "done")
  /\ UNCHANGED <<callFrame, tables, active, about, read, history>>

Delete(c) ==
  /\ call[c] = "delete" /\ Goes(c, "done")
  /\ \/ \E s \in Sessions : rows' = [rows EXCEPT ![s] = NoRow]
     \/ rows' = [s \in Sessions |-> NoRow]
     \/ rows' = rows
  /\ UNCHANGED <<callFrame, savedFlows, ring, active, open, about, read, history>>

\* clear_logs empties the memory first and then the table.
ClearCalled(c) ==
  /\ Called(c) /\ Goes(c, "opening")
  /\ ring' = <<>>
  /\ UNCHANGED <<callFrame, rows, savedFlows, active, open, about, read, history>>

ClearOpens(c) ==
  /\ call[c] = "opening" /\ OpenStore(c, "clear", "done")
  /\ UNCHANGED <<callFrame, tables, active, about, read, history>>

ClearFlows(c) ==
  /\ call[c] = "clear" /\ Goes(c, "done")
  /\ savedFlows' \in {{}, savedFlows}
  /\ UNCHANGED <<callFrame, rows, ring, active, open, about, read, history>>

CallStep(c) ==
  \/ StartCalled(c) \/ StopCalled(c) \/ DeleteCalled(c) \/ ClearCalled(c)
  \/ Insert(c) \/ Activate(c) \/ StopOpens(c) \/ StopReads(c) \/ StopSaves(c)
  \/ Delete(c) \/ ClearOpens(c) \/ ClearFlows(c)

\* stop_proxy, or a start of it that fails, drops the cached store; a start that
\* succeeds and every request for a list open it.
ResetStore == ~lock /\ open' = FALSE
OtherOpens == ~lock /\ open' = TRUE
OtherStep  == /\ ResetStore \/ OtherOpens
              /\ UNCHANGED <<active, tables, lock, flowVars, callVars, history>>

-------------------------------------------------------------------------------

SessNext == \/ \E f \in Captured : CaptureStep(f) \/ BumpStep(f)
            \/ \E c \in Calls : CallStep(c)
            \/ OtherStep

SessSpec == SessInit /\ [][SessNext]_sessVars

\* tokio polls both tasks of a flow.  The mutex is taken a bounded number of times.
SessFairSpec == SessSpec /\ \A f \in Captured : WF_sessVars(CaptureStep(f)) /\ WF_sessVars(BumpStep(f))

-------------------------------------------------------------------------------
(* Properties *)

\* The flows whose count was written into the row of s.
CountedFor(s) == {f \in counted : session[f] = s}

\* Counting flows is serial: whatever is captured, deleted, cleared or dropped
\* meanwhile, the row of a session counts exactly the flows whose count was
\* written, until a stop_session has saved a row that had changed since it was
\* read.  The hazard is the read-modify-write of dashboard.rs, and the mutex held
\* around it.
CountExact ==
  \A s \in Sessions \ spoilt :
    rows[s].stored => rows[s].count = Cardinality(CountedFor(s))

\* The mutex of the store is held by one task, and only while that task has a save
\* before it: no path of push or of the counting task leaves it locked.
LockOwned ==
  /\ lock <=> \E f \in Captured : capture[f] = "save" \/ bump[f] = "write"
  /\ \A f, g \in Captured : capture[f] = "save" => bump[g] # "write" /\ (capture[g] = "save" => f = g)
  /\ \A f, g \in Captured : bump[f] = "write" /\ bump[g] = "write" => f = g

\* Every flow is shown or discarded in the end, and counted or given up: the task
\* that counts waits for the mutex its flow's push holds.
CapturesEnd == <>[](\A f \in Captured : /\ capture[f] \in {"shown", "discarded"}
                                    /\ bump[f] \in {"none", "done"})
=============================================================================
