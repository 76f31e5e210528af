----------------------------- MODULE EpochBuffer -----------------------------
(***************************************************************************)
(* Messages that reach a client before the commit that makes them          *)
(* readable: the table pending_mls_messages of one conversation, and the   *)
(* two parts of the client that fill it and retry from it.                 *)
(*   "app"      the handlers of tasks/message_loop.rs, each a task of its   *)
(*              own, and the loop of tasks/buffer_processor.rs;             *)
(*   "manager"  MlsConversationManager with its EpochAwareBuffer, driven    *)
(*              by GroupMessageHandler.  It takes &mut self: one call at a   *)
(*              time.  The application does not construct it.               *)
(* The MLS group is the library's: a commit is accepted in its own epoch    *)
(* and begins the next, a message is readable from its epoch on, once.      *)
(* Nothing locks it: each use loads a copy, works on it and writes it back. *)
(***************************************************************************)
EXTENDS Integers, Sequences, FiniteSets

CONSTANTS Items,       \* what arrives: application messages and commits
          Commits,     \* those that are commits
          Epoch,       \* Epoch[m]: the epoch in which m was made
          MaxRetry,    \* MAX_RETRY_COUNT (10)
          MaxAge,      \* MAX_MESSAGE_AGE_SECS, MAX_BUFFER_AGE_SECS (300)
          MaxSize,     \* MAX_BUFFER_SIZE (100): memory entries
          MaxTime,     \* bound: the clock stops here
          MaxArrivals, \* bound: messages handed over, repetitions included
          MaxFaults    \* bound: restarts and handlers that fail half-way

ASSUME ItemsAssumption == Items \subseteq Nat \ {0} /\ Commits \subseteq Items /\ Epoch \in [Items -> Nat]
ASSUME LimitAssumption == {MaxRetry, MaxAge, MaxSize} \subseteq Nat \ {0}
ASSUME BoundAssumption == {MaxTime, MaxArrivals, MaxFaults} \subseteq Nat

VARIABLES host,      \* "app" or "manager"
          clock,
          group,     \* the stored MLS group
          rows,      \* pending_mls_messages, by id
          arrivals,  \* messages handed over so far
          workers,   \* app: handlers at work, each with its copy of the group
          proc,      \* app: the buffer processor
          memory,    \* manager: memory_buffer, oldest first
          call,      \* manager: the process_incoming_message_buffered at work
          given,     \* history: how often each message's text reached the user
          clobbered, \* history: a write undid another's
          faults

table == <<rows, arrivals>>
app   == <<workers, proc>>
mgr   == <<memory, call>>
vars  == <<host, clock, group, rows, arrivals, workers, proc, memory, call,
           given, clobbered, faults>>

Apps    == Items \ Commits
NoItem  == 0
Clear   == [epoch |-> 0, used |-> {}]
IdleProc == [pc |-> "idle", left |-> {}, id |-> 0, copy |-> Clear]
IdleCall == [pc |-> "idle", m |-> NoItem, left |-> {}, from |-> 0]

(***************************************************************************)
(* The MLS library.  A spent key is an error of its own, which names the   *)
(* epoch in no wording but may name the generation.                        *)
(***************************************************************************)
Outcome(g, m) ==
  IF m \in Commits THEN IF Epoch[m] = g.epoch THEN "ok" ELSE "epoch"
  ELSE IF Epoch[m] > g.epoch THEN "epoch" ELSE IF m \in g.used THEN "spent" ELSE "ok"

\* The copy after a successful process_incoming_message.
Processed(g, m) == IF m \in Commits THEN [g EXCEPT !.epoch = @ + 1]
                                    ELSE [g EXCEPT !.used = @ \cup {m}]

\* Faulty: the group is not written back.
WriteNothing(old, m) == UNCHANGED <<group, clobbered>>

\* write_to_storage of a copy that was loaded as old.
WriteGroup(old, m) == /\ group' = Processed(old, m)
                      /\ clobbered' = (clobbered \/ old # group)

(***************************************************************************)
(* The table.                                                              *)
(***************************************************************************)
Pending(r)  == ~rows[r].processed /\ ~rows[r].failed
PendingRows == {r \in DOMAIN rows : Pending(r)}
RowsOf(m)   == {r \in DOMAIN rows : rows[r].m = m}
Age(at)     == clock - at
NewRow(m, t) == [m |-> m, at |-> t, retries |-> 0, processed |-> FALSE, failed |-> FALSE]

\* Nothing makes a message unique, so INSERT OR IGNORE ignores none.  A row
\* is numbered by the arrival it comes from.
Insert(n, m, t) == rows' = [r \in DOMAIN rows \cup {n} |->
  IF r \in DOMAIN rows THEN rows[r] ELSE NewRow(m, t)]

Counted(row) == [row EXCEPT !.retries = @ + 1]
Done(row)    == [row EXCEPT !.processed = TRUE]
Failed(row)  == [row EXCEPT !.failed = TRUE]
IncrementRetry(S) == rows' = [r \in DOMAIN rows |-> IF r \in S THEN Counted(rows[r]) ELSE rows[r]]
MarkProcessed(S)  == rows' = [r \in DOMAIN rows |-> IF r \in S THEN Done(rows[r]) ELSE rows[r]]
MarkFailed(S)     == rows' = [r \in DOMAIN rows |-> IF r \in S THEN Failed(rows[r]) ELSE rows[r]]
Exhaust(S)        == rows' = [r \in DOMAIN rows |->
                       IF r \in S THEN Failed(Counted(rows[r])) ELSE rows[r]]
Delete(S) == rows' = [r \in DOMAIN rows \ S |-> rows[r]]

Show(m) == given' = [given EXCEPT ![m] = @ + 1]

Fault == faults < MaxFaults /\ faults' = faults + 1

Init ==
  /\ host \in {"app", "manager"}
  /\ clock = 0
  /\ group = Clear
  /\ rows = <<>>
  /\ arrivals = 0
  /\ workers = {}
  /\ proc = IdleProc
  /\ memory = <<>>
  /\ call = IdleCall
  /\ given = [m \in Apps |-> 0]
  /\ clobbered = FALSE
  /\ faults = 0

Tick == /\ clock < MaxTime
        /\ clock' = clock + 1
        /\ UNCHANGED <<host, group, table, app, mgr, given, clobbered, faults>>

Arrive == arrivals < MaxArrivals /\ arrivals' = arrivals + 1

(***************************************************************************)
(* The application's handlers.  A worker's number is its arrival's.        *)
(***************************************************************************)
Worker(n, m) == [n |-> n, m |-> m, at |-> clock, pc |-> "load", copy |-> Clear]
Turn(w, v) == workers' = (workers \ {w}) \cup {v}

\* A message, or a commit of syncEpochResponse, which the receive loop takes
\* one after the other.
HandOver(m) ==
  /\ host = "app"
  /\ Arrive
  /\ m \in Commits => \A w \in workers : w.m \notin Commits
  /\ workers' = workers \cup {Worker(arrivals + 1, m)}
  /\ UNCHANGED <<host, clock, group, rows, proc, mgr, given, clobbered, faults>>

\* The handler loads the group and processes the message on its copy.  A
\* commit that fails is skipped, a message that fails for another reason
\* than the epoch is dropped.
Load(w) ==
  /\ w.pc = "load"
  /\ CASE Outcome(group, w.m) = "ok" -> Turn(w, [w EXCEPT !.pc = "write", !.copy = group])
       [] Outcome(group, w.m) = "epoch" /\ w.m \in Apps -> Turn(w, [w EXCEPT !.pc = "buffer"])
       [] OTHER -> workers' = workers \ {w}
  /\ UNCHANGED <<host, clock, group, table, proc, mgr, given, clobbered, faults>>

Write(w) ==
  /\ w.pc = "write"
  /\ WriteGroup(w.copy, w.m)
  /\ IF w.m \in Commits THEN workers' = workers \ {w}
     ELSE Turn(w, [w EXCEPT !.pc = "save", !.copy = Clear])
  /\ UNCHANGED <<host, clock, table, proc, mgr, given, faults>>

Save(w) ==
  /\ w.pc = "save"
  /\ Show(w.m)
  /\ workers' = workers \ {w}
  /\ UNCHANGED <<host, clock, group, table, proc, mgr, clobbered, faults>>

Buffer(w) ==
  /\ w.pc = "buffer"
  /\ Insert(w.n, w.m, w.at)
  /\ workers' = workers \ {w}
  /\ UNCHANGED <<host, clock, group, arrivals, proc, mgr, given, clobbered, faults>>

(***************************************************************************)
(* The buffer processor: every five seconds it goes through the rows that  *)
(* are pending, oldest first, and then cleans up.                          *)
(***************************************************************************)
StartPass ==
  /\ host = "app"
  /\ proc.pc = "idle"
  /\ rows # <<>>
  /\ proc' = [IdleProc EXCEPT !.pc = "next", !.left = PendingRows]
  /\ UNCHANGED <<host, clock, group, table, workers, mgr, given, clobbered, faults>>

Oldest(S) == {r \in S : \A s \in S : rows[r].at <= rows[s].at}

\* A row that was retried often enough fails; any other counts one more
\* attempt before the attempt is made.
TakeRow(r) ==
  /\ proc.pc = "next"
  /\ r \in Oldest(proc.left)
  /\ IF rows[r].retries >= MaxRetry
     THEN /\ MarkFailed({r})
          /\ proc' = [proc EXCEPT !.left = @ \ {r}]
     ELSE /\ IncrementRetry({r})
          /\ proc' = [proc EXCEPT !.left = @ \ {r}, !.pc = "load", !.id = r]
  /\ UNCHANGED <<host, clock, group, arrivals, workers, mgr, given, clobbered, faults>>

\* The epoch is still wrong: the row stays.  Any other error: it fails.
RetryLoad ==
  LET m == rows[proc.id].m IN
  /\ proc.pc = "load"
  /\ CASE Outcome(group, m) = "ok" ->
            /\ proc' = [proc EXCEPT !.pc = "write", !.copy = group]
            /\ UNCHANGED rows
       [] Outcome(group, m) = "epoch" ->
            /\ proc' = [proc EXCEPT !.pc = "next", !.id = 0]
            /\ UNCHANGED rows
       [] OTHER ->
            /\ proc' = [proc EXCEPT !.pc = "next", !.id = 0]
            /\ MarkFailed({proc.id})
  /\ UNCHANGED <<host, clock, group, arrivals, workers, mgr, given, clobbered, faults>>

\* Faulty: the row is marked and the message not saved.
RetryWriteMarks ==
  /\ proc.pc = "write"
  /\ WriteGroup(proc.copy, rows[proc.id].m)
  /\ proc' = [proc EXCEPT !.pc = "mark", !.copy = Clear]
  /\ UNCHANGED <<host, clock, table, workers, mgr, given, faults>>

RetryWrite ==
  /\ proc.pc = "write"
  /\ WriteGroup(proc.copy, rows[proc.id].m)
  /\ proc' = [proc EXCEPT !.pc = "save", !.copy = Clear]
  /\ UNCHANGED <<host, clock, table, workers, mgr, given, faults>>

RetrySave ==
  /\ proc.pc = "save"
  /\ Show(rows[proc.id].m)
  /\ proc' = [proc EXCEPT !.pc = "mark"]
  /\ UNCHANGED <<host, clock, group, table, workers, mgr, clobbered, faults>>

RetryMark ==
  /\ proc.pc = "mark"
  /\ MarkProcessed({proc.id})
  /\ proc' = [proc EXCEPT !.pc = "next", !.id = 0]
  /\ UNCHANGED <<host, clock, group, arrivals, workers, mgr, given, clobbered, faults>>

\* Faulty: only what is too old is deleted.
CleanupExpired ==
  /\ proc.pc = "next"
  /\ proc.left = {}
  /\ Delete({r \in DOMAIN rows : Age(rows[r].at) > MaxAge})
  /\ proc' = IdleProc
  /\ UNCHANGED <<host, clock, group, arrivals, workers, mgr, given, clobbered, faults>>

\* cleanup_expired_messages deletes what is done with and what is too old.
Cleanup ==
  /\ proc.pc = "next"
  /\ proc.left = {}
  /\ Delete({r \in DOMAIN rows : ~Pending(r) \/ Age(rows[r].at) > MaxAge})
  /\ proc' = IdleProc
  /\ UNCHANGED <<host, clock, group, arrivals, workers, mgr, given, clobbered, faults>>

(***************************************************************************)
(* The manager: process_incoming_message_buffered.  A message that opens   *)
(* starts a pass over what waits; its text is returned after the pass.     *)
(***************************************************************************)
Entry(m, t, n) == [m |-> m, at |-> t, retries |-> n]
InMemory(m)    == {i \in DOMAIN memory : memory[i].m = m}
Last(S)        == CHOOSE i \in S : \A j \in S : j <= i
First(S)       == CHOOSE i \in S : \A j \in S : i <= j
PendingOf(m)   == RowsOf(m) \cap PendingRows

\* get_retry_candidates merges the two by message: the last entry in memory,
\* with the count of the last row.
Candidate(m) ==
  LET mem == InMemory(m)
      old == PendingOf(m)
  IN  Entry(m, IF mem # {} THEN memory[Last(mem)].at ELSE rows[First(old)].at,
               IF old # {} THEN rows[Last(old)].retries ELSE memory[Last(mem)].retries)
\* Faulty: what memory did not hold is forgotten.
CandidatesInMemory == {Candidate(m) : m \in {x \in Items : InMemory(x) # {}}}

Candidates == {Candidate(m) : m \in {x \in Items : InMemory(x) # {} \/ PendingOf(x) # {}}}

\* is_epoch_error: a spent key counts when the error names its generation.
Errors(m) == CASE Outcome(group, m) = "epoch" -> {"epoch"}
               [] Outcome(group, m) = "spent" -> {"epoch", "other"}
               [] OTHER -> {}

\* process_incoming_message_buffered
ProcessIncoming(m) ==
  \/ /\ Outcome(group, m) = "ok"
     /\ WriteGroup(group, m)
     /\ call' = [pc |-> "pass", m |-> m, left |-> Candidates, from |-> group'.epoch]
     /\ UNCHANGED rows
  \/ /\ "epoch" \in Errors(m)
     /\ Insert(arrivals + 1, m, clock)
     /\ call' = [IdleCall EXCEPT !.pc = "push", !.m = m]
     /\ UNCHANGED <<group, clobbered>>
  \/ /\ "other" \in Errors(m)
     /\ UNCHANGED <<group, clobbered, rows, call>>

\* The manager's caller hands it one message after the other.
Receive(m) ==
  /\ host = "manager"
  /\ call.pc = "idle"
  /\ Arrive
  /\ ProcessIncoming(m)
  /\ UNCHANGED <<host, clock, app, memory, given, faults>>

\* The second half of queue_message: what does not fit is in the table only.
Push ==
  /\ call.pc = "push"
  /\ memory' = IF Len(memory) >= MaxSize THEN memory
               ELSE Append(memory, Entry(call.m, clock, 0))
  /\ call' = IdleCall
  /\ UNCHANGED <<host, clock, group, table, app, given, clobbered, faults>>

\* What memory keeps: the entries at the places in S, in their order.
Nth(S, i)  == CHOOSE j \in S : Cardinality({k \in S : k <= j}) = i
KeepOnly(S) == memory' = [i \in 1..Cardinality(S) |-> memory[Nth(S, i)]]

Forget(m) == KeepOnly(DOMAIN memory \ InMemory(m))

\* increment_retry counts on every row of the message and on its first entry
\* in memory, and reads the count of its first row.
CountUp(m) ==
  LET mem == InMemory(m) IN
  memory' = IF mem = {} THEN memory ELSE [memory EXCEPT ![First(mem)].retries = @ + 1]
NewCount(c) == IF RowsOf(c.m) # {} THEN rows[First(RowsOf(c.m))].retries + 1
               ELSE c.retries + 1

\* One candidate of process_buffered_messages; the text of one that opens is
\* not kept.
RetryCandidate(c) ==
  /\ call.pc = "pass"
  /\ c \in call.left
  /\ call' = [call EXCEPT !.left = @ \ {c}]
  /\ \/ /\ c.retries >= MaxRetry \/ Age(c.at) > MaxAge
        /\ MarkFailed(RowsOf(c.m)) /\ Forget(c.m)
        /\ UNCHANGED <<group, clobbered>>
     \/ /\ c.retries < MaxRetry /\ Age(c.at) <= MaxAge
        /\ \/ /\ Outcome(group, c.m) = "ok"
              /\ WriteGroup(group, c.m)
              /\ MarkProcessed({r \in RowsOf(c.m) : ~rows[r].processed}) /\ Forget(c.m)
           \/ /\ \/ "epoch" \in Errors(c.m)
                 \/ "other" \in Errors(c.m) /\ NewCount(c) < MaxRetry
              /\ IncrementRetry(RowsOf(c.m)) /\ CountUp(c.m)
              /\ UNCHANGED <<group, clobbered>>
           \/ /\ "other" \in Errors(c.m) /\ NewCount(c) >= MaxRetry
              /\ Exhaust(RowsOf(c.m))
              /\ Forget(c.m)
              /\ UNCHANGED <<group, clobbered>>
  /\ UNCHANGED <<host, clock, arrivals, app, given, faults>>

Return ==
  /\ call.pc = "pass"
  /\ call.left = {}
  /\ call' = IdleCall
  /\ IF call.m \in Apps THEN Show(call.m) ELSE UNCHANGED given
  /\ UNCHANGED <<host, clock, group, table, app, memory, clobbered, faults>>

\* cleanup_expired_buffered.
Expire ==
  /\ host = "manager"
  /\ call.pc = "idle"
  /\ Delete({r \in DOMAIN rows : ~rows[r].processed /\ Age(rows[r].at) > MaxAge})
  /\ KeepOnly({i \in DOMAIN memory : Age(memory[i].at) < MaxAge})
  /\ <<rows', memory'>> # <<rows, memory>>
  /\ UNCHANGED <<host, clock, group, arrivals, app, call, given, clobbered, faults>>

(***************************************************************************)
(* A storage call that fails ends a handler, a pass or a call with an      *)
(* error.  The program may stop at any time; init_epoch_buffer reloads.    *)
(***************************************************************************)
WorkerFails(w) ==
  /\ Fault
  /\ w.pc \in {"write", "save", "buffer"}
  /\ workers' = workers \ {w}
  /\ UNCHANGED <<host, clock, group, table, proc, mgr, given, clobbered>>

PassFails ==
  /\ Fault
  /\ proc.pc \in {"write", "save", "mark"}
  /\ proc' = [IdleProc EXCEPT !.pc = "next"]
  /\ UNCHANGED <<host, clock, group, table, workers, mgr, given, clobbered>>

CallFails ==
  /\ Fault
  /\ call.pc = "pass"
  /\ call' = IdleCall
  /\ UNCHANGED <<host, clock, group, table, app, memory, given, clobbered>>

FromRow(row) == Entry(row.m, row.at, row.retries)

\* Faulty: the limit is not observed.
ReloadedAll == [i \in 1..Cardinality(PendingRows) |-> FromRow(rows[Nth(PendingRows, i)])]

\* The rows that fit into memory again, oldest first.
Reloaded ==
  LET n == Cardinality(PendingRows)
  IN  [i \in 1..(IF n < MaxSize THEN n ELSE MaxSize) |-> FromRow(rows[Nth(PendingRows, i)])]

Restart ==
  /\ Fault
  /\ workers' = {}
  /\ proc' = IdleProc
  /\ call' = IdleCall
  /\ memory' = IF host = "manager" THEN Reloaded ELSE <<>>
  /\ UNCHANGED <<host, clock, group, table, given, clobbered>>

Next ==
  \/ Tick \/ Restart
  \/ \E m \in Items : HandOver(m) \/ Receive(m)
  \/ \E w \in workers : Load(w) \/ Write(w) \/ Save(w) \/ Buffer(w) \/ WorkerFails(w)
  \/ StartPass \/ (\E r \in proc.left : TakeRow(r)) \/ RetryLoad \/ RetryWrite
  \/ RetrySave \/ RetryMark \/ Cleanup \/ PassFails
  \/ Push \/ (\E c \in call.left : RetryCandidate(c)) \/ Return \/ Expire \/ CallFails

Spec == Init /\ [][Next]_vars

\* The processor's loop never ends, a handler at work is run to its end.
Processor == StartPass \/ (\E r \in proc.left : TakeRow(r)) \/ RetryLoad \/ RetryWrite
             \/ RetrySave \/ RetryMark \/ Cleanup
FairSpec == Spec /\ WF_vars(Processor)
                 /\ WF_vars(\E w \in workers : Load(w) \/ Write(w) \/ Save(w) \/ Buffer(w))

(***************************************************************************)
(* Properties.                                                             *)
(***************************************************************************)
\* The types, and which part of the program is at work.
TypeOK ==
  /\ host \in {"app", "manager"}
  /\ clock \in 0..MaxTime /\ arrivals \in 0..MaxArrivals /\ faults \in 0..MaxFaults
  /\ group \in [epoch : Nat, used : SUBSET Apps]
  /\ DOMAIN rows \subseteq 1..arrivals
  /\ \A r \in DOMAIN rows : rows[r] \in
       [m : Items, at : 0..clock, retries : Nat, processed : BOOLEAN, failed : BOOLEAN]
  /\ \A w \in workers : w \in [n : 1..arrivals, m : Items, at : 0..clock,
       pc : {"load", "write", "save", "buffer"}, copy : [epoch : Nat, used : SUBSET Apps]]
  /\ proc.pc \in {"idle", "next", "load", "write", "save", "mark"}
  /\ call.pc \in {"idle", "push", "pass"}
  /\ Len(memory) <= MaxSize
  /\ host = "app" => memory = <<>> /\ call = IdleCall
  /\ host = "manager" => workers = {} /\ proc = IdleProc

\* A message is shown twice only after a lost update of the MLS group: neither
\* a second copy, nor the table, nor a retry or a restart does it.
ShownOnce == clobbered \/ \A m \in Apps : given[m] <= 1

\* Without restarts and failing storage, a message whose key is spent has been
\* shown or is in the hands of somebody who will: the application keeps no
\* gap between the ratchet and the message list.  (The manager throws away
\* what a pass opens.)
SpentIsShown ==
  host = "app" /\ faults = 0 =>
    \A m \in group.used : \/ given[m] > 0
                          \/ \E w \in workers : w.m = m /\ w.pc = "save"
                          \/ proc.pc = "save" /\ rows[proc.id].m = m

\* A pass of the manager leaves nothing pending that was readable when the
\* pass began.  (What a commit of the same pass makes readable may stay: the
\* candidates come in no order, and only another message starts a pass.)
PassOpens ==
  call.pc = "pass" /\ call.left = {} =>
    \A r \in PendingRows : rows[r].m \in Apps =>
      Epoch[rows[r].m] > call.from \/ rows[r].m \in group.used

\* Every row of the application's table goes: shown, failed or too old.
Drains == \A n \in 1..MaxArrivals : (host = "app" /\ n \in DOMAIN rows) ~> (n \notin DOMAIN rows)
=============================================================================
