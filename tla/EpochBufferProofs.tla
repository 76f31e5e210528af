------------------------- MODULE EpochBufferProofs -------------------------
(***************************************************************************)
(* Proofs about EpochBuffer: for any messages, epochs, limits and number   *)
(* of restarts, no text is shown twice unless a write of the MLS group     *)
(* undid another, and the application loses none whose key it spent.       *)
(***************************************************************************)
EXTENDS EpochBuffer, FiniteSetTheorems, TLAPS

Group   == [epoch : Nat, used : SUBSET Apps]
RowType == [m : Items, at : Nat, retries : Nat, processed : BOOLEAN, failed : BOOLEAN]
WorkerType == [n : Nat, m : Items, at : Nat,
               pc : {"load", "write", "save", "buffer"}, copy : Group]
ProcType == [pc : {"idle", "next", "load", "write", "save", "mark"},
             left : SUBSET Nat, id : Nat, copy : Group]

Counters == /\ clock \in Nat /\ arrivals \in Nat /\ faults \in Nat
            /\ clobbered \in BOOLEAN

\* The table: the application's holds application messages only.
Rows ==
  /\ DOMAIN rows \subseteq Nat
  /\ \A r \in DOMAIN rows : /\ rows[r] \in RowType
                            /\ host = "app" => rows[r].m \in Apps

\* The handlers at work, and the processor at a row that is there.
Working ==
  /\ \A w \in workers : /\ w \in WorkerType
                        /\ w.pc \in {"save", "buffer"} => w.m \in Apps
  /\ proc \in ProcType
  /\ proc.left \subseteq DOMAIN rows
  /\ proc.pc \in {"load", "write", "save", "mark"} => proc.id \in DOMAIN rows

\* The manager's call.
Calling ==
  /\ call = [pc |-> call.pc, m |-> call.m, left |-> call.left, from |-> call.from]
  /\ call.pc \in {"idle", "push", "pass"}
  /\ \A c \in call.left : c.m \in Items
  /\ call.pc = "pass" => call.m \in Items

\* One of the two parts is at work.
Host ==
  /\ host = "app" => call = IdleCall
  /\ host # "app" => workers = {} /\ proc = IdleProc

Shape == Counters /\ group \in Group /\ given \in [Apps -> Nat] /\ Rows /\ Working /\ Calling /\ Host

\* A copy that is about to be written opened its message.
Copies ==
  /\ \A w \in workers : w.pc = "write" => w.m \in Commits \/ w.m \notin w.copy.used
  /\ proc.pc = "write" => rows[proc.id].m \notin proc.copy.used

\* The message that is in the processor's hands, and in the manager's.
OfProc(m) == proc.pc = "save" /\ rows[proc.id].m = m
OfCall(m) == call.pc = "pass" /\ call.m = m

Unshown(m) == m \in group.used /\ given[m] = 0

\* Without a lost update: what was shown is spent, and who is about to show a
\* message is alone with it and nobody has shown it.
Shown  == \A m \in Apps : given[m] \in {0, 1} /\ (given[m] # 0 => m \in group.used)
Savers == \A w \in workers : w.pc = "save" =>
            /\ Unshown(w.m)
            /\ \A v \in workers : v.pc = "save" /\ v.m = w.m => v = w
            /\ ~OfProc(w.m)
Others == \A m \in Apps : OfProc(m) \/ OfCall(m) => Unshown(m)
Once   == ~clobbered => Shown /\ Savers /\ Others

\* Shown, or in the hands of somebody who will show it.
Covered(m) == \/ given[m] # 0
              \/ \E w \in workers : w.m = m /\ w.pc = "save"
              \/ OfProc(m)

\* Without faults, every key that is spent in the group, or in a copy that is
\* about to be written, is covered.
Spent ==
  host = "app" /\ faults = 0 =>
    /\ \A m \in group.used : Covered(m)
    /\ \A w \in workers : w.pc = "write" => \A m \in w.copy.used : Covered(m)
    /\ proc.pc = "write" => \A m \in proc.copy.used : Covered(m)

\* In a pass of the manager: what was readable when the pass began is taken
\* in, or is still to be tried.
Passing ==
  call.pc = "pass" =>
    /\ call.from \in Nat /\ call.from <= group.epoch
    /\ \A r \in PendingRows : rows[r].m \in Apps =>
         \/ Epoch[rows[r].m] > call.from
         \/ rows[r].m \in group.used
         \/ \E c \in call.left : c.m = rows[r].m

Inv == Shape /\ Copies /\ Once /\ Spent /\ Passing

-----------------------------------------------------------------------------
(* Records and functions *)

LEMMA ProcessedType ==
    ASSUME NEW g \in Group, NEW m \in Items
    PROVE  /\ Processed(g, m) \in Group
           /\ Processed(g, m).used = IF m \in Commits THEN g.used ELSE g.used \cup {m}
  BY DEF Processed, Group, Apps

LEMMA ClearType == Clear \in Group /\ Clear.used = {}
  BY DEF Clear, Group

LEMMA InsertRows ==
    ASSUME Rows, clock \in Nat, NEW n \in Nat, NEW m \in Items, NEW t \in Nat,
           host = "app" => m \in Apps, host' = host, Insert(n, m, t)
    PROVE  /\ Rows' /\ DOMAIN rows \subseteq DOMAIN rows'
           /\ \A r \in DOMAIN rows : rows'[r] = rows[r]
  <1>1. NewRow(m, t) \in RowType /\ NewRow(m, t).m = m
    BY DEF NewRow, RowType
  <1> QED
    BY <1>1 DEF Rows, Insert

\* Counting and marking leave every row with its message.
SameRows == /\ DOMAIN rows' = DOMAIN rows
            /\ \A r \in DOMAIN rows : rows'[r].m = rows[r].m

LEMMA ChangedRow ==
    ASSUME NEW row \in RowType
    PROVE  /\ Counted(row) \in RowType /\ Counted(row).m = row.m
           /\ Done(row) \in RowType /\ Done(row).m = row.m
           /\ Failed(row) \in RowType /\ Failed(row).m = row.m
  <1>1. Counted(row) \in RowType /\ Counted(row).m = row.m
    BY DEF RowType, Counted
  <1>2. Done(row) \in RowType /\ Done(row).m = row.m
    BY DEF RowType, Done
  <1>3. Failed(row) \in RowType /\ Failed(row).m = row.m
    BY DEF RowType, Failed
  <1> QED
    BY <1>1, <1>2, <1>3

LEMMA ChangedRows ==
    ASSUME Rows, host' = host, NEW S,
           \/ IncrementRetry(S) \/ MarkProcessed(S) \/ MarkFailed(S) \/ Exhaust(S)
    PROVE  Rows' /\ SameRows
  BY ChangedRow DEF Rows, SameRows, IncrementRetry, MarkProcessed, MarkFailed, Exhaust

LEMMA DeletedRows ==
    ASSUME Rows, host' = host, NEW S, Delete(S)
    PROVE  Rows' /\ DOMAIN rows' \subseteq DOMAIN rows
                 /\ \A r \in DOMAIN rows' : rows'[r] = rows[r]
  BY DEF Rows, Delete

-----------------------------------------------------------------------------
(* Types *)

LEMMA IdleTypes ==
    /\ IdleProc \in ProcType /\ IdleProc.left = {} /\ IdleProc.pc = "idle"
    /\ IdleCall = [pc |-> IdleCall.pc, m |-> IdleCall.m, left |-> IdleCall.left, from |-> IdleCall.from]
    /\ IdleCall.pc = "idle" /\ IdleCall.left = {}
  BY ClearType DEF IdleProc, ProcType, IdleCall

LEMMA WorkerChanges ==
    ASSUME NEW w \in WorkerType
    PROVE  /\ \A g \in Group : /\ [w EXCEPT !.pc = "write", !.copy = g] \in WorkerType
                               /\ [w EXCEPT !.pc = "write", !.copy = g].pc = "write"
                               /\ [w EXCEPT !.pc = "write", !.copy = g].m = w.m
                               /\ [w EXCEPT !.pc = "write", !.copy = g].copy = g
           /\ [w EXCEPT !.pc = "buffer"] \in WorkerType
           /\ [w EXCEPT !.pc = "buffer"].pc = "buffer"
           /\ [w EXCEPT !.pc = "buffer"].m = w.m
           /\ [w EXCEPT !.pc = "save", !.copy = Clear] \in WorkerType
           /\ [w EXCEPT !.pc = "save", !.copy = Clear].pc = "save"
           /\ [w EXCEPT !.pc = "save", !.copy = Clear].m = w.m
  BY ClearType DEF WorkerType

\* What a handler's step makes of it.
Turned(w, v) == v \in WorkerType /\ v.m = w.m /\ workers' = (workers \ {w}) \cup {v}

LEMMA LoadEffect ==
    ASSUME NEW w \in WorkerType, group \in Group, Load(w)
    PROVE  \/ workers' = workers \ {w}
           \/ \E v : /\ Turned(w, v)
                    /\ \/ /\ v.pc = "write" /\ v.copy = group
                          /\ w.m \in Commits \/ w.m \notin group.used
                       \/ v.pc = "buffer" /\ w.m \in Apps
  <1>1. CASE Outcome(group, w.m) = "ok"
    <2>1. w.m \in Commits \/ w.m \notin group.used
      BY <1>1 DEF Outcome
    <2> DEFINE v == [w EXCEPT !.pc = "write", !.copy = group]
    <2>2. v \in WorkerType /\ v.pc = "write" /\ v.m = w.m /\ v.copy = group
      BY WorkerChanges
    <2>3. workers' = (workers \ {w}) \cup {v}
      BY <1>1 DEF Load, Turn
    <2> HIDE DEF v
    <2> QED
      BY <2>1, <2>2, <2>3 DEF Turned
  <1>2. CASE Outcome(group, w.m) = "epoch" /\ w.m \in Apps
    <2> DEFINE v == [w EXCEPT !.pc = "buffer"]
    <2>1. v \in WorkerType /\ v.pc = "buffer" /\ v.m = w.m
      BY WorkerChanges
    <2>2. workers' = (workers \ {w}) \cup {v}
      BY <1>2 DEF Load, Turn
    <2> HIDE DEF v
    <2> QED
      BY <1>2, <2>1, <2>2 DEF Turned
  <1>3. CASE Outcome(group, w.m) # "ok" /\ ~(Outcome(group, w.m) = "epoch" /\ w.m \in Apps)
    BY <1>3 DEF Load
  <1> QED
    BY <1>1, <1>2, <1>3

LEMMA WriteEffect ==
    ASSUME NEW w \in WorkerType, Write(w)
    PROVE  \/ w.m \in Commits /\ workers' = workers \ {w}
           \/ w.m \in Apps /\ \E v : Turned(w, v) /\ v.pc = "save"
  <1>1. CASE w.m \in Commits
    BY <1>1 DEF Write
  <1>2. CASE w.m \notin Commits
    <2> DEFINE v == [w EXCEPT !.pc = "save", !.copy = Clear]
    <2>1. v \in WorkerType /\ v.pc = "save" /\ v.m = w.m
      BY WorkerChanges
    <2>2. workers' = (workers \ {w}) \cup {v}
      BY <1>2 DEF Write, Turn
    <2>3. w.m \in Apps
      BY <1>2 DEF WorkerType, Apps
    <2> HIDE DEF v
    <2> QED
      BY <2>1, <2>2, <2>3 DEF Turned
  <1> QED
    BY <1>1, <1>2

LEMMA ShownType ==
    ASSUME given \in [Apps -> Nat], NEW m \in Apps, Show(m)
    PROVE  /\ given' \in [Apps -> Nat] /\ given'[m] = given[m] + 1
           /\ \A k \in Apps : k # m => given'[k] = given[k]
  BY DEF Show

LEMMA CandidateItems == \A c \in Candidates : c.m \in Items
  BY DEF Candidates, Candidate, Entry

\* A copy that is written, whoever loaded it.
LEMMA WrittenGroup ==
    ASSUME group \in Group, clobbered \in BOOLEAN, NEW g \in Group, NEW m \in Items, WriteGroup(g, m)
    PROVE  /\ group' \in Group
           /\ group'.used = IF m \in Commits THEN g.used ELSE g.used \cup {m}
           /\ clobbered' \in BOOLEAN
           /\ ~clobbered' => ~clobbered /\ g = group
  BY ProcessedType DEF WriteGroup

-----------------------------------------------------------------------------
(* The shape is kept by every step. *)

LEMMA ShapeInitially == Init => Shape
  <1> SUFFICES ASSUME Init PROVE Shape
    OBVIOUS
  <1>1. Counters /\ group \in Group /\ given \in [Apps -> Nat]
    BY ClearType DEF Init, Counters
  <1>2. Rows
    BY DEF Init, Rows
  <1>3. Working /\ Calling /\ Host
    BY IdleTypes DEF Init, Working, Calling, Host
  <1> QED
    BY <1>1, <1>2, <1>3 DEF Shape

LEMMA ShapeHandlers ==
    ASSUME Shape
    PROVE  /\ \A m \in Items : HandOver(m) => Shape'
           /\ \A w \in workers : Load(w) \/ Write(w) \/ Save(w) \/ Buffer(w) \/ WorkerFails(w) => Shape'
  <1> USE DEF Shape, Counters
  <1>1. ASSUME NEW m \in Items, HandOver(m)
        PROVE  Shape'
    <2>1. Worker(arrivals + 1, m) \in WorkerType /\ Worker(arrivals + 1, m).pc = "load"
      BY ClearType DEF Worker, WorkerType
    <2>2. Rows' /\ Calling' /\ Host'
      BY <1>1 DEF HandOver, mgr, Rows, Calling, Host
    <2> QED
      BY <1>1, <2>1, <2>2 DEF HandOver, Arrive, mgr, Working
  <1>2. ASSUME NEW w \in workers, Load(w)
        PROVE  Shape'
    <2>1. Rows' /\ Calling' /\ Host'
      BY <1>2 DEF Load, table, mgr, Rows, Calling, Host
    <2>2. w \in WorkerType /\ UNCHANGED <<proc, rows>>
      BY <1>2 DEF Load, table, Working
    <2>3. Working'
      BY <1>2, <2>2, LoadEffect DEF Working, Turned
    <2> QED
      BY <1>2, <2>1, <2>3 DEF Load, table
  <1>3. ASSUME NEW w \in workers, Write(w)
        PROVE  Shape'
    <2>1. Rows' /\ Calling' /\ Host'
      BY <1>3 DEF Write, table, mgr, Rows, Calling, Host
    <2>2. group' \in Group /\ clobbered' \in BOOLEAN
      BY <1>3, WrittenGroup DEF Write, Working, WorkerType
    <2>3. w \in WorkerType /\ UNCHANGED <<proc, rows>>
      BY <1>3 DEF Write, table, Working
    <2>4. Working'
      BY <1>3, <2>3, WriteEffect DEF Working, Turned
    <2> QED
      BY <1>3, <2>1, <2>2, <2>4 DEF Write, table
  <1>4. ASSUME NEW w \in workers, Save(w)
        PROVE  Shape'
    <2>1. Rows' /\ Calling' /\ Host' /\ Working'
      BY <1>4 DEF Save, table, mgr, Rows, Calling, Host, Working
    <2>2. given' \in [Apps -> Nat]
      BY <1>4, ShownType DEF Save, Working
    <2> QED
      BY <1>4, <2>1, <2>2 DEF Save, table
  <1>5. ASSUME NEW w \in workers, Buffer(w)
        PROVE  Shape'
    <2>1. w \in WorkerType /\ w.m \in Apps
      BY <1>5 DEF Buffer, Working
    <2>2. Rows' /\ DOMAIN rows \subseteq DOMAIN rows'
      BY <1>5, <2>1, InsertRows DEF Buffer, WorkerType
    <2>3. Calling' /\ Host' /\ Working'
      BY <1>5, <2>2 DEF Buffer, mgr, Calling, Host, Working
    <2> QED
      BY <1>5, <2>2, <2>3 DEF Buffer
  <1>6. ASSUME NEW w \in workers, WorkerFails(w)
        PROVE  Shape'
    <2>1. Rows' /\ Calling' /\ Host' /\ Working'
      BY <1>6 DEF WorkerFails, table, mgr, Rows, Calling, Host, Working
    <2> QED
      BY <1>6, <2>1 DEF WorkerFails, Fault, table
  <1> QED
    BY <1>1, <1>2, <1>3, <1>4, <1>5, <1>6
\* What a step of the processor makes of it.
ProcAt(pc, left, id, copy) == /\ proc' \in ProcType /\ proc'.pc = pc /\ proc'.left = left
                              /\ proc'.id = id /\ proc'.copy = copy

LEMMA StartEffect ==
    ASSUME Shape, StartPass
    PROVE  ProcAt("next", PendingRows, 0, Clear)
  <1>1. PendingRows \in SUBSET Nat
    BY DEF PendingRows, Shape, Rows
  <1>2. proc' = [IdleProc EXCEPT !.pc = "next", !.left = PendingRows]
    BY DEF StartPass
  <1> QED
    BY <1>1, <1>2, ClearType DEF IdleProc, ProcType, ProcAt

LEMMA TakeEffect ==
    ASSUME Shape, NEW r \in proc.left, TakeRow(r)
    PROVE  /\ Rows' /\ SameRows
           /\ proc'.pc \in {"next", "load"} /\ proc' \in ProcType
           /\ proc'.left \subseteq proc.left
           /\ proc'.pc = "load" => proc'.id = r
  <1>1. Rows' /\ SameRows
    BY ChangedRows DEF TakeRow, Shape
  <1>2. proc \in ProcType /\ r \in Nat
    BY DEF Shape, Working, ProcType
  <1>3. \/ proc' = [proc EXCEPT !.left = @ \ {r}]
        \/ proc' = [proc EXCEPT !.left = @ \ {r}, !.pc = "load", !.id = r]
    BY DEF TakeRow
  <1>4. proc.pc = "next"
    BY DEF TakeRow
  <1>5. CASE proc' = [proc EXCEPT !.left = @ \ {r}]
    BY <1>1, <1>2, <1>4, <1>5 DEF ProcType
  <1>6. CASE proc' = [proc EXCEPT !.left = @ \ {r}, !.pc = "load", !.id = r]
    <2>1. PICK S \in SUBSET Nat : S = proc.left \ {r}
      BY <1>2 DEF ProcType
    <2>2. proc' = [proc EXCEPT !.left = S, !.pc = "load", !.id = r]
      BY <1>6, <2>1
    <2>3. proc' \in ProcType /\ proc'.left = S /\ proc'.pc = "load" /\ proc'.id = r
      BY <1>2, <2>2 DEF ProcType
    <2> QED
      BY <1>1, <2>1, <2>3
  <1> QED
    BY <1>3, <1>5, <1>6

LEMMA RetryLoadEffect ==
    ASSUME Shape, RetryLoad
    PROVE  /\ Rows' /\ SameRows /\ proc'.left = proc.left
           /\ \/ /\ ProcAt("write", proc.left, proc.id, group)
                 /\ rows[proc.id].m \in Commits \/ rows[proc.id].m \notin group.used
              \/ ProcAt("next", proc.left, 0, proc.copy)
  <1>1. proc \in ProcType /\ group \in Group /\ proc.pc = "load"
    BY DEF Shape, Working, RetryLoad
  <1>2. CASE Outcome(group, rows[proc.id].m) = "ok"
    <2>1. rows[proc.id].m \in Commits \/ rows[proc.id].m \notin group.used
      BY <1>2 DEF Outcome
    <2>2. proc' = [proc EXCEPT !.pc = "write", !.copy = group] /\ UNCHANGED rows
      BY <1>2 DEF RetryLoad
    <2>3. ProcAt("write", proc.left, proc.id, group)
      BY <1>1, <2>2 DEF ProcType, ProcAt
    <2>4. Rows' /\ SameRows
      BY <2>2 DEF RetryLoad, Shape, Rows, SameRows
    <2> QED
      BY <2>1, <2>3, <2>4 DEF ProcAt
  <1>3. CASE Outcome(group, rows[proc.id].m) # "ok"
    <2>1. proc' = [proc EXCEPT !.pc = "next", !.id = 0]
      BY <1>3 DEF RetryLoad
    <2>2. UNCHANGED rows \/ MarkFailed({proc.id})
      BY <1>3 DEF RetryLoad
    <2>3. host' = host
      BY DEF RetryLoad
    <2>4. Rows' /\ SameRows
      BY <2>2, <2>3, ChangedRows DEF Shape, Rows, SameRows
    <2>5. ProcAt("next", proc.left, 0, proc.copy)
      BY <1>1, <2>1 DEF ProcType, ProcAt
    <2> QED
      BY <2>4, <2>5 DEF ProcAt
  <1> QED
    BY <1>2, <1>3

LEMMA RetryWriteEffect ==
    ASSUME Shape, RetryWrite
    PROVE  ProcAt("save", proc.left, proc.id, Clear)
  BY ClearType DEF Shape, Working, RetryWrite, ProcType, ProcAt

LEMMA RetrySaveEffect ==
    ASSUME Shape, RetrySave
    PROVE  ProcAt("mark", proc.left, proc.id, proc.copy)
  BY DEF Shape, Working, RetrySave, ProcType, ProcAt

LEMMA RetryMarkEffect ==
    ASSUME Shape, RetryMark
    PROVE  ProcAt("next", proc.left, 0, proc.copy) /\ Rows' /\ SameRows
  <1>1. Rows' /\ SameRows
    BY ChangedRows DEF RetryMark, Shape
  <1>2. ProcAt("next", proc.left, 0, proc.copy)
    BY DEF Shape, Working, RetryMark, ProcType, ProcAt
  <1> QED
    BY <1>1, <1>2

LEMMA PassFailsEffect ==
    ASSUME PassFails
    PROVE  ProcAt("next", {}, 0, Clear)
  BY ClearType DEF PassFails, IdleProc, ProcType, ProcAt

Processing == \/ StartPass \/ RetryLoad \/ RetryWrite \/ RetrySave \/ RetryMark \/ Cleanup \/ PassFails
              \/ \E r \in proc.left : TakeRow(r)

LEMMA ProcessingInApp ==
    ASSUME Shape, Processing
    PROVE  host = "app" /\ UNCHANGED <<host, clock, arrivals, workers, memory, call>>
  <1>1. host = "app" \/ proc = IdleProc
    BY DEF Shape, Host
  <1>2. host = "app"
    BY <1>1, IdleTypes DEF Processing, StartPass, RetryLoad, RetryWrite, RetrySave, RetryMark,
         Cleanup, PassFails, TakeRow
  <1> QED
    BY <1>2 DEF Processing, StartPass, RetryLoad, RetryWrite, RetrySave, RetryMark,
         Cleanup, PassFails, TakeRow, mgr, table

LEMMA ShapeProcessor ==
    ASSUME Shape, Processing
    PROVE  Shape'
  <1>1. host = "app" /\ UNCHANGED <<host, clock, arrivals, workers, memory, call>>
    BY ProcessingInApp
  <1>2. Calling' /\ Host'
    BY <1>1 DEF Shape, Calling, Host
  <1>3. CASE StartPass
    <2>1. UNCHANGED <<group, rows, given, clobbered, faults>>
      BY <1>3 DEF StartPass, table
    <2>2. Working'
      BY <1>1, <1>3, <2>1, StartEffect DEF Shape, Working, ProcAt, PendingRows
    <2> QED
      BY <1>1, <1>2, <2>1, <2>2 DEF Shape, Counters, Rows
  <1>4. ASSUME NEW r \in proc.left, TakeRow(r)
        PROVE  Shape'
    <2>1. UNCHANGED <<group, given, clobbered, faults>>
      BY <1>4 DEF TakeRow
    <2>2. Working' /\ Rows'
      BY <1>1, <1>4, TakeEffect DEF Shape, Working, SameRows
    <2> QED
      BY <1>1, <1>2, <2>1, <2>2 DEF Shape, Counters
  <1>5. CASE RetryLoad
    <2>1. UNCHANGED <<group, given, clobbered, faults>>
      BY <1>5 DEF RetryLoad
    <2>2. proc.pc = "load"
      BY <1>5 DEF RetryLoad
    <2>3. Working' /\ Rows'
      BY <1>1, <1>5, <2>2, RetryLoadEffect DEF Shape, Working, SameRows, ProcAt
    <2> QED
      BY <1>1, <1>2, <2>1, <2>3 DEF Shape, Counters
  <1>6. CASE RetryWrite
    <2>1. UNCHANGED <<rows, given, faults>> /\ proc.pc = "write"
      BY <1>6 DEF RetryWrite, table
    <2>2. group' \in Group /\ clobbered' \in BOOLEAN
      BY <1>6, <2>1, WrittenGroup DEF RetryWrite, Shape, Counters, Working, Rows, ProcType, RowType
    <2>3. Working'
      BY <1>1, <1>6, <2>1, RetryWriteEffect DEF Shape, Working, ProcAt
    <2> QED
      BY <1>1, <1>2, <2>1, <2>2, <2>3 DEF Shape, Counters, Rows
  <1>7. CASE RetrySave
    <2>1. UNCHANGED <<rows, group, clobbered, faults>> /\ proc.pc = "save"
      BY <1>7 DEF RetrySave, table
    <2>2. given' \in [Apps -> Nat]
      BY <1>1, <1>7, <2>1, ShownType DEF RetrySave, Shape, Working, Rows
    <2>3. Working'
      BY <1>1, <1>7, <2>1, RetrySaveEffect DEF Shape, Working, ProcAt
    <2> QED
      BY <1>1, <1>2, <2>1, <2>2, <2>3 DEF Shape, Counters, Rows
  <1>8. CASE RetryMark
    <2>1. UNCHANGED <<group, given, clobbered, faults>>
      BY <1>8 DEF RetryMark
    <2>2. Working' /\ Rows'
      BY <1>1, <1>8, RetryMarkEffect DEF Shape, Working, SameRows, ProcAt
    <2> QED
      BY <1>1, <1>2, <2>1, <2>2 DEF Shape, Counters
  <1>9. CASE Cleanup
    <2>1. UNCHANGED <<group, given, clobbered, faults>> /\ proc' = IdleProc
      BY <1>9 DEF Cleanup
    <2>2. Rows'
      BY <1>1, <1>9, DeletedRows DEF Cleanup, Shape
    <2>3. Working'
      BY <1>1, <2>1, IdleTypes DEF Shape, Working
    <2> QED
      BY <1>1, <1>2, <2>1, <2>2, <2>3 DEF Shape, Counters
  <1>10. CASE PassFails
    <2>1. UNCHANGED <<rows, group, given, clobbered>> /\ faults' = faults + 1
      BY <1>10 DEF PassFails, table, Fault
    <2>2. Working'
      BY <1>1, <1>10, <2>1, PassFailsEffect DEF Shape, Working, ProcAt
    <2> QED
      BY <1>1, <1>2, <2>1, <2>2 DEF Shape, Counters, Rows
  <1> QED
    BY <1>3, <1>4, <1>5, <1>6, <1>7, <1>8, <1>9, <1>10 DEF Processing

Managing == \/ Push \/ Return \/ Expire \/ CallFails
            \/ \E m \in Items : Receive(m)
            \/ \E c \in call.left : RetryCandidate(c)

LEMMA ManagingElsewhere ==
    ASSUME Shape, Managing
    PROVE  /\ host # "app" /\ workers = {} /\ proc = IdleProc
           /\ UNCHANGED <<host, clock, workers, proc>>
  <1>1. host # "app" \/ call = IdleCall
    BY DEF Shape, Host
  <1>2. host # "app"
    BY <1>1, IdleTypes DEF Managing, Push, Return, Expire, CallFails, Receive, RetryCandidate
  <1> QED
    BY <1>2 DEF Managing, Push, Return, Expire, CallFails, Receive, RetryCandidate, Shape, Host, app

\* A call that is received: opened, put aside, or refused.
LEMMA ReceiveEffect ==
    ASSUME Shape, NEW m \in Items, Receive(m)
    PROVE  /\ Rows' /\ Calling' /\ group' \in Group /\ clobbered' \in BOOLEAN
           /\ \/ /\ m \in Commits \/ m \notin group.used
                 /\ WriteGroup(group, m) /\ call'.pc = "pass" /\ call'.m = m
              \/ UNCHANGED <<group, clobbered>> /\ call'.pc # "pass"
  <1> USE DEF Shape, Counters
  <1>0. host # "app" /\ host' = host
    <2>1. Managing
      BY DEF Managing
    <2> QED
      BY <2>1, ManagingElsewhere
  <1>4. arrivals + 1 \in Nat /\ clock \in Nat /\ Rows
    OBVIOUS
  <1>1. CASE Outcome(group, m) = "ok" /\ WriteGroup(group, m) /\ UNCHANGED rows
             /\ call' = [pc |-> "pass", m |-> m, left |-> Candidates, from |-> group'.epoch]
    <2>1. m \in Commits \/ m \notin group.used
      BY <1>1 DEF Outcome
    <2>2. Rows'
      BY <1>1 DEF Receive, Rows
    <2>3. Calling'
      BY <1>1, CandidateItems DEF Calling
    <2> QED
      BY <1>1, <2>1, <2>2, <2>3, WrittenGroup
  <1>2. CASE Insert(arrivals + 1, m, clock) /\ UNCHANGED <<group, clobbered>>
             /\ call' = [IdleCall EXCEPT !.pc = "push", !.m = m]
    <2>1. Rows'
      BY <1>0, <1>4, <1>2, InsertRows
    <2>2. call' = [pc |-> "push", m |-> m, left |-> {}, from |-> 0]
      BY <1>2 DEF IdleCall
    <2>3. Calling' /\ call'.pc = "push"
      BY <2>2 DEF Calling
    <2> QED
      BY <1>2, <2>1, <2>3
  <1>3. CASE UNCHANGED <<group, clobbered, rows, call>>
    BY <1>3 DEF Receive, Rows, Calling
  <1> QED
    BY <1>1, <1>2, <1>3 DEF Receive, ProcessIncoming
\* A candidate of the pass: opened, or left as it was.
LEMMA RetryEffect ==
    ASSUME Shape, NEW c \in call.left, RetryCandidate(c)
    PROVE  /\ Rows' /\ Calling' /\ SameRows
           /\ \/ /\ c.m \in Commits \/ c.m \notin group.used
                 /\ WriteGroup(group, c.m)
              \/ UNCHANGED <<group, clobbered>>
           /\ call.pc = "pass" /\ call'.pc = "pass" /\ call'.m = call.m
  <1>1. host' = host /\ call.pc = "pass"
    BY DEF RetryCandidate
  <1>2. \/ WriteGroup(group, c.m) /\ Outcome(group, c.m) = "ok"
        \/ UNCHANGED <<group, clobbered>>
    BY DEF RetryCandidate
  <1>3. \/ MarkFailed(RowsOf(c.m))
        \/ MarkProcessed({r \in RowsOf(c.m) : ~rows[r].processed})
        \/ IncrementRetry(RowsOf(c.m))
        \/ Exhaust(RowsOf(c.m))
    BY DEF RetryCandidate
  <1>4. Rows' /\ SameRows
    BY <1>1, <1>3, ChangedRows DEF Shape
  <1>5. call' = [call EXCEPT !.left = @ \ {c}]
    BY DEF RetryCandidate
  <1>6. call' = [pc |-> call.pc, m |-> call.m, left |-> call.left \ {c}, from |-> call.from]
    BY <1>5 DEF Shape, Calling
  <1>7. Calling' /\ call'.pc = "pass" /\ call'.m = call.m
    BY <1>1, <1>6 DEF Shape, Calling
  <1> QED
    BY <1>1, <1>2, <1>4, <1>7 DEF Outcome

LEMMA ShapeManager ==
    ASSUME Shape, Managing
    PROVE  Shape'
  <1>1. /\ host # "app" /\ workers = {} /\ proc = IdleProc
        /\ UNCHANGED <<host, clock, workers, proc>>
    BY ManagingElsewhere
  <1>2. Working' /\ Host'
    BY <1>1, IdleTypes DEF Working, Host
  <1>3. CASE Push
    <2>1. UNCHANGED <<group, rows, arrivals, given, clobbered, faults>> /\ call' = IdleCall
      BY <1>3 DEF Push, table
    <2>2. Calling'
      BY <2>1, IdleTypes DEF Calling
    <2> QED
      BY <1>1, <1>2, <2>1, <2>2 DEF Shape, Counters, Rows
  <1>4. CASE Return
    <2>1. UNCHANGED <<group, rows, arrivals, clobbered, faults>> /\ call' = IdleCall
      BY <1>4 DEF Return, table
    <2>2. Calling'
      BY <2>1, IdleTypes DEF Calling
    <2>3. given' \in [Apps -> Nat]
      BY <1>4, ShownType DEF Return, Shape
    <2> QED
      BY <1>1, <1>2, <2>1, <2>2, <2>3 DEF Shape, Counters, Rows
  <1>5. CASE Expire
    <2>1. UNCHANGED <<group, arrivals, call, given, clobbered, faults>>
      BY <1>5 DEF Expire
    <2>2. Rows'
      BY <1>1, <1>5, DeletedRows DEF Expire, Shape
    <2> QED
      BY <1>1, <1>2, <2>1, <2>2 DEF Shape, Counters, Calling
  <1>6. CASE CallFails
    <2>1. UNCHANGED <<group, rows, arrivals, given, clobbered>> /\ call' = IdleCall
          /\ faults' = faults + 1
      BY <1>6 DEF CallFails, table, Fault
    <2>2. Calling'
      BY <2>1, IdleTypes DEF Calling
    <2> QED
      BY <1>1, <1>2, <2>1, <2>2 DEF Shape, Counters, Rows
  <1>7. ASSUME NEW m \in Items, Receive(m)
        PROVE  Shape'
    <2>1. UNCHANGED <<given, faults>> /\ arrivals' = arrivals + 1
      BY <1>7 DEF Receive, Arrive
    <2> QED
      BY <1>1, <1>2, <1>7, <2>1, ReceiveEffect DEF Shape, Counters
  <1>8. ASSUME NEW c \in call.left, RetryCandidate(c)
        PROVE  Shape'
    <2>1. UNCHANGED <<given, faults, arrivals>>
      BY <1>8 DEF RetryCandidate
    <2>2. c.m \in Items
      BY DEF Shape, Calling
    <2>3. group' \in Group /\ clobbered' \in BOOLEAN
      BY <1>8, <2>2, RetryEffect, WrittenGroup DEF Shape, Counters
    <2> QED
      BY <1>1, <1>2, <1>8, <2>1, <2>3, RetryEffect DEF Shape, Counters
  <1> QED
    BY <1>3, <1>4, <1>5, <1>6, <1>7, <1>8 DEF Managing

Handling == \/ \E m \in Items : HandOver(m)
            \/ \E w \in workers : Load(w) \/ Write(w) \/ Save(w) \/ Buffer(w) \/ WorkerFails(w)

LEMMA Steps == Next <=> Tick \/ Restart \/ Handling \/ Processing \/ Managing
  BY DEF Next, Handling, Processing, Managing

LEMMA RestartEffect ==
    ASSUME Restart
    PROVE  /\ workers' = {} /\ proc' = IdleProc /\ call' = IdleCall /\ faults' = faults + 1
           /\ UNCHANGED <<host, clock, group, rows, arrivals, given, clobbered>>
  BY DEF Restart, Fault, table

LEMMA TickEffect ==
    ASSUME Tick
    PROVE  /\ clock' = clock + 1
           /\ UNCHANGED <<host, group, rows, arrivals, workers, proc, call, given, clobbered, faults>>
  BY DEF Tick, table, app, mgr

LEMMA ShapeStep ==
    ASSUME Shape, [Next]_vars
    PROVE  Shape'
  <1>1. CASE Tick
    BY <1>1, TickEffect DEF Shape, Counters, Rows, Working, Calling, Host
  <1>2. CASE Restart
    <2>1. Working' /\ Calling' /\ Host'
      BY <1>2, RestartEffect, IdleTypes DEF Working, Calling, Host
    <2> QED
      BY <1>2, <2>1, RestartEffect DEF Shape, Counters, Rows
  <1>3. CASE Handling
    BY <1>3, ShapeHandlers DEF Handling
  <1>4. CASE UNCHANGED vars
    BY <1>4 DEF vars, Shape, Counters, Rows, Working, Calling, Host
  <1> QED
    BY <1>1, <1>2, <1>3, <1>4, ShapeProcessor, ShapeManager, Steps
-----------------------------------------------------------------------------
(* Copies *)

LEMMA CopiesStep ==
    ASSUME Shape, Copies, [Next]_vars
    PROVE  Copies'
  <1>1. ASSUME NEW m \in Items, HandOver(m)
        PROVE  Copies'
    BY <1>1 DEF HandOver, Worker, Copies
  <1>2. ASSUME NEW w \in workers, Load(w)
        PROVE  Copies'
    <2>1. w \in WorkerType /\ group \in Group /\ UNCHANGED <<proc, rows>>
      BY <1>2 DEF Shape, Working, Load, table
    <2> QED
      BY <1>2, <2>1, LoadEffect DEF Copies, Turned
  <1>3. ASSUME NEW w \in workers, Write(w)
        PROVE  Copies'
    <2>1. w \in WorkerType /\ UNCHANGED <<proc, rows>>
      BY <1>3 DEF Shape, Working, Write, table
    <2> QED
      BY <1>3, <2>1, WriteEffect DEF Copies, Turned
  <1>4. ASSUME NEW w \in workers, Save(w) \/ WorkerFails(w)
        PROVE  Copies'
    BY <1>4 DEF Save, WorkerFails, Copies, table
  <1>5. ASSUME NEW w \in workers, Buffer(w)
        PROVE  Copies'
    <2>1. workers' \subseteq workers /\ proc' = proc /\ \A r \in DOMAIN rows : rows'[r] = rows[r]
      BY <1>5 DEF Buffer, Insert
    <2> QED
      BY <2>1 DEF Copies, Shape, Working
  <1>6. CASE Processing
    <2>1. host = "app" /\ workers' = workers
      BY <1>6, ProcessingInApp
    <2>2. CASE RetryLoad
      <3>1. proc.id \in DOMAIN rows /\ rows[proc.id].m \notin Commits
        BY <2>1, <2>2 DEF RetryLoad, Shape, Working, Rows, Apps
      <3> QED
        BY <2>1, <2>2, <3>1, RetryLoadEffect DEF Copies, ProcAt, SameRows
    <2>3. CASE ~RetryLoad
      <3>1. proc'.pc # "write"
        BY <1>6, <2>3, StartEffect, TakeEffect, RetryWriteEffect, RetrySaveEffect,
           RetryMarkEffect, PassFailsEffect, IdleTypes DEF Processing, ProcAt, Cleanup
      <3> QED
        BY <2>1, <3>1 DEF Copies
    <2> QED
      BY <2>2, <2>3
  <1>7. CASE Managing
    BY <1>7, ManagingElsewhere, IdleTypes DEF Copies
  <1>8. CASE Restart
    BY <1>8, RestartEffect, IdleTypes DEF Copies
  <1>9. CASE Tick
    BY <1>9, TickEffect DEF Copies
  <1>10. CASE UNCHANGED vars
    BY <1>10 DEF vars, Copies
  <1> QED
    BY <1>1, <1>2, <1>3, <1>4, <1>5, <1>6, <1>7, <1>8, <1>9, <1>10, Steps DEF Handling
-----------------------------------------------------------------------------
(* Once *)

\* A step that shows nothing, and puts nothing into anybody's hands.
LEMMA QuietOnce ==
    ASSUME Once, given' = given, ~clobbered' => ~clobbered /\ group.used \subseteq group'.used,
           \A w \in workers' : w.pc = "save" => w \in workers,
           \A m \in Apps : OfProc(m)' => OfProc(m),
           \A m \in Apps : OfCall(m)' => OfCall(m),
           Shape'
    PROVE  Once'
  <1> SUFFICES ASSUME ~clobbered' PROVE Shown' /\ Savers' /\ Others'
    BY DEF Once
  <1>1. Shown'
    BY DEF Once, Shown
  <1>2. Others'
    BY DEF Once, Others, Unshown
  <1>3. ASSUME NEW w \in workers', w.pc = "save"
        PROVE  /\ Unshown(w.m)'
               /\ \A v \in workers' : v.pc = "save" /\ v.m = w.m => v = w
               /\ ~OfProc(w.m)'
    <2>1. w \in workers /\ w.m \in Apps
      BY <1>3 DEF Shape, Working
    <2> QED
      BY <1>3, <2>1 DEF Once, Savers, Unshown
  <1> QED
    BY <1>1, <1>2, <1>3 DEF Savers

LEMMA OnceHandling ==
    ASSUME Shape, Shape', Copies, Once, Handling
    PROVE  Once'
  <1>0. UNCHANGED <<proc, call>>
    BY DEF Handling, HandOver, Load, Write, Save, Buffer, WorkerFails, mgr
  <1>1. \A m : OfCall(m)' => OfCall(m)
    BY <1>0 DEF OfCall
  <1>2. ASSUME UNCHANGED rows
        PROVE  \A m : OfProc(m)' <=> OfProc(m)
    BY <1>0, <1>2 DEF OfProc
  <1>3. ASSUME NEW m \in Items, HandOver(m)
        PROVE  Once'
    <2>1. \A w \in workers' : w.pc = "save" => w \in workers
      BY <1>3 DEF HandOver, Worker
    <2>2. UNCHANGED <<group, rows, given, clobbered>>
      BY <1>3 DEF HandOver
    <2> QED
      BY <1>1, <1>2, <2>1, <2>2, QuietOnce
  <1>4. ASSUME NEW w \in workers, Load(w)
        PROVE  Once'
    <2>1. w \in WorkerType /\ group \in Group
      BY DEF Shape, Working
    <2>2. \A v \in workers' : v.pc = "save" => v \in workers
      BY <1>4, <2>1, LoadEffect DEF Turned
    <2>3. UNCHANGED <<group, rows, given, clobbered>>
      BY <1>4 DEF Load, table
    <2> QED
      BY <1>1, <1>2, <2>2, <2>3, QuietOnce
  <1>5. ASSUME NEW w \in workers, Buffer(w) \/ WorkerFails(w)
        PROVE  Once'
    <2>1. \A v \in workers' : v.pc = "save" => v \in workers
      BY <1>5 DEF Buffer, WorkerFails
    <2>2. UNCHANGED <<group, given, clobbered>> /\ \A r \in DOMAIN rows : rows'[r] = rows[r]
      BY <1>5 DEF Buffer, WorkerFails, table, Insert
    <2>3. \A m : OfProc(m)' => OfProc(m)
      BY <1>0, <2>2 DEF OfProc, Shape, Working
    <2> QED
      BY <1>1, <2>1, <2>2, <2>3, QuietOnce
  <1>6. ASSUME NEW w \in workers, Write(w)
        PROVE  Once'
    <2> SUFFICES ASSUME ~clobbered' PROVE Shown' /\ Savers' /\ Others'
      BY DEF Once
    <2>1. w \in WorkerType /\ w.copy \in Group /\ w.m \in Items /\ w.pc = "write"
      BY <1>6 DEF Shape, Working, WorkerType, Write
    <2>2. UNCHANGED <<rows, given>> /\ WriteGroup(w.copy, w.m)
      BY <1>6 DEF Write, table
    <2>3. /\ ~clobbered /\ w.copy = group
          /\ group'.used = IF w.m \in Commits THEN group.used ELSE group.used \cup {w.m}
      BY <2>1, <2>2, WrittenGroup DEF Shape, Counters
    <2>4. w.m \in Commits \/ w.m \notin group.used
      BY <2>1, <2>3 DEF Copies
    <2>5. Shown /\ Savers /\ Others
      BY <2>3 DEF Once
    <2>6. Shown'
      BY <2>2, <2>3, <2>5 DEF Shown
    <2>7. Others'
      BY <1>1, <1>2, <2>2, <2>3, <2>5 DEF Others, Unshown
    <2>8. CASE w.m \in Commits /\ workers' = workers \ {w}
      <3>1. \A m : Unshown(m) => Unshown(m)'
        BY <2>2, <2>3, <2>8 DEF Unshown
      <3> QED
        BY <1>2, <2>2, <2>5, <2>6, <2>7, <2>8, <3>1 DEF Savers
    <2>9. ASSUME w.m \in Apps, NEW v, Turned(w, v), v.pc = "save"
          PROVE  Savers'
      <3>1. workers' = (workers \ {w}) \cup {v} /\ v.m = w.m /\ w.m \notin group.used /\ w.m \notin Commits
        BY <2>4, <2>9 DEF Turned, Apps
      <3>2. Unshown(w.m)' /\ ~OfProc(w.m)'
        BY <1>2, <2>2, <2>3, <2>5, <2>9, <3>1 DEF Unshown, Shown, Others, Shape
      <3>3. \A u \in workers : u.pc = "save" => u.m # w.m /\ Unshown(u.m)'
        BY <2>2, <2>3, <2>5, <3>1 DEF Savers, Unshown
      <3> QED
        BY <1>2, <2>2, <2>5, <3>1, <3>2, <3>3 DEF Savers
    <2> QED
      BY <1>6, <2>1, <2>6, <2>7, <2>8, <2>9, WriteEffect
  <1>7. ASSUME NEW w \in workers, Save(w)
        PROVE  Once'
    <2> SUFFICES ASSUME ~clobbered' PROVE Shown' /\ Savers' /\ Others'
      BY DEF Once
    <2>1. /\ UNCHANGED <<group, rows, clobbered>> /\ Show(w.m) /\ w.pc = "save"
          /\ workers' = workers \ {w}
      BY <1>7 DEF Save, table
    <2>2. w.m \in Apps /\ given \in [Apps -> Nat]
      BY <2>1 DEF Shape, Working
    <2>3. given'[w.m] = given[w.m] + 1 /\ \A m \in Apps : m # w.m => given'[m] = given[m]
      BY <2>1, <2>2, ShownType
    <2>4. Shown /\ Savers /\ Others
      BY <2>1 DEF Once
    <2>5. Unshown(w.m) /\ ~OfProc(w.m) /\ \A v \in workers' : v.pc = "save" => v.m # w.m
      BY <2>1, <2>4 DEF Savers
    <2>6. Shown'
      BY <2>1, <2>2, <2>3, <2>4, <2>5 DEF Shown, Unshown
    <2>7. \A v \in workers' : v.pc = "save" => v.m \in Apps
      BY DEF Shape, Working
    <2>8. Savers'
      BY <1>2, <2>1, <2>3, <2>4, <2>5, <2>7 DEF Savers, Unshown
    <2>9. \A m \in Apps : ~OfCall(m)
      BY <2>1, IdleTypes DEF OfCall, Shape, Host
    <2>10. Others'
      BY <1>1, <1>2, <2>1, <2>3, <2>4, <2>5, <2>9 DEF Others, Unshown
    <2> QED
      BY <2>6, <2>8, <2>10
  <1> QED
    BY <1>3, <1>4, <1>5, <1>6, <1>7 DEF Handling
LEMMA OnceProcessing ==
    ASSUME Shape, Shape', Copies, Once, Processing
    PROVE  Once'
  <1>0. host = "app" /\ UNCHANGED <<workers, call>> /\ \A m \in Apps : ~OfCall(m)'
    BY ProcessingInApp, IdleTypes DEF OfCall, Shape, Host
  <1>1. CASE RetryWrite
    <2> SUFFICES ASSUME ~clobbered' PROVE Shown' /\ Savers' /\ Others'
      BY DEF Once
    <2>0. PICK m : m = rows[proc.id].m
      OBVIOUS
    <2>1. proc.pc = "write" /\ UNCHANGED <<rows, given>> /\ WriteGroup(proc.copy, m)
      BY <1>1, <2>0 DEF RetryWrite, table
    <2>2. m \in Apps /\ m \in Items /\ m \notin Commits /\ proc.copy \in Group
      BY <1>0, <2>0, <2>1 DEF Shape, Working, Rows, Apps, ProcType
    <2>3. ~clobbered /\ proc.copy = group /\ group'.used = group.used \cup {m}
      BY <2>1, <2>2, WrittenGroup DEF Shape, Counters
    <2>4. m \notin group.used
      BY <2>0, <2>1, <2>3 DEF Copies
    <2>5. Shown /\ Savers /\ Others
      BY <2>3 DEF Once
    <2>6. \A k \in Apps : OfProc(k)' <=> k = m
      BY <1>1, <2>0, <2>1, RetryWriteEffect DEF OfProc, ProcAt
    <2>7. \A k \in Apps : Unshown(k) => Unshown(k)' /\ k # m
      BY <2>1, <2>3, <2>4 DEF Unshown
    <2>8. Unshown(m)'
      BY <2>1, <2>2, <2>3, <2>4, <2>5 DEF Unshown, Shown
    <2>9. Shown'
      BY <2>1, <2>3, <2>5 DEF Shown
    <2>10. Others'
      BY <1>0, <2>6, <2>8 DEF Others
    <2>11. \A w \in workers : w.pc = "save" => w.m \in Apps
      BY DEF Shape, Working
    <2>12. Savers'
      BY <1>0, <2>5, <2>6, <2>7, <2>11 DEF Savers
    <2> QED
      BY <2>9, <2>10, <2>12
  <1>2. CASE RetrySave
    <2> SUFFICES ASSUME ~clobbered' PROVE Shown' /\ Savers' /\ Others'
      BY DEF Once
    <2>0. PICK m : m = rows[proc.id].m
      OBVIOUS
    <2>1. proc.pc = "save" /\ UNCHANGED <<rows, group, clobbered>> /\ Show(m)
      BY <1>2, <2>0 DEF RetrySave, table
    <2>2. m \in Apps /\ given \in [Apps -> Nat]
      BY <1>0, <2>0, <2>1 DEF Shape, Working, Rows
    <2>3. given'[m] = given[m] + 1 /\ \A k \in Apps : k # m => given'[k] = given[k]
      BY <2>1, <2>2, ShownType
    <2>4. Shown /\ Savers /\ Others
      BY <2>1 DEF Once
    <2>5. OfProc(m)
      BY <2>0, <2>1 DEF OfProc
    <2>6. Unshown(m) /\ \A w \in workers : w.pc = "save" => w.m # m
      BY <2>2, <2>4, <2>5 DEF Others, Savers
    <2>7. \A k : ~OfProc(k)'
      BY <1>2, RetrySaveEffect DEF OfProc, ProcAt
    <2>8. Shown'
      BY <2>1, <2>2, <2>3, <2>4, <2>6 DEF Shown, Unshown
    <2>9. \A w \in workers : w.pc = "save" => w.m \in Apps
      BY DEF Shape, Working
    <2>10. Savers'
      BY <1>0, <2>1, <2>3, <2>4, <2>6, <2>7, <2>9 DEF Savers, Unshown
    <2>11. Others'
      BY <1>0, <2>7 DEF Others
    <2> QED
      BY <2>8, <2>10, <2>11
  <1>3. CASE ~RetryWrite /\ ~RetrySave
    <2>1. UNCHANGED <<group, given, clobbered>>
      BY <1>3 DEF Processing, StartPass, TakeRow, RetryLoad, RetryMark, Cleanup, PassFails, table
    <2>2. proc'.pc # "save"
      BY <1>3, StartEffect, TakeEffect, RetryLoadEffect, RetryMarkEffect, PassFailsEffect,
         IdleTypes DEF Processing, ProcAt, Cleanup
    <2> QED
      BY <1>0, <2>1, <2>2, QuietOnce DEF OfProc
  <1> QED
    BY <1>1, <1>2, <1>3

LEMMA OnceManaging ==
    ASSUME Shape, Shape', Once, Managing
    PROVE  Once'
  <1>0. workers = {} /\ UNCHANGED workers /\ proc = IdleProc /\ UNCHANGED proc
    BY ManagingElsewhere
  <1>1. Savers' /\ \A m : ~OfProc(m)'
    BY <1>0, IdleTypes DEF Savers, OfProc
  <1>2. ASSUME NEW m \in Items, Receive(m)
        PROVE  Once'
    <2>1. given' = given /\ call.pc = "idle"
      BY <1>2 DEF Receive
    <2>2. CASE UNCHANGED <<group, clobbered>> /\ call'.pc # "pass"
      BY <1>0, <1>1, <2>1, <2>2, QuietOnce DEF OfCall
    <2>3. CASE /\ m \in Commits \/ m \notin group.used
               /\ WriteGroup(group, m) /\ call'.pc = "pass" /\ call'.m = m
      <3> SUFFICES ASSUME ~clobbered' PROVE Shown' /\ Others'
        BY <1>1 DEF Once
      <3>1. /\ ~clobbered
            /\ group'.used = IF m \in Commits THEN group.used ELSE group.used \cup {m}
        BY <2>3, WrittenGroup DEF Shape, Counters
      <3>2. Shown
        BY <3>1 DEF Once
      <3>3. Shown'
        BY <2>1, <3>1, <3>2 DEF Shown
      <3>4. m \in Apps => Unshown(m)'
        BY <2>1, <2>3, <3>1, <3>2 DEF Unshown, Shown, Apps
      <3> QED
        BY <1>1, <2>3, <3>3, <3>4 DEF Others, OfCall
    <2> QED
      BY <1>2, <2>2, <2>3, ReceiveEffect
  <1>3. ASSUME NEW c \in call.left, RetryCandidate(c)
        PROVE  Once'
    <2>1. c.m \in Items /\ given' = given
      BY <1>3 DEF RetryCandidate, Shape, Calling
    <2>2. ~clobbered' => ~clobbered /\ group.used \subseteq group'.used
      BY <1>3, <2>1, RetryEffect, WrittenGroup DEF Shape, Counters
    <2>3. \A m : OfCall(m)' => OfCall(m)
      BY <1>3, RetryEffect DEF OfCall
    <2> QED
      BY <1>0, <1>1, <2>1, <2>2, <2>3, QuietOnce
  <1>4. CASE Return
    <2> SUFFICES ASSUME ~clobbered' PROVE Shown' /\ Others'
      BY <1>1 DEF Once
    <2>1. UNCHANGED <<group, clobbered>> /\ call.pc = "pass" /\ call' = IdleCall
      BY <1>4 DEF Return, table
    <2>2. Shown /\ Others
      BY <2>1 DEF Once
    <2>3. Others'
      BY <1>1, <2>1, IdleTypes DEF Others, OfCall
    <2>4. CASE call.m \in Apps /\ Show(call.m)
      <3>1. given \in [Apps -> Nat]
        BY DEF Shape
      <3>2. given'[call.m] = given[call.m] + 1 /\ \A k \in Apps : k # call.m => given'[k] = given[k]
        BY <2>4, <3>1, ShownType
      <3>3. Unshown(call.m)
        BY <2>1, <2>2, <2>4 DEF Others, OfCall
      <3>4. Shown'
        BY <2>1, <2>2, <3>2, <3>3 DEF Shown, Unshown
      <3> QED
        BY <2>3, <3>4
    <2>5. CASE UNCHANGED given
      BY <2>1, <2>2, <2>3, <2>5 DEF Shown
    <2> QED
      BY <1>4, <2>4, <2>5 DEF Return
  <1>5. CASE Push \/ Expire \/ CallFails
    <2>1. UNCHANGED <<group, given, clobbered>> /\ (call' = call \/ call' = IdleCall)
      BY <1>5 DEF Push, Expire, CallFails, table
    <2>2. \A m : OfCall(m)' => OfCall(m)
      BY <2>1, IdleTypes DEF OfCall
    <2> QED
      BY <1>0, <1>1, <2>1, <2>2, QuietOnce
  <1> QED
    BY <1>2, <1>3, <1>4, <1>5 DEF Managing

LEMMA OnceStep ==
    ASSUME Shape, Shape', Copies, Once, [Next]_vars
    PROVE  Once'
  <1>1. CASE Tick \/ UNCHANGED vars
    BY <1>1, TickEffect, QuietOnce DEF OfProc, OfCall, vars
  <1>2. CASE Restart
    BY <1>2, RestartEffect, IdleTypes, QuietOnce DEF OfProc, OfCall
  <1> QED
    BY <1>1, <1>2, OnceHandling, OnceProcessing, OnceManaging, Steps
-----------------------------------------------------------------------------
(* Spent keys *)

\* A step that is no fault leaves every message covered that was.
LEMMA CoveredStays ==
    ASSUME Shape, [Next]_vars, host = "app", faults' = faults, NEW m \in Apps, Covered(m)
    PROVE  Covered(m)'
  <1>0. faults \in Nat /\ given \in [Apps -> Nat]
    BY DEF Shape, Counters
  <1>1. ASSUME given' = given, \A w \in workers : w.pc = "save" => w \in workers',
               OfProc(m) => OfProc(m)'
        PROVE  Covered(m)'
    BY <1>1 DEF Covered
  <1>2. ASSUME NEW k \in Items, HandOver(k)
        PROVE  Covered(m)'
    BY <1>1, <1>2 DEF HandOver, OfProc
  <1>3. ASSUME NEW w \in workers, Load(w) \/ Write(w)
        PROVE  Covered(m)'
    <2>1. UNCHANGED <<given, proc, rows>> /\ workers \ {w} \subseteq workers' /\ w.pc # "save"
      BY <1>3 DEF Load, Write, Turn, table
    <2> QED
      BY <1>1, <2>1 DEF OfProc
  <1>4. ASSUME NEW w \in workers, Buffer(w)
        PROVE  Covered(m)'
    <2>1. UNCHANGED <<given, proc>> /\ workers \ {w} \subseteq workers' /\ w.pc # "save"
      BY <1>4 DEF Buffer
    <2>2. \A r \in DOMAIN rows : rows'[r] = rows[r]
      BY <1>4 DEF Buffer, Insert
    <2>3. OfProc(m) => OfProc(m)'
      BY <2>1, <2>2 DEF OfProc, Shape, Working
    <2> QED
      BY <1>1, <2>1, <2>3
  <1>5. ASSUME NEW w \in workers, Save(w)
        PROVE  Covered(m)'
    <2>1. w.m \in Apps /\ UNCHANGED <<proc, rows>> /\ workers' = workers \ {w} /\ Show(w.m)
      BY <1>5 DEF Save, Shape, Working, table
    <2>2. given'[w.m] = given[w.m] + 1 /\ \A k \in Apps : k # w.m => given'[k] = given[k]
      BY <1>0, <2>1, ShownType
    <2>3. CASE w.m = m
      BY <1>0, <2>2, <2>3 DEF Covered
    <2>4. CASE w.m # m
      BY <2>1, <2>2, <2>4 DEF Covered, OfProc
    <2> QED
      BY <2>3, <2>4
  <1>6. ASSUME NEW w \in workers, WorkerFails(w)
        PROVE  FALSE
    BY <1>0, <1>6 DEF WorkerFails, Fault
  <1>7. CASE Processing /\ ~RetrySave
    <2>1. UNCHANGED <<given, workers>>
      BY <1>7 DEF Processing, StartPass, TakeRow, RetryLoad, RetryWrite, RetryMark, Cleanup, PassFails
    <2>2. CASE PassFails
      BY <1>0, <2>2 DEF PassFails, Fault
    <2>3. CASE ~PassFails
      <3>1. proc.pc # "save"
        BY <1>7, <2>3 DEF Processing, StartPass, TakeRow, RetryLoad, RetryWrite, RetryMark, Cleanup
      <3> QED
        BY <1>1, <2>1, <3>1 DEF OfProc
    <2> QED
      BY <2>2, <2>3
  <1>8. CASE RetrySave
    <2>0. PICK k : k = rows[proc.id].m
      OBVIOUS
    <2>1. k \in Apps /\ UNCHANGED <<rows, workers>> /\ Show(k)
      BY <1>8, <2>0 DEF RetrySave, Shape, Working, Rows, table
    <2>2. given'[k] = given[k] + 1 /\ \A x \in Apps : x # k => given'[x] = given[x]
      BY <1>0, <2>1, ShownType
    <2>3. CASE k = m
      BY <1>0, <2>2, <2>3 DEF Covered
    <2>4. CASE k # m
      BY <2>0, <2>1, <2>2, <2>4 DEF Covered, OfProc
    <2> QED
      BY <2>3, <2>4
  <1>9. CASE Managing
    BY <1>9, ManagingElsewhere
  <1>10. CASE Restart
    BY <1>0, <1>10, RestartEffect
  <1>11. CASE Tick \/ UNCHANGED vars
    BY <1>1, <1>11, TickEffect DEF vars, OfProc
  <1> QED
    BY <1>2, <1>3, <1>4, <1>5, <1>6, <1>7, <1>8, <1>9, <1>10, <1>11, Steps DEF Handling, Processing

LEMMA SpentStep ==
    ASSUME Shape, Shape', Spent, [Next]_vars
    PROVE  Spent'
  <1> SUFFICES ASSUME host' = "app", faults' = 0
               PROVE  /\ \A m \in group'.used : Covered(m)'
                      /\ \A w \in workers' : w.pc = "write" => \A m \in w.copy.used : Covered(m)'
                      /\ proc'.pc = "write" => \A m \in proc'.copy.used : Covered(m)'
    BY DEF Spent
  <1>1. host = "app"
    BY TickEffect, RestartEffect, ProcessingInApp, ManagingElsewhere, Steps
    DEF vars, Handling, HandOver, Load, Write, Save, Buffer, WorkerFails
  <1>2. faults = 0
    <2>1. faults \in Nat /\ (faults' = faults \/ faults' = faults + 1)
      BY DEF Next, vars, Shape, Counters, Tick, Restart, HandOver, Receive, Load, Write, Save,
         Buffer, WorkerFails, StartPass, TakeRow, RetryLoad, RetryWrite, RetrySave, RetryMark,
         Cleanup, PassFails, Push, RetryCandidate, Return, Expire, CallFails, Fault
    <2> QED
      BY <2>1
  <1>3. /\ \A m \in group.used : Covered(m)
        /\ \A w \in workers : w.pc = "write" => \A m \in w.copy.used : Covered(m)
        /\ proc.pc = "write" => \A m \in proc.copy.used : Covered(m)
    BY <1>1, <1>2 DEF Spent
  <1>4. /\ group.used \subseteq Apps /\ group \in Group
        /\ \A w \in workers : w \in WorkerType /\ w.copy \in Group /\ w.copy.used \subseteq Apps
        /\ proc \in ProcType /\ proc.copy \in Group /\ proc.copy.used \subseteq Apps
    BY DEF Shape, Working, WorkerType, ProcType, Group
  <1>5. \A m \in Apps : Covered(m) => Covered(m)'
    BY <1>1, <1>2, CoveredStays
  <1>6. ASSUME UNCHANGED <<group, workers, proc>>
        PROVE  Spent'
    BY <1>3, <1>4, <1>5, <1>6 DEF Spent
  <1>7. ASSUME group' = group, proc' = proc,
               \A w \in workers' : w.pc = "write" => w \in workers \/ w.copy = group
        PROVE  Spent'
    BY <1>3, <1>4, <1>5, <1>7 DEF Spent
  <1>8. ASSUME NEW m \in Items, HandOver(m)
        PROVE  Spent'
    BY <1>7, <1>8 DEF HandOver, Worker
  <1>9. ASSUME NEW w \in workers, Load(w)
        PROVE  Spent'
    <2>1. group' = group /\ proc' = proc
      BY <1>9 DEF Load
    <2> QED
      BY <1>4, <1>7, <1>9, <2>1, LoadEffect DEF Turned
  <1>10. ASSUME NEW w \in workers, Save(w) \/ Buffer(w) \/ WorkerFails(w)
         PROVE  Spent'
    BY <1>7, <1>10 DEF Save, Buffer, WorkerFails
  <1>11. ASSUME NEW w \in workers, Write(w)
         PROVE  Spent'
    <2>1. w.pc = "write" /\ proc' = proc /\ w \in WorkerType /\ w.m \in Items /\ WriteGroup(w.copy, w.m)
      BY <1>11 DEF Write, Shape, Working, WorkerType
    <2>2. group'.used = IF w.m \in Commits THEN w.copy.used ELSE w.copy.used \cup {w.m}
      BY <1>4, <2>1, WrittenGroup DEF Shape, Counters
    <2>3. w.m \in Commits \/ Covered(w.m)'
      BY <1>11, <2>1, WriteEffect DEF Turned, Covered, Apps
    <2>4. \A m \in group'.used : Covered(m)'
      BY <1>3, <1>4, <1>5, <2>1, <2>2, <2>3
    <2>5. \A v \in workers' : v.pc = "write" => v \in workers
      BY <1>11, <2>1, WriteEffect DEF Turned
    <2> QED
      BY <1>3, <1>4, <1>5, <2>1, <2>4, <2>5 DEF Spent
  <1>12. CASE RetryWrite
    <2>0. PICK m : m = rows[proc.id].m
      OBVIOUS
    <2>1. proc.pc = "write" /\ UNCHANGED <<workers, rows>> /\ WriteGroup(proc.copy, m)
      BY <1>12, <2>0 DEF RetryWrite, table
    <2>2. m \in Items
      BY <2>0, <2>1 DEF Shape, Working, Rows, RowType
    <2>3. group'.used \subseteq proc.copy.used \cup {m}
      BY <1>4, <2>1, <2>2, WrittenGroup DEF Shape, Counters
    <2>4. Covered(m)' /\ proc'.pc = "save"
      BY <1>12, <2>0, <2>1, RetryWriteEffect DEF Covered, OfProc, ProcAt
    <2>5. \A k \in group'.used : Covered(k)'
      BY <1>3, <1>4, <1>5, <2>1, <2>3, <2>4
    <2> QED
      BY <1>3, <1>4, <1>5, <2>1, <2>4, <2>5 DEF Spent
  <1>13. CASE Processing /\ ~RetryWrite
    <2>1. UNCHANGED <<group, workers>>
      BY <1>13 DEF Processing, StartPass, TakeRow, RetryLoad, RetrySave, RetryMark, Cleanup, PassFails
    <2>2. proc'.pc = "write" => proc'.copy = group
      BY <1>13, StartEffect, TakeEffect, RetryLoadEffect, RetrySaveEffect, RetryMarkEffect,
         PassFailsEffect, IdleTypes DEF Processing, ProcAt, Cleanup
    <2> QED
      BY <1>3, <1>4, <1>5, <2>1, <2>2 DEF Spent
  <1>14. CASE Managing \/ Restart
    BY <1>1, <1>2, <1>14, ManagingElsewhere, RestartEffect
  <1>15. CASE Tick \/ UNCHANGED vars
    <2>1. Spent'
      BY <1>6, <1>15, TickEffect DEF vars
    <2> QED
      BY <2>1 DEF Spent
  <1>16. CASE Handling
    <2>1. Spent'
      BY <1>8, <1>9, <1>10, <1>11, <1>16 DEF Handling
    <2> QED
      BY <2>1 DEF Spent
  <1> QED
    BY <1>12, <1>13, <1>14, <1>15, <1>16, Steps

-----------------------------------------------------------------------------
(* The manager's pass *)

LEMMA CandidatesComplete ==
    ASSUME Rows
    PROVE  \A r \in PendingRows : \E c \in Candidates : c.m = rows[r].m
  <1> SUFFICES ASSUME NEW r \in PendingRows PROVE \E c \in Candidates : c.m = rows[r].m
    OBVIOUS
  <1>1. rows[r].m \in Items /\ r \in PendingOf(rows[r].m)
    BY DEF Rows, RowType, PendingRows, PendingOf, RowsOf
  <1>2. Candidate(rows[r].m) \in Candidates
    BY <1>1 DEF Candidates
  <1>3. Candidate(rows[r].m).m = rows[r].m
    BY DEF Candidate, Entry
  <1> QED
    BY <1>2, <1>3

LEMMA EpochMovesOn ==
    ASSUME group \in Group, NEW m \in Items, WriteGroup(group, m)
    PROVE  group'.epoch >= group.epoch /\ group.used \subseteq group'.used
  <1>1. CASE m \in Commits
    BY <1>1 DEF WriteGroup, Processed, Group
  <1>2. CASE m \notin Commits
    BY <1>2 DEF WriteGroup, Processed, Group
  <1> QED
    BY <1>1, <1>2

\* What the statements do to the rows that are pending.
Waits(row) == ~row.processed /\ ~row.failed

LEMMA ChangedWaits ==
    ASSUME NEW row \in RowType
    PROVE  /\ Waits(Counted(row)) => Waits(row)
           /\ Waits(Done(row)) => Waits(row)
           /\ ~Waits(Failed(row))
  <1>1. Waits(Counted(row)) => Waits(row)
    BY DEF RowType, Counted, Waits
  <1>2. Waits(Done(row)) => Waits(row)
    BY DEF RowType, Done, Waits
  <1>3. ~Waits(Failed(row))
    BY DEF RowType, Failed, Waits
  <1> QED
    BY <1>1, <1>2, <1>3

LEMMA ChangedPending ==
    ASSUME Rows, NEW S
    PROVE  /\ IncrementRetry(S) => PendingRows' \subseteq PendingRows
           /\ MarkProcessed(S) => PendingRows' \subseteq PendingRows
           /\ MarkFailed(S) => PendingRows' \subseteq PendingRows \ S
           /\ Exhaust(S) => PendingRows' \subseteq PendingRows \ S
  <1>1. \A r \in DOMAIN rows : rows[r] \in RowType /\ Counted(rows[r]) \in RowType
    BY ChangedRow DEF Rows
  <1>2. /\ PendingRows = {r \in DOMAIN rows : Waits(rows[r])}
        /\ PendingRows' = {r \in DOMAIN rows' : Waits(rows'[r])}
    BY DEF PendingRows, Pending, Waits
  <1>3. IncrementRetry(S) => PendingRows' \subseteq PendingRows
    BY <1>1, <1>2, ChangedWaits DEF IncrementRetry
  <1>4. MarkProcessed(S) => PendingRows' \subseteq PendingRows
    BY <1>1, <1>2, ChangedWaits DEF MarkProcessed
  <1>5. MarkFailed(S) => PendingRows' \subseteq PendingRows \ S
    BY <1>1, <1>2, ChangedWaits DEF MarkFailed
  <1>6. Exhaust(S) => PendingRows' \subseteq PendingRows \ S
    BY <1>1, <1>2, ChangedWaits DEF Exhaust
  <1> QED
    BY <1>3, <1>4, <1>5, <1>6

\* A candidate that is tried is not pending, or taken in, or not yet readable.
LEMMA TriedCandidate ==
    ASSUME Shape, NEW c \in call.left, RetryCandidate(c)
    PROVE  /\ PendingRows' \subseteq PendingRows
           /\ group'.epoch \in Nat /\ group'.epoch >= group.epoch /\ group.used \subseteq group'.used
           /\ \/ c.m \in Commits
              \/ \A r \in PendingRows' : rows[r].m # c.m
              \/ c.m \in group'.used
              \/ Epoch[c.m] > group.epoch
  <1>1. c.m \in Items /\ group \in Group /\ clobbered \in BOOLEAN /\ Rows
    BY DEF Shape, Counters, Calling
  <1>2. \/ MarkFailed(RowsOf(c.m)) /\ UNCHANGED group
        \/ /\ MarkProcessed({r \in RowsOf(c.m) : ~rows[r].processed})
           /\ WriteGroup(group, c.m)
        \/ /\ IncrementRetry(RowsOf(c.m)) \/ Exhaust(RowsOf(c.m))
           /\ UNCHANGED group
           /\ Outcome(group, c.m) # "ok"
    BY DEF RetryCandidate, Errors
  <1>3. group.epoch \in Nat
    BY <1>1 DEF Group
  <1>4. CASE MarkFailed(RowsOf(c.m)) /\ UNCHANGED group
    <2>1. PendingRows' \subseteq PendingRows \ RowsOf(c.m)
      BY <1>1, <1>4, ChangedPending
    <2>2. \A r \in PendingRows' : rows[r].m # c.m
      BY <2>1 DEF PendingRows, RowsOf
    <2> QED
      BY <1>3, <1>4, <2>1, <2>2
  <1>5. CASE /\ MarkProcessed({r \in RowsOf(c.m) : ~rows[r].processed})
             /\ WriteGroup(group, c.m)
    <2>1. PendingRows' \subseteq PendingRows
      BY <1>1, <1>5, ChangedPending
    <2>2. group'.epoch >= group.epoch /\ group.used \subseteq group'.used
      BY <1>1, <1>5, EpochMovesOn
    <2>3. group' \in Group
      BY <1>1, <1>5, WrittenGroup
    <2>4. group'.used = IF c.m \in Commits THEN group.used ELSE group.used \cup {c.m}
      BY <1>1, <1>5, WrittenGroup
    <2> QED
      BY <2>1, <2>2, <2>3, <2>4 DEF Group
  <1>6. CASE /\ IncrementRetry(RowsOf(c.m)) \/ Exhaust(RowsOf(c.m))
             /\ UNCHANGED group
             /\ Outcome(group, c.m) # "ok"
    <2>1. PendingRows' \subseteq PendingRows
      BY <1>1, <1>6, ChangedPending
    <2>2. c.m \in Commits \/ c.m \in group.used \/ Epoch[c.m] > group.epoch
      BY <1>6 DEF Outcome
    <2> QED
      BY <1>3, <1>6, <2>1, <2>2
  <1> QED
    BY <1>2, <1>4, <1>5, <1>6

LEMMA PassingStep ==
    ASSUME Shape, Shape', Passing, [Next]_vars
    PROVE  Passing'
  <1>1. ASSUME call' = call, UNCHANGED <<rows, group>>
        PROVE  Passing'
    BY <1>1 DEF Passing, PendingRows, Pending
  <1>2. CASE Handling \/ Processing \/ Restart
    <2>1. call'.pc # "pass"
      <3>1. CASE Restart
        BY <3>1, RestartEffect, IdleTypes
      <3>2. CASE Processing
        BY <3>2, ProcessingInApp, IdleTypes DEF Shape, Host
      <3>3. CASE Handling
        <4>1. host = "app" /\ call' = call
          BY <3>3 DEF Handling, HandOver, Load, Write, Save, Buffer, WorkerFails, mgr, Shape, Host
        <4> QED
          BY <4>1, IdleTypes DEF Shape, Host
      <3> QED
        BY <1>2, <3>1, <3>2, <3>3
    <2> QED
      BY <2>1 DEF Passing
  <1>3. CASE Tick \/ UNCHANGED vars
    BY <1>1, <1>3, TickEffect DEF vars
  <1>4. CASE Push \/ Return \/ Expire \/ CallFails
    <2>1. call'.pc # "pass"
      BY <1>4, IdleTypes DEF Push, Return, Expire, CallFails
    <2> QED
      BY <2>1 DEF Passing
  <1>5. ASSUME NEW m \in Items, Receive(m)
        PROVE  Passing'
    <2> SUFFICES ASSUME call'.pc = "pass" PROVE Passing'
      BY DEF Passing
    <2>1. /\ UNCHANGED rows /\ call'.left = Candidates /\ call'.from = group'.epoch
      <3>1. CASE UNCHANGED rows /\ call' = [pc |-> "pass", m |-> m, left |-> Candidates,
                                           from |-> group'.epoch]
        BY <3>1
      <3>2. CASE call' = [IdleCall EXCEPT !.pc = "push", !.m = m]
        BY <3>2 DEF IdleCall
      <3>3. CASE call' = call
        BY <1>5, <3>3 DEF Receive
      <3> QED
        BY <1>5, <3>1, <3>2, <3>3 DEF Receive, ProcessIncoming
    <2>2. group'.epoch \in Nat
      BY DEF Shape, Group
    <2>3. PendingRows' = PendingRows
      BY <2>1 DEF PendingRows, Pending
    <2>4. \A r \in PendingRows : \E c \in Candidates : c.m = rows[r].m
      BY CandidatesComplete DEF Shape
    <2> QED
      BY <2>1, <2>2, <2>3, <2>4 DEF Passing
  <1>6. ASSUME NEW c \in call.left, RetryCandidate(c)
        PROVE  Passing'
    <2>1. call' = [call EXCEPT !.left = @ \ {c}] /\ call.pc = "pass"
      BY <1>6 DEF RetryCandidate
    <2>2. call'.left = call.left \ {c} /\ call'.from = call.from
      BY <2>1 DEF Shape, Calling
    <2>3. call.from \in Nat /\ group.epoch \in Nat /\ call.from <= group.epoch
      BY <2>1 DEF Passing, Shape, Group
    <2>4. SameRows
      BY <1>6, RetryEffect
    <2>5. /\ PendingRows' \subseteq PendingRows
          /\ group'.epoch \in Nat /\ group'.epoch >= group.epoch /\ group.used \subseteq group'.used
      BY <1>6, TriedCandidate
    <2>6. ASSUME NEW r \in PendingRows', rows[r].m \in Apps, Epoch[rows[r].m] <= call.from
          PROVE  rows[r].m \in group'.used \/ \E d \in call'.left : d.m = rows[r].m
      <3>1. Epoch[rows[r].m] \in Nat
        BY <2>6, ItemsAssumption DEF Apps
      <3>2. rows[r].m \in group.used \/ \E d \in call.left : d.m = rows[r].m
        BY <2>1, <2>3, <2>5, <2>6, <3>1 DEF Passing
      <3>3. rows[r].m = c.m => c.m \in group'.used
        BY <1>6, <2>3, <2>6, <3>1, TriedCandidate DEF Apps
      <3> QED
        BY <2>2, <2>5, <3>2, <3>3
    <2>7. \A r \in PendingRows' : rows'[r].m = rows[r].m
      BY <2>4, <2>5 DEF SameRows, PendingRows
    <2>8. ASSUME NEW r \in PendingRows', rows'[r].m \in Apps
          PROVE  \/ Epoch[rows'[r].m] > call'.from
                 \/ rows'[r].m \in group'.used
                 \/ \E d \in call'.left : d.m = rows'[r].m
      <3>1. Epoch[rows[r].m] \in Nat
        BY <2>7, <2>8, ItemsAssumption DEF Apps
      <3> QED
        BY <2>2, <2>3, <2>6, <2>7, <2>8, <3>1
    <2> QED
      BY <2>2, <2>3, <2>5, <2>8 DEF Passing
  <1> QED
    BY <1>2, <1>3, <1>4, <1>5, <1>6, Steps DEF Managing

-----------------------------------------------------------------------------
(* The bounds: the clock, the table and the memory. *)

\* What is stored is of an arrival so far, and not of the future.
Bounded ==
  /\ host \in {"app", "manager"}
  /\ clock \in 0..MaxTime /\ arrivals \in 0..MaxArrivals /\ faults \in 0..MaxFaults
  /\ DOMAIN rows \subseteq 1..arrivals
  /\ \A r \in DOMAIN rows : rows[r].at <= clock
  /\ \A w \in workers : w.n \in 1..arrivals /\ w.at <= clock

\* What memory holds is a sequence; of what, no bound depends on.
Sequence(s) == \E T : s \in Seq(T)

Remembered == /\ Sequence(memory) /\ Len(memory) <= MaxSize
              /\ host = "app" => memory = <<>>

LEMMA SequenceOf ==
    ASSUME NEW n \in Nat, NEW f, DOMAIN f = 1..n, f = [i \in 1..n |-> f[i]]
    PROVE  Sequence(f) /\ Len(f) = n
  <1> DEFINE T == {f[i] : i \in 1..n}
  <1>1. f \in [1..n -> T]
    OBVIOUS
  <1>2. f \in Seq(T)
    BY <1>1
  <1>3. Len(f) = n
    BY <1>1, <1>2
  <1> QED
    BY <1>2, <1>3 DEF Sequence

LEMMA Places ==
    ASSUME Sequence(memory)
    PROVE  /\ Len(memory) \in Nat /\ DOMAIN memory = 1..Len(memory)
           /\ memory = [i \in 1..Len(memory) |-> memory[i]]
  <1>1. PICK T : memory \in Seq(T)
    BY DEF Sequence
  <1> QED
    BY <1>1

\* Keeping some of the entries shortens the memory.
LEMMA KeptMemory ==
    ASSUME Remembered, NEW S \in SUBSET DOMAIN memory, KeepOnly(S)
    PROVE  Sequence(memory') /\ Len(memory') <= MaxSize
  <1>1. Len(memory) \in Nat /\ S \in SUBSET (1..Len(memory))
    BY Places DEF Remembered
  <1>2. IsFiniteSet(1..Len(memory)) /\ Cardinality(1..Len(memory)) = Len(memory)
    <2>1. \A k \in Nat : IsFiniteSet(1..k) /\ Cardinality(1..k) = k
      <3> TAKE k \in Nat
      <3>1. /\ IsFiniteSet(1..k)
            /\ Cardinality(1..k) = IF 1 > k THEN 0 ELSE k - 1 + 1
        BY FS_Interval
      <3> QED
        BY <3>1
    <2> QED
      BY <1>1, <2>1
  <1>3. IsFiniteSet(S) /\ Cardinality(S) <= Len(memory)
    BY <1>1, <1>2, FS_Subset
  <1>4. Cardinality(S) \in Nat
    BY <1>3, FS_CardinalityType
  <1>5. PICK n : n = Cardinality(S)
    OBVIOUS
  <1>6. memory' = [i \in 1..n |-> memory[Nth(S, i)]]
    BY <1>5 DEF KeepOnly
  <1>7. DOMAIN memory' = 1..n /\ memory' = [i \in 1..n |-> memory'[i]]
    BY <1>6
  <1>8. Sequence(memory') /\ Len(memory') = n
    BY <1>4, <1>5, <1>7, SequenceOf
  <1> QED
    BY <1>1, <1>3, <1>4, <1>5, <1>8, LimitAssumption DEF Remembered

\* Counting on an entry leaves the memory as long as it was.
LEMMA CountedMemory ==
    ASSUME Remembered, NEW m, CountUp(m)
    PROVE  Sequence(memory') /\ Len(memory') <= MaxSize
  <1>1. CASE memory' = memory
    BY <1>1 DEF Remembered, Sequence
  <1>2. CASE memory' # memory
    <2>1. PICK n : n = Len(memory)
      OBVIOUS
    <2>2. n \in Nat /\ DOMAIN memory = 1..n
      BY <2>1, Places DEF Remembered
    <2>3. PICK k : memory' = [memory EXCEPT ![k].retries = @ + 1]
      BY <1>2 DEF CountUp
    <2>4. PICK e : memory' = [memory EXCEPT ![k] = e]
      BY <2>3
    <2>5. DOMAIN memory' = 1..n /\ memory' = [i \in 1..n |-> memory'[i]]
      BY <2>2, <2>4
    <2>6. Sequence(memory') /\ Len(memory') = n
      BY <2>2, <2>5, SequenceOf
    <2> QED
      BY <2>1, <2>6 DEF Remembered
  <1> QED
    BY <1>1, <1>2

\* After a restart memory holds no more than its limit.
LEMMA ReloadedMemory ==
    ASSUME Bounded
    PROVE  Sequence(Reloaded) /\ Len(Reloaded) <= MaxSize
  <1>1. arrivals \in Nat /\ PendingRows \in SUBSET (1..arrivals)
    BY BoundAssumption DEF Bounded, PendingRows
  <1>2. IsFiniteSet(PendingRows)
    <2>1. IsFiniteSet(1..arrivals)
      BY <1>1, FS_Interval
    <2> QED
      BY <1>1, <2>1, FS_Subset
  <1>3. PICK n : n = Cardinality(PendingRows)
    OBVIOUS
  <1>4. n \in Nat
    BY <1>2, <1>3, FS_CardinalityType
  <1>5. PICK k : k = IF n < MaxSize THEN n ELSE MaxSize
    OBVIOUS
  <1>6. k \in Nat /\ k <= MaxSize
    BY <1>4, <1>5, LimitAssumption
  <1>7. Reloaded = [i \in 1..k |-> FromRow(rows[Nth(PendingRows, i)])]
    BY <1>3, <1>5 DEF Reloaded
  <1>8. DOMAIN Reloaded = 1..k /\ Reloaded = [i \in 1..k |-> Reloaded[i]]
    BY <1>7
  <1>9. Sequence(Reloaded) /\ Len(Reloaded) = k
    BY <1>6, <1>8, SequenceOf
  <1> QED
    BY <1>6, <1>9

LEMMA RememberedStep ==
    ASSUME Shape, Bounded, Remembered, [Next]_vars
    PROVE  Remembered'
  <1>1. host' = host
    BY DEF Next, Tick, Restart, HandOver, Receive, Load, Write, Save, Buffer, WorkerFails,
           StartPass, TakeRow, RetryLoad, RetryWrite, RetrySave, RetryMark, Cleanup, PassFails,
           Push, RetryCandidate, Return, Expire, CallFails, vars
  <1>2. CASE memory' = memory
    BY <1>1, <1>2 DEF Remembered, Sequence
  <1>3. CASE Restart
    <2>1. memory' = IF host = "manager" THEN Reloaded ELSE <<>>
      BY <1>3 DEF Restart
    <2>2. Sequence(<<>>) /\ Len(<<>>) = 0
      <3>1. <<>> \in Seq({}) /\ Len(<<>>) = 0
        OBVIOUS
      <3> QED
        BY <3>1 DEF Sequence
    <2>3. CASE host = "manager"
      <3>1. memory' = Reloaded
        BY <2>1, <2>3
      <3>2. Sequence(memory') /\ Len(memory') <= MaxSize
        BY <3>1, ReloadedMemory
      <3> QED
        BY <1>1, <2>3, <3>2 DEF Remembered
    <2>4. CASE host # "manager"
      <3>1. memory' = <<>>
        BY <2>1, <2>4
      <3> QED
        BY <2>2, <3>1, LimitAssumption DEF Remembered
    <2> QED
      BY <2>3, <2>4
  <1>4. CASE Managing /\ memory' # memory
    <2>1. host # "app"
      BY <1>4, ManagingElsewhere
    <2> SUFFICES Sequence(memory') /\ Len(memory') <= MaxSize
      BY <1>1, <2>1 DEF Remembered
    <2>2. CASE Push
      <3>1. PICK e : memory' = IF Len(memory) >= MaxSize THEN memory ELSE Append(memory, e)
        BY <2>2 DEF Push
      <3>2. memory' = Append(memory, e) /\ ~(Len(memory) >= MaxSize)
        BY <1>4, <3>1
      <3>3. PICK T : memory \in Seq(T)
        BY DEF Remembered, Sequence
      <3>4. /\ Append(memory, e) \in Seq(T \cup {e}) /\ Len(memory) \in Nat
            /\ Len(Append(memory, e)) = Len(memory) + 1
        <4>1. memory \in Seq(T \cup {e}) /\ e \in T \cup {e}
          BY <3>3
        <4> QED
          BY <4>1
      <3> QED
        BY <3>2, <3>4, LimitAssumption DEF Sequence
    <2>3. CASE Expire
      BY <2>3, KeptMemory DEF Expire
    <2>4. ASSUME NEW c \in call.left, RetryCandidate(c)
          PROVE  Sequence(memory') /\ Len(memory') <= MaxSize
      <3>1. Forget(c.m) \/ CountUp(c.m)
        BY <2>4 DEF RetryCandidate
      <3> QED
        BY <3>1, KeptMemory, CountedMemory DEF Forget
    <2> QED
      BY <1>4, <2>2, <2>3, <2>4 DEF Managing, Return, CallFails, Receive
  <1>5. CASE Tick \/ Handling \/ Processing \/ UNCHANGED vars
    <2>1. memory' = memory
      BY <1>5, ProcessingInApp
      DEF Tick, Handling, HandOver, Load, Write, Save, Buffer, WorkerFails, mgr, vars
    <2> QED
      BY <1>2, <2>1
  <1> QED
    BY <1>2, <1>3, <1>4, <1>5, Steps

\* The rows a step may leave: those that were there, with their time, and the
\* row of an arrival.
LEMMA SameTimes ==
    ASSUME Rows, host' = host, NEW S,
           \/ IncrementRetry(S) \/ MarkProcessed(S) \/ MarkFailed(S) \/ Exhaust(S)
           \/ Delete(S) \/ UNCHANGED rows
    PROVE  /\ DOMAIN rows' \subseteq DOMAIN rows
           /\ \A r \in DOMAIN rows' : rows'[r].at = rows[r].at
  <1>1. ASSUME NEW row \in RowType
        PROVE  Counted(row).at = row.at /\ Done(row).at = row.at /\ Failed(row).at = row.at
    BY DEF RowType, Counted, Done, Failed
  <1>2. \A r \in DOMAIN rows : rows[r] \in RowType /\ Counted(rows[r]) \in RowType
    BY ChangedRow DEF Rows
  <1> QED
    BY <1>1, <1>2 DEF IncrementRetry, MarkProcessed, MarkFailed, Exhaust, Delete

LEMMA BoundedRows ==
    ASSUME Bounded, Rows, host' = host, clock' = clock, arrivals' = arrivals, NEW S,
           \/ IncrementRetry(S) \/ MarkProcessed(S) \/ MarkFailed(S) \/ Exhaust(S)
           \/ Delete(S) \/ UNCHANGED rows
    PROVE  /\ DOMAIN rows' \subseteq 1..arrivals'
           /\ \A r \in DOMAIN rows' : rows'[r].at <= clock'
  BY SameTimes DEF Bounded

LEMMA NewRowBounded ==
    ASSUME Bounded, NEW n \in Nat, NEW m, NEW t \in Nat, n \in 1..arrivals', t <= clock,
           clock' = clock, arrivals' \in {arrivals, arrivals + 1}, Insert(n, m, t)
    PROVE  /\ DOMAIN rows' \subseteq 1..arrivals'
           /\ \A r \in DOMAIN rows' : rows'[r].at <= clock'
  <1>1. NewRow(m, t).at = t
    BY DEF NewRow
  <1>2. arrivals \in Nat
    BY BoundAssumption DEF Bounded
  <1> QED
    BY <1>1, <1>2 DEF Bounded, Insert

LEMMA BoundedFault == Bounded /\ (faults' = faults \/ Fault) => faults' \in 0..MaxFaults
  BY BoundAssumption DEF Bounded, Fault

\* A handler's worker keeps its number and its time.
SameWorkers == \A v \in workers' : \E w \in workers : v.n = w.n /\ v.at = w.at

LEMMA WorkersStep ==
    ASSUME Shape, NEW w \in workers,
           Load(w) \/ Write(w) \/ Save(w) \/ Buffer(w) \/ WorkerFails(w)
    PROVE  SameWorkers
  <1>1. w \in WorkerType
    BY DEF Shape, Working
  <1>2. ASSUME NEW g
        PROVE  /\ [w EXCEPT !.pc = "write", !.copy = g].n = w.n
               /\ [w EXCEPT !.pc = "write", !.copy = g].at = w.at
               /\ [w EXCEPT !.pc = "buffer"].n = w.n /\ [w EXCEPT !.pc = "buffer"].at = w.at
               /\ [w EXCEPT !.pc = "save", !.copy = g].n = w.n
               /\ [w EXCEPT !.pc = "save", !.copy = g].at = w.at
    BY <1>1 DEF WorkerType
  <1>3. ASSUME NEW v, v.n = w.n, v.at = w.at, workers' = (workers \ {w}) \cup {v}
        PROVE  SameWorkers
    BY <1>3 DEF SameWorkers
  <1>4. CASE workers' = workers \ {w}
    BY <1>4 DEF SameWorkers
  <1>5. \/ workers' = workers \ {w}
        \/ workers' = (workers \ {w}) \cup {[w EXCEPT !.pc = "write", !.copy = group]}
        \/ workers' = (workers \ {w}) \cup {[w EXCEPT !.pc = "buffer"]}
        \/ workers' = (workers \ {w}) \cup {[w EXCEPT !.pc = "save", !.copy = Clear]}
    BY DEF Load, Write, Save, Buffer, WorkerFails, Turn
  <1> QED
    BY <1>2, <1>3, <1>4, <1>5

LEMMA BoundedHandlers ==
    ASSUME Shape, Bounded, Handling
    PROVE  Bounded'
  <1>1. arrivals \in Nat /\ clock \in Nat
    BY DEF Shape, Counters
  <1>2. ASSUME NEW m \in Items, HandOver(m)
        PROVE  Bounded'
    <2>1. PICK v : v = Worker(arrivals + 1, m)
      OBVIOUS
    <2>2. v.n = arrivals + 1 /\ v.at = clock
      BY <2>1 DEF Worker
    <2>3. workers' = workers \cup {v} /\ arrivals' = arrivals + 1 /\ arrivals < MaxArrivals
          /\ UNCHANGED <<host, clock, rows, faults>>
      BY <1>2, <2>1 DEF HandOver, Arrive
    <2> QED
      BY <1>1, <2>2, <2>3, BoundAssumption DEF Bounded
  <1>3. ASSUME NEW w \in workers, Load(w) \/ Write(w) \/ Save(w) \/ Buffer(w) \/ WorkerFails(w)
        PROVE  Bounded'
    <2>1. UNCHANGED <<host, clock, arrivals>>
      BY <1>3 DEF Load, Write, Save, Buffer, WorkerFails, table
    <2>2. \A v \in workers' : v.n \in 1..arrivals' /\ v.at <= clock'
      BY <1>3, <2>1, WorkersStep DEF SameWorkers, Bounded
    <2>3. faults' \in 0..MaxFaults
      BY <1>3, BoundAssumption
      DEF Load, Write, Save, Buffer, WorkerFails, Fault, Bounded
    <2>4. /\ DOMAIN rows' \subseteq 1..arrivals'
          /\ \A r \in DOMAIN rows' : rows'[r].at <= clock'
      <3>1. CASE Buffer(w)
        <4>1. w.n \in 1..arrivals' /\ w.n \in Nat /\ w.at \in Nat /\ w.at <= clock
          BY <2>1 DEF Shape, Working, WorkerType, Bounded
        <4>2. Insert(w.n, w.m, w.at)
          BY <3>1 DEF Buffer
        <4> QED
          BY <2>1, <4>1, <4>2, NewRowBounded
      <3>2. CASE ~Buffer(w)
        <4>1. rows' = rows
          BY <1>3, <3>2 DEF Load, Write, Save, WorkerFails, table
        <4> QED
          BY <2>1, <4>1 DEF Bounded
      <3> QED
        BY <3>1, <3>2
    <2> QED
      BY <2>1, <2>2, <2>3, <2>4 DEF Bounded
  <1> QED
    BY <1>2, <1>3 DEF Handling

LEMMA BoundedProcessor ==
    ASSUME Shape, Bounded, Processing
    PROVE  Bounded'
  <1>1. UNCHANGED <<host, clock, arrivals, workers>> /\ Rows
    BY ProcessingInApp DEF Shape
  <1>2. faults' = faults \/ Fault
    BY DEF Processing, StartPass, TakeRow, RetryLoad, RetryWrite, RetrySave, RetryMark, Cleanup,
           PassFails
  <1>3. \E S : \/ IncrementRetry(S) \/ MarkProcessed(S) \/ MarkFailed(S) \/ Exhaust(S)
               \/ Delete(S) \/ UNCHANGED rows
    BY DEF Processing, StartPass, TakeRow, RetryLoad, RetryWrite, RetrySave, RetryMark, Cleanup,
           PassFails, table
  <1> QED
    BY <1>1, <1>2, <1>3, BoundedRows, BoundedFault DEF Bounded

LEMMA BoundedManager ==
    ASSUME Shape, Bounded, Managing
    PROVE  Bounded'
  <1>1. UNCHANGED <<host, clock, workers>> /\ workers = {} /\ Rows
    BY ManagingElsewhere DEF Shape
  <1>2. faults' \in 0..MaxFaults
    <2>1. faults' = faults \/ Fault
      BY DEF Managing, Push, Return, Expire, CallFails, Receive, RetryCandidate
    <2> QED
      BY <2>1, BoundedFault
  <1>3. ASSUME NEW m \in Items, Receive(m)
        PROVE  Bounded'
    <2>1. arrivals' = arrivals + 1 /\ arrivals < MaxArrivals /\ arrivals \in Nat /\ clock \in Nat
      BY <1>3 DEF Receive, Arrive, Shape, Counters
    <2>2. arrivals' \in 0..MaxArrivals
      BY <2>1, BoundAssumption
    <2>3. /\ DOMAIN rows' \subseteq 1..arrivals'
          /\ \A r \in DOMAIN rows' : rows'[r].at <= clock'
      <3>1. CASE Insert(arrivals + 1, m, clock)
        BY <1>1, <2>1, <3>1, NewRowBounded
      <3>2. CASE rows' = rows
        BY <1>1, <2>1, <3>2 DEF Bounded
      <3> QED
        BY <1>3, <3>1, <3>2 DEF Receive, ProcessIncoming
    <2> QED
      BY <1>1, <1>2, <2>2, <2>3 DEF Bounded
  <1>4. CASE \/ Push \/ Return \/ Expire \/ CallFails
             \/ \E c \in call.left : RetryCandidate(c)
    <2>1. arrivals' = arrivals
      BY <1>4 DEF Push, Return, Expire, CallFails, RetryCandidate, table
    <2>2. \E S : \/ IncrementRetry(S) \/ MarkProcessed(S) \/ MarkFailed(S) \/ Exhaust(S)
                 \/ Delete(S) \/ UNCHANGED rows
      BY <1>4 DEF Push, Return, Expire, CallFails, RetryCandidate, table
    <2> QED
      BY <1>1, <1>2, <2>1, <2>2, BoundedRows DEF Bounded
  <1> QED
    BY <1>3, <1>4 DEF Managing

LEMMA BoundedStep ==
    ASSUME Shape, Bounded, [Next]_vars
    PROVE  Bounded'
  <1>1. CASE Tick
    <2>1. clock' \in 0..MaxTime /\ clock <= clock' /\ clock \in Nat
      BY <1>1, BoundAssumption DEF Tick, Bounded
    <2>2. UNCHANGED <<host, rows, arrivals, workers, faults>>
      BY <1>1, TickEffect
    <2>3. /\ \A r \in DOMAIN rows : rows[r].at \in Nat
          /\ \A w \in workers : w.at \in Nat
      BY DEF Shape, Rows, RowType, Working, WorkerType
    <2> QED
      BY <2>1, <2>2, <2>3 DEF Bounded
  <1>2. CASE Restart
    <2>1. faults' \in 0..MaxFaults
      BY <1>2, BoundAssumption DEF Restart, Fault, Bounded
    <2> QED
      BY <1>2, <2>1, RestartEffect DEF Bounded
  <1>3. CASE UNCHANGED vars
    BY <1>3 DEF vars, table, app, Bounded
  <1> QED
    BY <1>1, <1>2, <1>3, BoundedHandlers, BoundedProcessor, BoundedManager, Steps

-----------------------------------------------------------------------------
(* Theorems *)

\* The inductive invariant of the buffer holds in every reachable state.
THEOREM EbInvariance == Spec => []Inv
  <1>1. Init => Inv
    <2> SUFFICES ASSUME Init PROVE Inv
      OBVIOUS
    <2>1. Shape
      BY ShapeInitially
    <2>2. Copies /\ Once /\ Spent /\ Passing
      BY IdleTypes, ClearType
      DEF Init, Copies, Once, Shown, Savers, Others, OfProc, OfCall, Spent, Passing
    <2> QED
      BY <2>1, <2>2 DEF Inv
  <1>2. Inv /\ [Next]_vars => Inv'
    <2> SUFFICES ASSUME Inv, [Next]_vars PROVE Inv'
      OBVIOUS
    <2>1. Shape'
      BY ShapeStep DEF Inv
    <2>2. Copies'
      BY CopiesStep DEF Inv
    <2>3. Once'
      BY <2>1, OnceStep DEF Inv
    <2>4. Spent'
      BY <2>1, SpentStep DEF Inv
    <2>5. Passing'
      BY <2>1, PassingStep DEF Inv
    <2> QED
      BY <2>1, <2>2, <2>3, <2>4, <2>5 DEF Inv
  <1> QED
    BY <1>1, <1>2, PTL DEF Spec

\* A message is shown twice only after a lost update of the MLS group: neither
\* a second copy, nor the table, nor a retry or a restart does it.
THEOREM EbShownOnce == Spec => []ShownOnce
  <1>1. Inv => ShownOnce
    BY DEF Inv, Once, Shown, ShownOnce
  <1> QED
    BY <1>1, EbInvariance, PTL

\* Without restarts and failing storage the application shows every message
\* whose key it spends.
THEOREM EbSpentIsShown == Spec => []SpentIsShown
  <1>1. Inv => SpentIsShown
    <2> SUFFICES ASSUME Inv, host = "app", faults = 0, NEW m \in group.used
                 PROVE  \/ given[m] > 0
                        \/ \E w \in workers : w.m = m /\ w.pc = "save"
                        \/ proc.pc = "save" /\ rows[proc.id].m = m
      BY DEF SpentIsShown
    <2>1. Covered(m)
      BY DEF Inv, Spent
    <2>2. given[m] \in Nat
      BY DEF Inv, Shape, Group
    <2> QED
      BY <2>1, <2>2 DEF Covered, OfProc
  <1> QED
    BY <1>1, EbInvariance, PTL

\* A pass of the manager leaves nothing pending that was readable when it
\* began.
THEOREM EbPassOpens == Spec => []PassOpens
  <1>1. Inv => PassOpens
    <2> SUFFICES ASSUME Inv, call.pc = "pass", call.left = {},
                        NEW r \in PendingRows, rows[r].m \in Apps
                 PROVE  Epoch[rows[r].m] > call.from \/ rows[r].m \in group.used
      BY DEF PassOpens
    <2> QED
      BY DEF Inv, Passing
  <1> QED
    BY <1>1, EbInvariance, PTL

\* The types: what is stored is of an arrival so far and not of the future,
\* memory stays within its limit, and one part of the program is at work.
THEOREM EbTypeCorrect == Spec => []TypeOK
  <1>1. Init => Bounded /\ Remembered
    <2> SUFFICES ASSUME Init PROVE Bounded /\ Remembered
      OBVIOUS
    <2>1. Bounded
      BY BoundAssumption DEF Init, Bounded
    <2>2. <<>> \in Seq({}) /\ Len(<<>>) = 0
      OBVIOUS
    <2>3. Remembered
      BY <2>2, LimitAssumption DEF Init, Remembered, Sequence
    <2> QED
      BY <2>1, <2>3
  <1>2. Inv /\ Bounded /\ Remembered /\ [Next]_vars => (Bounded /\ Remembered)'
    BY BoundedStep, RememberedStep DEF Inv
  <1>3. Inv /\ Bounded /\ Remembered => TypeOK
    <2> SUFFICES ASSUME Shape, Bounded, Remembered PROVE TypeOK
      BY DEF Inv
    <2>1. \A r \in DOMAIN rows : rows[r] \in
            [m : Items, at : 0..clock, retries : Nat, processed : BOOLEAN, failed : BOOLEAN]
      BY DEF Shape, Counters, Rows, RowType, Bounded
    <2>2. \A w \in workers : w \in [n : 1..arrivals, m : Items, at : 0..clock,
            pc : {"load", "write", "save", "buffer"}, copy : [epoch : Nat, used : SUBSET Apps]]
      BY DEF Shape, Counters, Working, WorkerType, Group, Bounded
    <2>3. proc.pc \in {"idle", "next", "load", "write", "save", "mark"}
      BY DEF Shape, Working, ProcType
    <2>4. host = "app" => memory = <<>> /\ call = IdleCall
      BY DEF Shape, Host, Remembered
    <2>5. host = "manager" => workers = {} /\ proc = IdleProc
      BY DEF Shape, Host
    <2> QED
      BY <2>1, <2>2, <2>3, <2>4, <2>5 DEF Shape, Group, Calling, Bounded, Remembered, TypeOK
  <1> QED
    BY <1>1, <1>2, <1>3, EbInvariance, PTL DEF Spec
=============================================================================
