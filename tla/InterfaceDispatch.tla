------------------------- MODULE InterfaceDispatch -------------------------
(***************************************************************************)
(* The interface registry at work: beat and dispatch_interfaces, the queue *)
(* of run_interface (src/apps/interfaces/tasks.py), and the screens that   *)
(* create, edit, switch, delete, execute and retry interfaces              *)
(* (src/apps/interfaces/views.py).  What happens within one execution is   *)
(* the module AdapterCall; here it takes time and succeeds or fails.       *)
(***************************************************************************)
EXTENDS InterfaceConfig, SequencesExt

CONSTANTS
  Batch,           \* interfaces of a protocol that has a schedule
  Other,           \* interfaces of the other protocols
  Celery,          \* Celery processes
  Web,             \* web workers
  Cron,            \* cron expressions that are submitted, only their minute given
  AdminInput,      \* what the admin page writes: an interface and any schedule
  Minutes,         \* length of the hour
  Window,          \* failures a bulk retry looks at (100 in the code)
  MaxLogs,         \* bound on the logs kept, newest first
  MaxQueue         \* bound on the calls and dispatches waiting; what is more is not counted

ASSUME DispatchAssumption ==
  /\ Batch \cap Other = {} /\ Celery \cap Web = {}
  /\ Minutes \in Nat \ {0} /\ Window \in Nat /\ MaxLogs \in Nat /\ MaxQueue \in Nat
  /\ AdminInput \subseteq (Batch \cup Other) \X (Cron \cup {<<>>})
  /\ \A e \in Cron : Len(e) = 5 /\ \A k \in 2..5 : e[k].kind = "any"

VARIABLES
  itf,             \* the Interface table
  minute,          \* the minute of the hour
  beat,            \* dispatches beat has sent that no process has begun
  queue,           \* calls of run_interface waiting, by interface
  logs,            \* the InterfaceLog table, newest first
  req              \* what each process is busy with

vars == <<itf, minute, beat, queue, logs, req>>

----------------------------------------------------------------------------
(* Types.                                                                  *)

Itf == Batch \cup Other
Worker == Celery \cup Web
Absent == [there |-> FALSE]
Row == [there: {TRUE}, is_active: BOOLEAN, schedule_cron: Cron \cup {<<>>},
        byForm: BOOLEAN]                                      \* did the form write the schedule
Log == [itf: Itf, ok: BOOLEAN]

Idle == [pc |-> "idle"]
Request ==
  {Idle} \cup [pc: {"dispatching"}, todo: SUBSET Itf]          \* the due interfaces not sent yet
         \cup [pc: {"executing"}, itf: Itf, scheduled: BOOLEAN]
         \cup [pc: {"toggling"}, itf: Itf, old: Row]           \* the object read
         \cup [pc: {"editing"}, itf: Itf, new: Row]            \* the form submitted
         \cup [pc: {"bulk"}, chosen: SUBSET Itf, todo: BoundedSeq(Itf, MaxLogs)]

\* Type correctness, and of a schedule the form wrote last that its protocol has one and its
\* numbers are in range (forms.py 29-41, 256-276); the admin page writes any on any protocol.
TypeOK ==
  /\ itf \in [Itf -> Row \cup {Absent}]
  /\ \A i \in Itf : itf[i].there /\ itf[i].byForm /\ itf[i].schedule_cron # <<>>
                     => i \in Batch /\ validate_cron(itf[i].schedule_cron)
  /\ minute \in 0..Minutes - 1
  /\ beat \in 0..MaxQueue
  /\ queue \in [Itf -> 0..MaxQueue]
  /\ logs \in BoundedSeq(Log, MaxLogs)
  /\ req \in [Worker -> Request]

----------------------------------------------------------------------------
(* Helpers.                                                                *)

\* croniter.match at a minute; an expression it cannot read, such as */0, matches nothing: the
\* exception is caught for each interface, so that one such schedule does not end a dispatch.
_cron_matches(expr, m) ==
  /\ expr # <<>>
  /\ CASE expr[1].kind = "any"   -> TRUE
       [] expr[1].kind = "at"    -> expr[1].n = m
       [] expr[1].kind = "every" -> expr[1].n # 0 /\ m % expr[1].n = 0
       [] expr[1].kind = "text"  -> FALSE

Protocols(i) == IF i \in Batch THEN "BATCH" ELSE "REST"

\* The rows the form saves: a schedule that is accepted, and dropped where there is none.
FormRow(i) ==
  {[there |-> TRUE, is_active |-> a, schedule_cron |-> CleanCron(Protocols(i), e), byForm |-> TRUE] :
     a \in BOOLEAN, e \in {x \in Cron : validate_cron(x)} \cup {<<>>}}

\* The rows InterfaceAdmin saves: the model validates no schedule.
AdminRow(i) ==
  {[there |-> TRUE, is_active |-> a, schedule_cron |-> e, byForm |-> FALSE] :
     a \in BOOLEAN, e \in {x \in Cron \cup {<<>>} : <<i, x>> \in AdminInput}}

\* The elements of sequence s at the positions K, in their order.
Ordered(K) ==
  CHOOSE at \in [1..Cardinality(K) -> K] : \A j, k \in DOMAIN at : j < k => at[j] < at[k]
Keep(s, K) == [j \in 1..Cardinality(K) |-> s[Ordered(K)[j]]]

\* The newest n of a sequence, or all.
Newest(s, n) == SubSeq(s, 1, IF Len(s) < n THEN Len(s) ELSE n)

Begin(w, r) == req[w] = Idle /\ req' = [req EXCEPT ![w] = r]
Go(w, r) == req' = [req EXCEPT ![w] = r]
Done(w) == Go(w, Idle)

\* A log is inserted; the oldest are cleaned up at the bound.
Logged(i, ok) == logs' = Newest(<<[itf |-> i, ok |-> ok]>> \o logs, MaxLogs)

----------------------------------------------------------------------------

Init ==
  /\ itf \in [Itf -> {Absent}]
  /\ minute = 0 /\ beat = 0
  /\ queue = [i \in Itf |-> 0]
  /\ logs = <<>>
  /\ req = [w \in Worker |-> Idle]

(* Beat and the tasks.                                                     *)

\* Every minute beat sends a dispatch.
Tick ==
  /\ minute' = (minute + 1) % Minutes
  /\ beat' = IF beat < MaxQueue THEN beat + 1 ELSE beat
  /\ UNCHANGED <<itf, queue, logs, req>>

\* For dispatch_interfaces: interfaces switched off are dispatched too.
FaultyDispatch(w) ==
  /\ beat > 0 /\ beat' = beat - 1
  /\ Begin(w, [pc |-> "dispatching",
               todo |-> {i \in Itf : itf[i].there /\ _cron_matches(itf[i].schedule_cron, minute)}])
  /\ UNCHANGED <<itf, minute, queue, logs>>

\* dispatch_interfaces reads the time when it runs, and the active interfaces at once ...
dispatch_interfaces(w) ==
  /\ beat > 0 /\ beat' = beat - 1
  /\ Begin(w, [pc |-> "dispatching",
               todo |-> {i \in Itf : /\ itf[i].there /\ itf[i].is_active
                                     /\ _cron_matches(itf[i].schedule_cron, minute)}])
  /\ UNCHANGED <<itf, minute, queue, logs>>

\* ... and sends them one by one.
Delay(w) ==
  /\ req[w].pc = "dispatching"
  /\ \/ \E i \in req[w].todo :
          /\ queue' = [queue EXCEPT ![i] = IF @ < MaxQueue THEN @ + 1 ELSE @]
          /\ Go(w, [req[w] EXCEPT !.todo = @ \ {i}])
     \/ req[w].todo = {} /\ Done(w) /\ UNCHANGED queue
  /\ UNCHANGED <<itf, minute, beat, logs>>

\* For run_interface: nothing is executed while another execution is under way.
FaultyRun(w, i) ==
  /\ queue[i] > 0 /\ queue' = [queue EXCEPT ![i] = @ - 1]
  /\ req[w] = Idle
  /\ IF itf[i].there /\ itf[i].is_active /\ \A v \in Worker : req[v] = Idle
     THEN Go(w, [pc |-> "executing", itf |-> i, scheduled |-> TRUE])
     ELSE UNCHANGED req
  /\ UNCHANGED <<itf, minute, beat, logs>>

\* run_interface: executed if it is active now, skipped otherwise.
run_interface(w, i) ==
  /\ queue[i] > 0 /\ queue' = [queue EXCEPT ![i] = @ - 1]
  /\ req[w] = Idle
  /\ IF itf[i].there /\ itf[i].is_active
     THEN Go(w, [pc |-> "executing", itf |-> i, scheduled |-> TRUE])
     ELSE UNCHANGED req
  /\ UNCHANGED <<itf, minute, beat, logs>>

\* An execution is over and logged, unless its interface was deleted meanwhile.
ExecuteEnds(w) ==
  /\ req[w].pc = "executing"
  /\ IF itf[req[w].itf].there THEN \E ok \in BOOLEAN : Logged(req[w].itf, ok)
                              ELSE UNCHANGED logs
  /\ Done(w)
  /\ UNCHANGED <<itf, minute, beat, queue>>

\* cleanup_old_logs deletes the logs older than some time.
cleanup_old_logs ==
  /\ logs # <<>>
  /\ \E n \in 0..Len(logs) - 1 : logs' = SubSeq(logs, 1, n)
  /\ UNCHANGED <<itf, minute, beat, queue, req>>

\* InterfaceLogAdmin deletes any logs, adds one and rewrites one, of any interface there is.
InterfaceLogAdmin ==
  /\ \/ \E K \in SUBSET DOMAIN logs : logs' = Keep(logs, K)
     \/ \E i \in Itf, ok \in BOOLEAN :
          /\ itf[i].there
          /\ Logged(i, ok) \/ \E k \in DOMAIN logs : logs' = [logs EXCEPT ![k] = [itf |-> i, ok |-> ok]]
  /\ UNCHANGED <<itf, minute, beat, queue, req>>

(* The screens.                                                            *)

\* By the form or on the admin page.
interface_create ==
  /\ \E i \in Itf : /\ ~ itf[i].there
                    /\ \E r \in FormRow(i) \cup AdminRow(i) : itf' = [itf EXCEPT ![i] = r]
  /\ UNCHANGED <<minute, beat, queue, logs, req>>

\* The object is read, the form is validated, on the screen or the admin page, ...
interface_update(w) ==
  /\ \E i \in Itf : /\ itf[i].there
                    /\ \E r \in FormRow(i) \cup AdminRow(i) :
                         Begin(w, [pc |-> "editing", itf |-> i, new |-> r])
  /\ UNCHANGED <<itf, minute, beat, queue, logs>>

\* ... and every field is saved; a row deleted meanwhile is inserted again.
SaveEdit(w) ==
  /\ req[w].pc = "editing"
  /\ itf' = [itf EXCEPT ![req[w].itf] = req[w].new]
  /\ Done(w)
  /\ UNCHANGED <<minute, beat, queue, logs>>

\* The logs go by CASCADE.
interface_delete ==
  /\ \E i \in Itf : /\ itf[i].there
                    /\ itf' = [itf EXCEPT ![i] = Absent]
                    /\ logs' = Keep(logs, {k \in DOMAIN logs : logs[k].itf # i})
  /\ UNCHANGED <<minute, beat, queue, req>>

interface_toggle(w) ==
  /\ \E i \in Itf : itf[i].there /\ Begin(w, [pc |-> "toggling", itf |-> i, old |-> itf[i]])
  /\ UNCHANGED <<itf, minute, beat, queue, logs>>

\* For SaveToggle: the whole object is saved.
FaultySaveToggle(w) ==
  /\ req[w].pc = "toggling"
  /\ itf' = [itf EXCEPT ![req[w].itf] = [req[w].old EXCEPT !.is_active = ~ @]]
  /\ Done(w)
  /\ UNCHANGED <<minute, beat, queue, logs>>

\* save(update_fields=['is_active']) writes that column, and fails if the row is gone.
SaveToggle(w) ==
  /\ req[w].pc = "toggling"
  /\ itf' = IF itf[req[w].itf].there
            THEN [itf EXCEPT ![req[w].itf].is_active = ~ req[w].old.is_active]
            ELSE itf
  /\ Done(w)
  /\ UNCHANGED <<minute, beat, queue, logs>>

\* Executed by hand, active or not.
interface_run(w) ==
  /\ \E i \in Itf : /\ itf[i].there
                    /\ Begin(w, [pc |-> "executing", itf |-> i, scheduled |-> FALSE])
  /\ UNCHANGED <<itf, minute, beat, queue, logs>>

\* The interface of a log is executed again, active or not.
log_retry(w) ==
  /\ \E k \in DOMAIN logs : Begin(w, [pc |-> "executing", itf |-> logs[k].itf, scheduled |-> FALSE])
  /\ UNCHANGED <<itf, minute, beat, queue, logs>>

\* The failures a bulk retry starts from: the newest Window, or those selected.
Failures == Keep(logs, {k \in DOMAIN logs : ~ logs[k].ok})
Originals ==
  {Newest(Failures, Window)} \cup {Keep(Failures, K) : K \in SUBSET DOMAIN Failures}

\* For Targets: failures of one interface are not merged.
FaultyTargets(originals) == [k \in DOMAIN originals |-> originals[k].itf]

\* One execution for each interface, in the order of its newest failure.
Firsts(originals) ==
  {k \in DOMAIN originals : \A j \in 1..k - 1 : originals[j].itf # originals[k].itf}
Targets(originals) ==
  [k \in 1..Cardinality(Firsts(originals)) |-> Keep(originals, Firsts(originals))[k].itf]

log_retry_bulk(w) ==
  /\ \E o \in Originals :
       /\ o # <<>>
       /\ Begin(w, [pc |-> "bulk", todo |-> Targets(o), chosen |-> {o[k].itf : k \in DOMAIN o}])
  /\ UNCHANGED <<itf, minute, beat, queue, logs>>

\* The next of them; an interface deleted meanwhile cannot be logged, which ends the request.
BulkNext(w) ==
  /\ req[w].pc = "bulk"
  /\ IF req[w].todo = <<>> \/ ~ itf[Head(req[w].todo)].there
     THEN Done(w) /\ UNCHANGED logs
     ELSE /\ \E ok \in BOOLEAN : Logged(Head(req[w].todo), ok)
          /\ Go(w, [req[w] EXCEPT !.todo = Tail(@)])
  /\ UNCHANGED <<itf, minute, beat, queue>>

\* A process is killed, and what it had not done is not done.
WorkerDies(w) ==
  /\ req[w] # Idle
  /\ Done(w)
  /\ UNCHANGED <<itf, minute, beat, queue, logs>>

----------------------------------------------------------------------------

\* What a process goes on with by itself.
Proceed(w) == Delay(w) \/ ExecuteEnds(w) \/ SaveEdit(w) \/ SaveToggle(w) \/ BulkNext(w)

Next ==
  \/ Tick \/ cleanup_old_logs \/ InterfaceLogAdmin
  \/ interface_create \/ interface_delete
  \/ \E w \in Celery : dispatch_interfaces(w) \/ \E i \in Itf : run_interface(w, i)
  \/ \E w \in Web : \/ interface_update(w) \/ interface_toggle(w) \/ interface_run(w)
                    \/ log_retry(w) \/ log_retry_bulk(w)
  \/ \E w \in Worker : Proceed(w) \/ WorkerDies(w)

Spec == Init /\ [][Next]_vars

\* Minutes pass.  A process goes on with what it has begun; that an execution ends is CallsEnd
\* of AdapterCall.  The tasks wait in one first-in first-out list, so that each is taken in the
\* end although other tasks keep coming: strong fairness.
FairSpec ==
  /\ Spec
  /\ WF_vars(Tick)
  /\ \A w \in Worker : WF_vars(Proceed(w))
  /\ SF_vars(\E w \in Celery : dispatch_interfaces(w))
  /\ \A i \in Itf : SF_vars(\E w \in Celery : run_interface(w, i))

----------------------------------------------------------------------------
(* Properties.                                                             *)

Scheduled(i) == \E w \in Celery : req[w].pc = "executing" /\ req[w].itf = i

EveryMinute(expr) == \A m \in 0..Minutes - 1 : _cron_matches(expr, m)

\* A step after which every interface there was is there, with the schedule it had.
SwitchedOnly ==
  \A i \in Itf : /\ itf'[i].there <=> itf[i].there
                 /\ itf[i].there => itf'[i].schedule_cron = itf[i].schedule_cron

\* Switching an interface on or off leaves an edit that was saved since it read the interface as
\* it is, and does not bring back an interface that was deleted.
ToggleUndoesNothing ==
  [][\A w \in Web : req[w].pc = "toggling" /\ req'[w] = Idle => SwitchedOnly]_vars

\* A bulk retry executes no interface twice, however many of its failures are among those it
\* starts from, and only interfaces with such a failure.
BulkMerges ==
  \A w \in Web : req[w].pc = "bulk" =>
    IsInjective(req[w].todo) /\ ToSet(req[w].todo) \subseteq req[w].chosen

\* Once an interface is switched off or deleted for good, the calls of it that were queued or
\* being sent run out, and it is not executed on schedule any more.
OffDrains ==
  \A i \in Itf :
    <>[](itf[i].there => ~ itf[i].is_active) => <>[](queue[i] = 0 /\ ~ Scheduled(i))

\* An interface that is due every minute is executed again and again as long as it is active,
\* however late dispatches run and whatever schedules nobody can read stand beside it, if
\* processes stop dying with interfaces not yet sent.
DueIsExecuted ==
  \A i \in Itf :
    /\ <>[](itf[i].there /\ itf[i].is_active /\ EveryMinute(itf[i].schedule_cron))
    /\ <>[][\A w \in Celery : req[w].pc = "dispatching" /\ req'[w] = Idle => req[w].todo = {}]_vars
    => []<>Scheduled(i)

=============================================================================
