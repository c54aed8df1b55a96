------------------------------ MODULE TestRunner ------------------------------
(***************************************************************************)
(* test.py: the main thread dispatches test suites and examples to a pool  *)
(* of worker threads through input_queue, each worker runs one job at a    *)
(* time as a child process and ships it back through output_queue, the     *)
(* main thread counts and writes the results, joins the workers and        *)
(* returns the exit code.  SIGINT may arrive at any moment.                *)
(*                                                                         *)
(* A job is named by the order of its dispatch, the suites first.  The     *)
(* input queue is unbounded and filled by the main thread alone: it is the *)
(* jobs and then the break jobs, of which put have been put and got taken. *)
(***************************************************************************)
EXTENDS Integers, Sequences, FiniteSets

CONSTANTS
  Processors,       \* worker threads
  NumSuites,        \* jobs that are test suites
  NumExamples,      \* jobs that are C++ or Python examples
  LaunchFailures    \* can starting the child process raise an exception?

ASSUME SizesAssumption ==
  /\ Processors \in Nat \ {0}
  /\ NumSuites \in Nat
  /\ NumExamples \in Nat
  /\ LaunchFailures \in BOOLEAN

NumJobs == NumSuites + NumExamples
Jobs == 1..NumJobs
IsExample(j) == j > NumSuites
Workers == 1..Processors

\* Return codes of a job's process; Other stands for every code but 0, 1, 2.
Other == 3
ReturnCodes == {0, 1, 2, Other}
Statuses == {"PASS", "FAIL", "VALGR", "CRASH", "SKIP"}
\* What the results file says of a job: nothing, a status, or the
\* test-runner's own report of a suite.
Entries == Statuses \cup {"none", "own"}

VARIABLES
  pc,             \* control of the main thread
  put, got,       \* jobs and break jobs put into and taken off input_queue
  skip,           \* Job.is_skip
  is_break,       \* Job.is_break, as set by a worker
  returncode,     \* Job.returncode; False, which equals 0, until the job ran
  tmp_file,       \* suites whose temporary results file exists
  wpc, hand,      \* control of a worker and the job it holds
  output_queue,
  received,       \* jobs the main thread took off output_queue
  counts,         \* passed_tests, failed_tests, ... by status
  entry,          \* results.xml: the entry of each job
  closed,         \* results.xml has its closing tag
  sigint,         \* a SIGINT has been delivered to the process
  thread_exit,    \* the flag set by sigint_hook
  exitcode,
  ran             \* history: the jobs whose process ran to its end

mainVars == <<pc, counts, entry, closed, received, exitcode>>
jobVars == <<skip, is_break, returncode, tmp_file, ran>>
workerVars == <<wpc, hand>>
signalVars == <<sigint, thread_exit>>
vars == <<pc, put, got, skip, is_break, returncode, tmp_file, wpc, hand,
          output_queue, received, counts, entry, closed, sigint,
          thread_exit, exitcode, ran>>

AllEnded == \A w \in Workers : wpc[w] \in {"done", "died"}

Init ==
  /\ pc = "prepare"
  /\ put = 0 /\ got = 0
  /\ skip = [j \in Jobs |-> FALSE]
  /\ is_break = [j \in Jobs |-> FALSE]
  /\ returncode = [j \in Jobs |-> 0]
  /\ tmp_file = {}
  /\ wpc = [w \in Workers |-> "get"]
  /\ hand = [w \in Workers |-> 0]
  /\ output_queue = <<>>
  /\ received = {}
  /\ counts = [s \in Statuses |-> 0]
  /\ entry = [j \in Jobs |-> "none"]
  /\ closed = FALSE
  /\ sigint = FALSE /\ thread_exit = FALSE
  /\ exitcode = 0
  /\ ran = {}

\* The process has exited.
Exited == pc \in {"ended", "refused", "listed"}

-----------------------------------------------------------------------------
(* The main thread *)

\* Build, read the configuration, list the suites and open results.xml; or
\* leave, with an error (waf died, no build status file, an unknown suite) or
\* after printing the names or kinds of the suites (--list, --kinds).
Prepare ==
  /\ pc = "prepare"
  /\ \/ pc' = "dispatch" /\ UNCHANGED exitcode
     \/ pc' = "refused" /\ exitcode' \in {1, 2}
     \/ pc' = "listed" /\ UNCHANGED exitcode
  /\ UNCHANGED <<put, got, output_queue, received, counts, entry, closed,
                 jobVars, workerVars, signalVars>>

\* Queue the next suite or example; valgrind, NSC or missing bindings may
\* have it skipped.
Dispatch ==
  /\ pc = "dispatch" /\ put < NumJobs
  /\ put' = put + 1
  /\ \E s \in BOOLEAN : skip' = [skip EXCEPT ![put + 1] = s]
  /\ UNCHANGED <<mainVars, got, is_break, returncode, tmp_file, ran, output_queue,
                 workerVars, signalVars>>

\* Wrong variant: one break job is missing.
LastBreakShort == NumJobs + Processors - 1

LastBreak == NumJobs + Processors

\* Queue one break job for each worker, behind all the work.
DispatchBreak ==
  /\ pc = "dispatch" /\ put >= NumJobs
  /\ put' = put + 1
  /\ pc' = IF put' = LastBreak THEN "collect" ELSE pc
  /\ UNCHANGED <<got, output_queue, received, counts, entry, closed, exitcode,
                 jobVars, workerVars, signalVars>>

Status(j) ==
  IF skip[j] THEN "SKIP"
  ELSE CASE returncode[j] = 0 -> "PASS"
         [] returncode[j] = 1 -> "FAIL"
         [] returncode[j] = 2 -> "VALGR"
         [] OTHER -> "CRASH"

\* The entry written for a job: a suite that ran to completion has its own
\* file copied, whatever valgrind said of it.
EntryOf(j) ==
  IF ~IsExample(j) /\ Status(j) \in {"PASS", "FAIL", "VALGR"} THEN "own" ELSE Status(j)

\* Wrong variant: the loop does not continue; False passes for a return code 0.
IgnoreCounts(j) ==
  /\ is_break[j]
  /\ counts' = [counts EXCEPT ![Status(j)] = @ + 1]
  /\ entry' = [entry EXCEPT ![j] = EntryOf(j)]
  /\ UNCHANGED pc

\* A job thrown back after an interrupt has no result.
Ignore(j) ==
  /\ is_break[j]
  /\ UNCHANGED <<pc, counts, entry>>

\* Count the result and write it; the file of a suite that ended regularly
\* must be there, otherwise open () raises and the main thread is lost.
Report(j) ==
  /\ ~is_break[j]
  /\ counts' = [counts EXCEPT ![Status(j)] = @ + 1]
  /\ IF EntryOf(j) = "own" /\ j \notin tmp_file
     THEN pc' = "raised" /\ UNCHANGED entry
     ELSE entry' = [entry EXCEPT ![j] = EntryOf(j)] /\ UNCHANGED pc

Collect ==
  /\ pc = "collect" /\ Cardinality(received) < NumJobs /\ output_queue # <<>>
  /\ output_queue' = Tail(output_queue)
  /\ received' = received \cup {Head(output_queue)}
  /\ Ignore(Head(output_queue)) \/ Report(Head(output_queue))
  /\ UNCHANGED <<put, got, closed, exitcode, jobVars, workerVars, signalVars>>

\* After range (jobs) results: join every worker, then close the document.
Join ==
  /\ pc = "collect" /\ Cardinality(received) = NumJobs
  /\ AllEnded
  /\ closed' = TRUE
  /\ pc' = "translate"
  /\ UNCHANGED <<put, got, output_queue, received, counts, entry, exitcode,
                 jobVars, workerVars, signalVars>>

\* A crashed suite's entry is written with mismatched tags.
WellFormed == closed /\ \A j \in Jobs : entry[j] = "CRASH" => IsExample(j)

\* With --text or --html translate results.xml, which raises if it cannot be
\* parsed; then compute the exit code.
Finish ==
  /\ pc = "translate"
  /\ \/ ~WellFormed /\ pc' = "raised" /\ UNCHANGED exitcode
     \/ /\ pc' = "ended"
        /\ exitcode' = IF counts["PASS"] + counts["SKIP"] = NumJobs THEN 0 ELSE 1
  /\ UNCHANGED <<put, got, output_queue, received, counts, entry, closed,
                 jobVars, workerVars, signalVars>>

\* An exception ends the main thread; the interpreter waits for the workers,
\* which are not daemons, and exits with code 1.
ExitRaised ==
  /\ pc = "raised" /\ AllEnded
  /\ pc' = "ended"
  /\ exitcode' = 1
  /\ UNCHANGED <<put, got, output_queue, received, counts, entry, closed,
                 jobVars, workerVars, signalVars>>

-----------------------------------------------------------------------------
(* The workers *)

Holds(w) == wpc[w] \in {"took", "running", "ship", "died"}

GotoW(w, label) == wpc' = [wpc EXCEPT ![w] = label]

\* Wrong variant: an empty queue is not waited for.
GetNoWait(w) ==
  /\ wpc[w] = "get" /\ got < NumJobs
  /\ got' = got + 1
  /\ GotoW(w, "took") /\ hand' = [hand EXCEPT ![w] = got + 1]
  /\ UNCHANGED <<mainVars, put, jobVars, output_queue, signalVars>>

\* Take the next job off the input queue, or leave on a break job.
Get(w) ==
  /\ wpc[w] = "get" /\ got < put
  /\ got' = got + 1
  /\ IF got + 1 \in Jobs
     THEN GotoW(w, "took") /\ hand' = [hand EXCEPT ![w] = got + 1]
     ELSE GotoW(w, "done") /\ UNCHANGED hand
  /\ UNCHANGED <<mainVars, put, jobVars, output_queue, signalVars>>

\* Wrong variant: a thrown-back job is shipped and then run nevertheless.
CheckFallsThrough(w) ==
  /\ wpc[w] = "took"
  /\ \/ /\ thread_exit
        /\ is_break' = [is_break EXCEPT ![hand[w]] = TRUE]
        /\ output_queue' = Append(output_queue, hand[w])
     \/ ~thread_exit /\ UNCHANGED <<is_break, output_queue>>
  /\ GotoW(w, IF skip[hand[w]] THEN "ship" ELSE "running")
  /\ UNCHANGED <<mainVars, put, got, skip, returncode, tmp_file, ran, hand, signalVars>>

\* After an interrupt mark the job as a break and throw it back; throw it
\* back if it is to be skipped; otherwise go about running it.
Check(w) ==
  /\ wpc[w] = "took"
  /\ \/ thread_exit /\ is_break' = [is_break EXCEPT ![hand[w]] = TRUE] /\ GotoW(w, "ship")
     \/ ~thread_exit /\ skip[hand[w]] /\ GotoW(w, "ship") /\ UNCHANGED is_break
     \/ ~thread_exit /\ ~skip[hand[w]] /\ GotoW(w, "running") /\ UNCHANGED is_break
  /\ UNCHANGED <<mainVars, put, got, skip, returncode, tmp_file, ran, hand,
                 output_queue, signalVars>>

\* run_job_synchronously: the process ends with some code; only a suite has
\* a results file, which may be missing if it could not be created.
RunJob(w) ==
  /\ wpc[w] = "running"
  /\ \E rc \in ReturnCodes : returncode' = [returncode EXCEPT ![hand[w]] = rc]
  /\ \E written \in SUBSET ({hand[w]} \cap 1..NumSuites) : tmp_file' = tmp_file \cup written
  /\ ran' = ran \cup {hand[w]}
  /\ GotoW(w, "ship")
  /\ UNCHANGED <<mainVars, put, got, skip, is_break, hand, output_queue,
                 signalVars>>

\* Popen raises: nobody catches it, the worker ends without its result.
LaunchFails(w) ==
  /\ LaunchFailures
  /\ wpc[w] = "running"
  /\ GotoW(w, "died")
  /\ UNCHANGED <<mainVars, put, got, jobVars, hand, output_queue, signalVars>>

Ship(w) ==
  /\ wpc[w] = "ship"
  /\ output_queue' = Append(output_queue, hand[w])
  /\ GotoW(w, "get")
  /\ UNCHANGED <<mainVars, put, got, jobVars, hand, signalVars>>

-----------------------------------------------------------------------------
(* Signals *)

Interrupt ==
  /\ ~sigint /\ ~Exited
  /\ sigint' = TRUE
  /\ UNCHANGED <<mainVars, put, got, jobVars, workerVars, output_queue,
                 thread_exit>>

\* Python runs the handler in the main thread, between two bytecodes: not
\* while the thread is blocked in Queue.get or Thread.join.
MainBlocked ==
  \/ pc = "collect" /\ Cardinality(received) < NumJobs /\ output_queue = <<>>
  \/ pc = "collect" /\ Cardinality(received) = NumJobs /\ ~AllEnded
  \/ pc = "raised" /\ ~AllEnded

sigint_hook ==
  /\ sigint /\ ~thread_exit
  /\ ~MainBlocked /\ ~Exited
  /\ thread_exit' = TRUE
  /\ UNCHANGED <<mainVars, put, got, jobVars, workerVars, output_queue, sigint>>

Main == Prepare \/ Dispatch \/ DispatchBreak \/ Collect \/ Join \/ Finish \/ ExitRaised
Worker(w) == Get(w) \/ Check(w) \/ RunJob(w) \/ LaunchFails(w) \/ Ship(w)

Next ==
  \/ Main
  \/ \E w \in Workers : Worker(w)
  \/ Interrupt
  \/ sigint_hook

\* The threads are scheduled and every test program ends.
Fairness == WF_vars(Main) /\ \A w \in Workers : WF_vars(Worker(w))

Spec == Init /\ [][Next]_vars /\ Fairness

-----------------------------------------------------------------------------
(* Properties *)

\* Types, and the bounds of the queues' counters.
TypeOK ==
  /\ pc \in {"prepare", "refused", "listed", "dispatch", "collect", "translate", "raised", "ended"}
  /\ put \in 0..LastBreak /\ got \in 0..put
  /\ skip \in [Jobs -> BOOLEAN] /\ is_break \in [Jobs -> BOOLEAN]
  /\ returncode \in [Jobs -> ReturnCodes]
  /\ tmp_file \subseteq 1..NumSuites
  /\ wpc \in [Workers -> {"get", "took", "running", "ship", "done", "died"}]
  /\ hand \in [Workers -> 0..NumJobs]
  /\ \A w \in Workers : Holds(w) => hand[w] \in Jobs
  /\ output_queue \in Seq(Jobs)
  /\ received \subseteq Jobs
  /\ counts \in [Statuses -> Nat]
  /\ entry \in [Jobs -> Entries]
  /\ closed \in BOOLEAN
  /\ sigint \in BOOLEAN /\ thread_exit \in BOOLEAN
  /\ exitcode \in {0, 1, 2}
  /\ ran \subseteq Jobs

Queued(j) == \E i \in DOMAIN output_queue : output_queue[i] = j
Held(j) == \E w \in Workers : Holds(w) /\ hand[w] = j

\* A job taken off the input queue is in exactly one place: with one worker,
\* once in the output queue, or received (test.py:851-917, 1447).
EveryJobOnce ==
  /\ \A j \in Jobs : (j <= got) <=> (Held(j) \/ Queued(j) \/ j \in received)
  /\ \A j \in Jobs : Held(j) => ~Queued(j) /\ j \notin received
  /\ \A v, w \in Workers : v # w /\ Holds(v) /\ Holds(w) => hand[v] # hand[w]
  /\ \A i \in DOMAIN output_queue : output_queue[i] \notin received
  /\ \A i, k \in DOMAIN output_queue : output_queue[i] = output_queue[k] => i = k

\* The job was skipped, or it ran to its end, passed and left its report.
Passed(j) ==
  /\ j \in received /\ ~is_break[j]
  /\ \/ skip[j]
     \/ j \in ran /\ returncode[j] = 0 /\ (IsExample(j) \/ j \in tmp_file)

\* test.py exits with 0 if and only if every job passed or was skipped: an
\* interrupt, a lost result or an unreadable report is never a success, and
\* nothing else is a failure (test.py:1448-1471, 1638).
ExitCodeIsHonest ==
  pc = "ended" => (exitcode = 0 <=> \A j \in Jobs : Passed(j))

\* The run comes to an end whatever the results and whenever SIGINT arrives,
\* unless a worker died of an exception (test.py:1430, 1447, 1585).
EveryRunEnds ==
  <>(Exited \/ \E w \in Workers : wpc[w] = "died")

=============================================================================
