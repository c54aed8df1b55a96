--------------------------- MODULE TestRunnerProofs ---------------------------
(***************************************************************************)
(* Theorems about TestRunner, for any number of workers, suites and        *)
(* examples, whatever the test programs return and whenever SIGINT comes.  *)
(***************************************************************************)
EXTENDS TestRunner, FiniteSetTheorems, TLAPS

-----------------------------------------------------------------------------
(* Sizes and queues                                                        *)

LEMMA Sizes ==
  /\ NumJobs \in Nat /\ LastBreak \in Nat /\ NumJobs < LastBreak
  /\ NumSuites \in Nat /\ NumSuites <= NumJobs
  /\ Jobs \subseteq Nat \ {0}
  /\ IsFiniteSet(Jobs) /\ Cardinality(Jobs) = NumJobs
<1>1. NumJobs \in Nat /\ LastBreak \in Nat /\ NumJobs < LastBreak
  BY SizesAssumption DEF NumJobs, LastBreak
<1>2. NumSuites \in Nat /\ NumSuites <= NumJobs
  BY SizesAssumption DEF NumJobs
<1>3. IsFiniteSet(1..NumJobs) /\ Cardinality(1..NumJobs) = NumJobs
  BY <1>1, FS_Interval
<1> QED BY <1>1, <1>2, <1>3 DEF Jobs

LEMMA AppendToQueue ==
  ASSUME NEW S, NEW q \in Seq(S), NEW x \in S
  PROVE  /\ Append(q, x) \in Seq(S)
         /\ Len(q) \in Nat /\ DOMAIN q = 1 .. Len(q)
         /\ DOMAIN Append(q, x) = 1 .. Len(q) + 1
         /\ \A i \in 1 .. Len(q) : Append(q, x)[i] = q[i]
         /\ Append(q, x)[Len(q) + 1] = x
OBVIOUS

LEMMA HeadOfQueue ==
  ASSUME NEW S, NEW q \in Seq(S), q # <<>>
  PROVE  /\ Head(q) \in S /\ Head(q) = q[1] /\ Tail(q) \in Seq(S)
         /\ Len(q) \in Nat \ {0} /\ DOMAIN q = 1 .. Len(q)
         /\ DOMAIN Tail(q) = 1 .. Len(q) - 1
         /\ \A i \in 1 .. Len(q) - 1 : Tail(q)[i] = q[i + 1]
OBVIOUS

-----------------------------------------------------------------------------
(* Types                                                                   *)

\* While the main thread dispatches, a break job is still to be put.
Dispatching ==
  /\ pc = "prepare" => put = 0
  /\ pc = "dispatch" => put < LastBreak

TypeInv == TypeOK /\ Dispatching

LEMMA InitTypes == Init => TypeInv
<1> SUFFICES ASSUME Init PROVE TypeInv
  OBVIOUS
<1>1. put = 0 /\ got = 0 /\ put \in 0..LastBreak /\ got \in 0..put
  BY Sizes DEF Init
<1>2. /\ skip \in [Jobs -> BOOLEAN] /\ is_break \in [Jobs -> BOOLEAN]
      /\ returncode \in [Jobs -> ReturnCodes]
      /\ tmp_file \subseteq 1..NumSuites /\ ran \subseteq Jobs /\ received \subseteq Jobs
  BY DEF Init, ReturnCodes
<1>3. /\ wpc \in [Workers -> {"get", "took", "running", "ship", "done", "died"}]
      /\ hand \in [Workers -> 0..NumJobs]
      /\ \A w \in Workers : ~Holds(w)
  BY Sizes DEF Init, Holds
<1>4. output_queue \in Seq(Jobs)
  BY DEF Init
<1>5. counts \in [Statuses -> Nat] /\ entry \in [Jobs -> Entries]
  BY DEF Init, Entries
<1>6. /\ pc = "prepare" /\ closed \in BOOLEAN /\ sigint \in BOOLEAN /\ thread_exit \in BOOLEAN
      /\ exitcode \in {0, 1, 2}
  BY DEF Init
<1> QED BY <1>1, <1>2, <1>3, <1>4, <1>5, <1>6 DEF TypeInv, TypeOK, Dispatching

LEMMA StatusType ==
  ASSUME NEW j
  PROVE  Status(j) \in Statuses /\ EntryOf(j) \in Entries
BY DEF Status, EntryOf, Statuses, Entries

LEMMA MainKeepsTypes ==
  ASSUME TypeInv, Main
  PROVE  TypeInv'
<1> USE DEF mainVars, jobVars, workerVars, signalVars
<1>1. CASE Prepare
  BY <1>1, Sizes DEF Prepare, TypeInv, TypeOK, Dispatching, Holds
<1>2. CASE Dispatch
  <2>1. /\ put' = put + 1 /\ put' \in 0..LastBreak /\ got' \in 0..put' /\ put' < LastBreak
    BY <1>2, Sizes DEF Dispatch, TypeInv, TypeOK
  <2>2. skip' \in [Jobs -> BOOLEAN]
    BY <1>2 DEF Dispatch, TypeInv, TypeOK
  <2> QED BY <1>2, <2>1, <2>2 DEF Dispatch, TypeInv, TypeOK, Dispatching, Holds
<1>3. CASE DispatchBreak
  <2>1. put' = put + 1 /\ put' \in 0..LastBreak /\ got' \in 0..put'
    BY <1>3, Sizes DEF DispatchBreak, TypeInv, TypeOK, Dispatching
  <2>2. pc' \in {"collect", "dispatch"} /\ (pc' = "dispatch" => put' < LastBreak)
    BY <1>3, <2>1, Sizes DEF DispatchBreak
  <2> QED BY <1>3, <2>1, <2>2 DEF DispatchBreak, TypeInv, TypeOK, Dispatching, Holds
<1>4. CASE Collect
  <2> DEFINE j == Head(output_queue)
  <2>1. j \in Jobs /\ output_queue' \in Seq(Jobs) /\ received' \subseteq Jobs
    BY <1>4, HeadOfQueue DEF Collect, TypeInv, TypeOK
  <2>2. counts' \in [Statuses -> Nat]
    BY <1>4, StatusType DEF Collect, Ignore, Report, TypeInv, TypeOK
  <2>3. entry' \in [Jobs -> Entries] /\ pc' \in {"collect", "raised"}
    BY <1>4, StatusType DEF Collect, Ignore, Report, TypeInv, TypeOK
  <2> QED BY <1>4, <2>1, <2>2, <2>3 DEF Collect, TypeInv, TypeOK, Dispatching, Holds
<1>5. CASE Join
  BY <1>5 DEF Join, TypeInv, TypeOK, Dispatching, Holds
<1>6. CASE Finish
  BY <1>6 DEF Finish, TypeInv, TypeOK, Dispatching, Holds
<1>7. CASE ExitRaised
  BY <1>7 DEF ExitRaised, TypeInv, TypeOK, Dispatching, Holds
<1> QED BY <1>1, <1>2, <1>3, <1>4, <1>5, <1>6, <1>7 DEF Main

LEMMA WorkerKeepsTypes ==
  ASSUME TypeInv, NEW w \in Workers, Worker(w)
  PROVE  TypeInv'
<1> USE DEF mainVars, jobVars, workerVars, signalVars
<1>1. CASE Get(w)
  <2>1. got' = got + 1 /\ got' \in 0..put'
    BY <1>1, Sizes DEF Get, TypeInv, TypeOK
  <2>2. CASE got + 1 \in Jobs
    <3>1. /\ wpc' = [wpc EXCEPT ![w] = "took"] /\ hand' = [hand EXCEPT ![w] = got + 1]
          /\ got + 1 \in 0..NumJobs
      BY <1>1, <2>2 DEF Get, GotoW, Jobs
    <3> QED BY <1>1, <2>1, <2>2, <3>1 DEF Get, TypeInv, TypeOK, Dispatching, Holds
  <2>3. CASE got + 1 \notin Jobs
    BY <1>1, <2>1, <2>3 DEF Get, GotoW, TypeInv, TypeOK, Dispatching, Holds
  <2> QED BY <2>2, <2>3
<1>2. CASE Check(w)
  <2>1. is_break' \in [Jobs -> BOOLEAN]
    BY <1>2 DEF Check, TypeInv, TypeOK
  <2>2. wpc' = [wpc EXCEPT ![w] = "ship"] \/ wpc' = [wpc EXCEPT ![w] = "running"]
    BY <1>2 DEF Check, GotoW
  <2> QED BY <1>2, <2>1, <2>2 DEF Check, TypeInv, TypeOK, Dispatching, Holds
<1>3. CASE RunJob(w)
  <2>1. returncode' \in [Jobs -> ReturnCodes]
    BY <1>3 DEF RunJob, TypeInv, TypeOK
  <2>2. hand[w] \in Jobs /\ ran' \subseteq Jobs /\ tmp_file' \subseteq 1..NumSuites
    BY <1>3 DEF RunJob, TypeInv, TypeOK, Holds
  <2>3. wpc' = [wpc EXCEPT ![w] = "ship"]
    BY <1>3 DEF RunJob, GotoW
  <2> QED BY <1>3, <2>1, <2>2, <2>3 DEF RunJob, TypeInv, TypeOK, Dispatching, Holds
<1>4. CASE LaunchFails(w)
  BY <1>4 DEF LaunchFails, GotoW, TypeInv, TypeOK, Dispatching, Holds
<1>5. CASE Ship(w)
  <2>1. output_queue' \in Seq(Jobs)
    BY <1>5, AppendToQueue DEF Ship, TypeInv, TypeOK, Holds
  <2> QED BY <1>5, <2>1 DEF Ship, GotoW, TypeInv, TypeOK, Dispatching, Holds
<1> QED BY <1>1, <1>2, <1>3, <1>4, <1>5 DEF Worker

LEMMA NextTypes == TypeInv /\ [Next]_vars => TypeInv'
<1> SUFFICES ASSUME TypeInv, [Next]_vars PROVE TypeInv'
  OBVIOUS
<1> USE DEF mainVars, jobVars, workerVars, signalVars
<1>1. CASE Interrupt
  BY <1>1 DEF Interrupt, TypeInv, TypeOK, Dispatching, Holds
<1>2. CASE sigint_hook
  BY <1>2 DEF sigint_hook, TypeInv, TypeOK, Dispatching, Holds
<1>3. CASE UNCHANGED vars
  BY <1>3 DEF vars, TypeInv, TypeOK, Dispatching, Holds
<1> QED BY <1>1, <1>2, <1>3, MainKeepsTypes, WorkerKeepsTypes DEF Next

-----------------------------------------------------------------------------
(* Every job in one place                                                  *)

OnceInv == TypeInv /\ EveryJobOnce

LEMMA InitOnce == Init => EveryJobOnce
<1> SUFFICES ASSUME Init PROVE EveryJobOnce
  OBVIOUS
<1>1. got = 0 /\ output_queue = <<>> /\ received = {} /\ \A w \in Workers : wpc[w] = "get"
  BY DEF Init
<1>2. \A j \in Jobs : ~(j <= got)
  BY <1>1, Sizes
<1> QED BY <1>1, <1>2 DEF EveryJobOnce, Held, Holds, Queued

\* Steps that move no job.
LEMMA NoJobMoves ==
  ASSUME OnceInv, UNCHANGED <<got, output_queue, received, hand>>,
         \A w \in Workers : Holds(w)' <=> Holds(w)
  PROVE  EveryJobOnce'
BY DEF OnceInv, EveryJobOnce, Held, Queued

LEMMA CollectOnce ==
  ASSUME OnceInv, Collect
  PROVE  EveryJobOnce'
<1> DEFINE h == Head(output_queue)
<1>1. /\ output_queue \in Seq(Jobs) /\ output_queue # <<>>
      /\ output_queue' = Tail(output_queue)
      /\ received' = received \cup {h}
      /\ UNCHANGED <<got, wpc, hand>>
  BY DEF Collect, OnceInv, TypeInv, TypeOK, workerVars
<1>2. /\ Len(output_queue) \in Nat \ {0} /\ DOMAIN output_queue = 1 .. Len(output_queue)
      /\ DOMAIN output_queue' = 1 .. Len(output_queue) - 1
      /\ \A i \in 1 .. Len(output_queue) - 1 : output_queue'[i] = output_queue[i + 1]
      /\ h = output_queue[1]
  BY <1>1, HeadOfQueue
<1> HIDE DEF h
<1>3. /\ Queued(h) /\ h \notin received
      /\ \A i \in DOMAIN output_queue : i # 1 => output_queue[i] # h
  BY <1>2 DEF OnceInv, EveryJobOnce, Queued
<1>4. ASSUME NEW i \in DOMAIN output_queue'
      PROVE  i + 1 \in DOMAIN output_queue /\ i + 1 # 1 /\ output_queue'[i] = output_queue[i + 1]
  BY <1>2
<1>5. \A j : Queued(j)' <=> Queued(j) /\ j # h
  <2>1. ASSUME NEW j, Queued(j)' PROVE Queued(j) /\ j # h
    <3>1. PICK i \in DOMAIN output_queue' : output_queue'[i] = j
      BY <2>1 DEF Queued
    <3> QED BY <1>3, <1>4, <3>1 DEF Queued
  <2>2. ASSUME NEW j, Queued(j), j # h PROVE Queued(j)'
    <3>1. PICK i \in DOMAIN output_queue : output_queue[i] = j
      BY <2>2 DEF Queued
    <3>2. i # 1 /\ i - 1 \in 1 .. Len(output_queue) - 1 /\ (i - 1) + 1 = i
      BY <1>2, <2>2, <3>1
    <3> QED BY <1>2, <3>1, <3>2 DEF Queued
  <2> QED BY <2>1, <2>2
<1>6. \A j : Held(j)' <=> Held(j)
  BY <1>1 DEF Held, Holds
<1>7. \A j \in Jobs : (j <= got') <=> (Held(j)' \/ Queued(j)' \/ j \in received')
  BY <1>1, <1>3, <1>5, <1>6 DEF OnceInv, EveryJobOnce
<1>8. \A j \in Jobs : Held(j)' => ~Queued(j)' /\ j \notin received'
  BY <1>1, <1>3, <1>5, <1>6 DEF OnceInv, EveryJobOnce
<1>9. \A v, w \in Workers : v # w /\ Holds(v)' /\ Holds(w)' => hand'[v] # hand'[w]
  BY <1>1 DEF OnceInv, EveryJobOnce, Holds
<1>10. \A i \in DOMAIN output_queue' : output_queue'[i] \notin received'
  BY <1>1, <1>3, <1>4 DEF OnceInv, EveryJobOnce
<1>11. \A i, k \in DOMAIN output_queue' : output_queue'[i] = output_queue'[k] => i = k
  <2>1. ASSUME NEW i \in DOMAIN output_queue', NEW k \in DOMAIN output_queue',
               output_queue'[i] = output_queue'[k]
        PROVE  i = k
    <3>1. i + 1 = k + 1
      BY <1>4, <2>1 DEF OnceInv, EveryJobOnce
    <3> QED BY <1>2, <3>1
  <2> QED BY <2>1
<1> QED BY <1>7, <1>8, <1>9, <1>10, <1>11 DEF EveryJobOnce

LEMMA GetOnce ==
  ASSUME OnceInv, NEW w \in Workers, Get(w)
  PROVE  EveryJobOnce'
<1>1. /\ wpc[w] = "get" /\ got' = got + 1 /\ got \in Nat
      /\ UNCHANGED <<output_queue, received>>
  BY Sizes DEF Get, OnceInv, TypeInv, TypeOK, mainVars
<1>2. CASE got + 1 \notin Jobs
  <2>1. \A j \in Jobs : (j <= got') <=> (j <= got)
    BY <1>1, <1>2, Sizes
  <2>2. \A v \in Workers : (Holds(v)' <=> Holds(v)) /\ hand'[v] = hand[v]
    BY <1>1, <1>2 DEF Get, GotoW, Holds, OnceInv, TypeInv, TypeOK
  <2>3. \A j : (Held(j)' <=> Held(j)) /\ (Queued(j)' <=> Queued(j))
    BY <1>1, <2>2 DEF Held, Queued
  <2> QED BY <1>1, <2>1, <2>2, <2>3 DEF OnceInv, EveryJobOnce
<1>3. CASE got + 1 \in Jobs
  <2> DEFINE g == got + 1
  <2>1. /\ Holds(w)' /\ hand'[w] = g /\ ~Holds(w)
        /\ \A v \in Workers \ {w} : (Holds(v)' <=> Holds(v)) /\ hand'[v] = hand[v]
    BY <1>1, <1>3 DEF Get, GotoW, Holds, OnceInv, TypeInv, TypeOK
  <2>2. ~(g <= got) /\ g \in Jobs /\ \A j \in Jobs : (j <= got') <=> (j <= got \/ j = g)
    BY <1>1, <1>3, Sizes
  <2> HIDE DEF g
  <2>3. ~Held(g) /\ ~Queued(g) /\ g \notin received
    BY <2>2 DEF OnceInv, EveryJobOnce
  <2>4. \A j : (Held(j)' <=> Held(j) \/ j = g) /\ (Queued(j)' <=> Queued(j))
    BY <1>1, <2>1 DEF Held, Queued
  <2>5. \A j \in Jobs : (j <= got') <=> (Held(j)' \/ Queued(j)' \/ j \in received')
    BY <1>1, <2>2, <2>4 DEF OnceInv, EveryJobOnce
  <2>6. \A j \in Jobs : Held(j)' => ~Queued(j)' /\ j \notin received'
    BY <1>1, <2>3, <2>4 DEF OnceInv, EveryJobOnce
  <2>7. \A u, v \in Workers : u # v /\ Holds(u)' /\ Holds(v)' => hand'[u] # hand'[v]
    BY <2>1, <2>3 DEF OnceInv, EveryJobOnce, Held
  <2> QED BY <1>1, <2>5, <2>6, <2>7 DEF OnceInv, EveryJobOnce
<1> QED BY <1>2, <1>3

LEMMA ShipOnce ==
  ASSUME OnceInv, NEW w \in Workers, Ship(w)
  PROVE  EveryJobOnce'
<1> DEFINE h == hand[w]
           n == Len(output_queue)
<1>1. /\ wpc[w] = "ship" /\ Holds(w) /\ h \in Jobs /\ Held(h)
      /\ UNCHANGED <<got, hand, received>>
      /\ output_queue \in Seq(Jobs) /\ output_queue' = Append(output_queue, h)
  BY DEF Ship, Held, Holds, OnceInv, TypeInv, TypeOK, mainVars
<1>2. /\ n \in Nat /\ DOMAIN output_queue = 1 .. n /\ DOMAIN output_queue' = 1 .. n + 1
      /\ \A i \in 1 .. n : output_queue'[i] = output_queue[i]
      /\ output_queue'[n + 1] = h
  BY <1>1, AppendToQueue
<1>3. ~Holds(w)' /\ \A v \in Workers \ {w} : Holds(v)' <=> Holds(v)
  BY DEF Ship, GotoW, Holds, OnceInv, TypeInv, TypeOK
<1> HIDE DEF h, n
<1>4. ~Queued(h) /\ h \notin received
  BY <1>1 DEF OnceInv, EveryJobOnce
<1>5. \A v \in Workers \ {w} : Holds(v) => hand[v] # h
  BY <1>1 DEF OnceInv, EveryJobOnce, h
<1>6. \A j : Held(j)' <=> Held(j) /\ j # h
  BY <1>1, <1>3, <1>5 DEF Held, h
<1>7. \A i \in DOMAIN output_queue' : i \in DOMAIN output_queue \/ i = n + 1
  BY <1>2
<1>8. \A j : Queued(j)' <=> Queued(j) \/ j = h
  <2>1. \A j : Queued(j)' => Queued(j) \/ j = h
    BY <1>2, <1>7 DEF Queued
  <2>2. n + 1 \in DOMAIN output_queue' /\ 1 .. n \subseteq DOMAIN output_queue'
    BY <1>2
  <2> QED BY <1>2, <2>1, <2>2 DEF Queued
<1>9. \A j \in Jobs : (j <= got') <=> (Held(j)' \/ Queued(j)' \/ j \in received')
  BY <1>1, <1>6, <1>8 DEF OnceInv, EveryJobOnce
<1>10. \A j \in Jobs : Held(j)' => ~Queued(j)' /\ j \notin received'
  BY <1>1, <1>6, <1>8 DEF OnceInv, EveryJobOnce
<1>11. \A u, v \in Workers : u # v /\ Holds(u)' /\ Holds(v)' => hand'[u] # hand'[v]
  BY <1>1, <1>3 DEF OnceInv, EveryJobOnce
<1>12. \A i \in DOMAIN output_queue' : output_queue'[i] \notin received'
  BY <1>1, <1>2, <1>4, <1>7 DEF OnceInv, EveryJobOnce
<1>13. \A i, k \in DOMAIN output_queue' : output_queue'[i] = output_queue'[k] => i = k
  <2>1. \A i \in DOMAIN output_queue : output_queue'[i] = output_queue[i] /\ output_queue[i] # h
    BY <1>2, <1>4 DEF Queued
  <2> QED BY <1>2, <1>7, <2>1 DEF OnceInv, EveryJobOnce
<1> QED BY <1>9, <1>10, <1>11, <1>12, <1>13 DEF EveryJobOnce

LEMMA NextOnce == OnceInv /\ [Next]_vars => OnceInv'
<1> SUFFICES ASSUME OnceInv, [Next]_vars PROVE EveryJobOnce'
  BY NextTypes DEF OnceInv
<1> USE DEF mainVars, jobVars, workerVars, signalVars
<1>1. CASE Prepare \/ Dispatch \/ DispatchBreak \/ Join \/ Finish \/ ExitRaised
  <2>1. UNCHANGED <<got, output_queue, received, hand, wpc>>
    BY <1>1 DEF Prepare, Dispatch, DispatchBreak, Join, Finish, ExitRaised
  <2> QED BY <2>1, NoJobMoves DEF Holds
<1>2. CASE Interrupt \/ sigint_hook \/ UNCHANGED vars
  <2>1. UNCHANGED <<got, output_queue, received, hand, wpc>>
    BY <1>2 DEF Interrupt, sigint_hook, vars
  <2> QED BY <2>1, NoJobMoves DEF Holds
<1>3. ASSUME NEW w \in Workers, Check(w) \/ RunJob(w) \/ LaunchFails(w)
      PROVE  EveryJobOnce'
  <2>1. UNCHANGED <<got, output_queue, received, hand>>
    BY <1>3 DEF Check, RunJob, LaunchFails
  <2>2. \A v \in Workers : Holds(v)' <=> Holds(v)
    BY <1>3 DEF Check, RunJob, LaunchFails, GotoW, Holds, OnceInv, TypeInv, TypeOK
  <2> QED BY <2>1, <2>2, NoJobMoves
<1> QED BY <1>1, <1>2, <1>3, CollectOnce, GetOnce, ShipOnce DEF Next, Main, Worker

-----------------------------------------------------------------------------
(* What was settled of a job                                               *)

\* The job is on its way to the main thread, or there.
Settled(j) == Queued(j) \/ j \in received

\* Its process ran, or was not to run.
Resolved(j) == is_break[j] \/ skip[j] \/ j \in ran

LEMMA BehindTheQueue ==
  ASSUME OnceInv, NEW j \in Jobs, Settled(j) \/ Held(j)
  PROVE  j <= got /\ j # put + 1
BY Sizes DEF OnceInv, EveryJobOnce, Settled, TypeInv, TypeOK

\* A worker's next job is one that nobody had before.
LEMMA HeldBefore ==
  ASSUME OnceInv, [Next]_vars, NEW j \in Jobs, j <= got, Held(j)'
  PROVE  Held(j)
<1> USE DEF mainVars, jobVars, workerVars, signalVars
<1>1. PICK w \in Workers : Holds(w)' /\ hand'[w] = j
  BY DEF Held
<1>2. CASE UNCHANGED <<wpc, hand>>
  BY <1>1, <1>2 DEF Held, Holds
<1>3. ASSUME NEW v \in Workers, Check(v) \/ RunJob(v) \/ LaunchFails(v) \/ Ship(v)
      PROVE  Held(j)
  <2>1. hand' = hand /\ (Holds(w)' => Holds(w))
    BY <1>3 DEF Check, RunJob, LaunchFails, Ship, GotoW, Holds, OnceInv, TypeInv, TypeOK
  <2> QED BY <1>1, <2>1 DEF Held
<1>4. ASSUME NEW v \in Workers, Get(v)
      PROVE  Held(j)
  <2>1. CASE w = v
    <3>1. got + 1 \in Jobs /\ hand'[w] = got + 1
      BY <1>1, <1>4, <2>1 DEF Get, GotoW, Holds, OnceInv, TypeInv, TypeOK
    <3> QED BY <1>1, <3>1, Sizes DEF OnceInv, TypeInv, TypeOK
  <2>2. CASE w # v
    BY <1>1, <1>4, <2>2 DEF Get, GotoW, Held, Holds, OnceInv, TypeInv, TypeOK
  <2> QED BY <2>1, <2>2
<1>5. CASE Main \/ Interrupt \/ sigint_hook \/ UNCHANGED vars
  BY <1>2, <1>5 DEF Main, Prepare, Dispatch, DispatchBreak, Collect, Join, Finish, ExitRaised,
                    Interrupt, sigint_hook, vars
<1> QED BY <1>3, <1>4, <1>5 DEF Next, Worker

LEMMA OnlyCollectReceives ==
  ASSUME [Next]_vars
  PROVE  Collect \/ UNCHANGED <<received, counts, entry>>
BY DEF Next, Main, Worker, Prepare, Dispatch, DispatchBreak, Join, Finish, ExitRaised, Get,
       Check, RunJob, LaunchFails, Ship, Interrupt, sigint_hook, vars, mainVars

\* Nobody touches a job behind the workers.
LEMMA SettledStays ==
  ASSUME OnceInv, [Next]_vars, NEW j \in Jobs, Settled(j)
  PROVE  /\ Settled(j)' /\ (j \in received => j \in received')
         /\ skip'[j] = skip[j] /\ is_break'[j] = is_break[j]
         /\ returncode'[j] = returncode[j]
         /\ j \in ran' <=> j \in ran
         /\ j \in tmp_file' <=> j \in tmp_file
<1> USE DEF mainVars, jobVars, workerVars, signalVars
<1>1. ~Held(j) /\ j <= got /\ j # put + 1
  BY BehindTheQueue DEF OnceInv, EveryJobOnce, Settled
<1>2. Settled(j)'
  <2>1. ~Held(j)'
    BY <1>1, HeldBefore
  <2>2. EveryJobOnce'
    BY NextOnce DEF OnceInv
  <2>3. j <= got'
    <3>1. got' = got \/ got' = got + 1
      BY DEF Next, Main, Worker, Prepare, Dispatch, DispatchBreak, Collect, Join, Finish,
             ExitRaised, Get, Check, RunJob, LaunchFails, Ship, Interrupt, sigint_hook, vars
    <3> QED BY <1>1, <3>1, Sizes DEF OnceInv, TypeInv, TypeOK
  <2> QED BY <2>1, <2>2, <2>3 DEF EveryJobOnce, Settled
<1>3. received \subseteq received'
  BY OnlyCollectReceives DEF Collect
<1>4. CASE UNCHANGED <<skip, is_break, returncode, ran, tmp_file>>
  BY <1>2, <1>3, <1>4
<1>5. CASE Dispatch
  BY <1>1, <1>2, <1>3, <1>5 DEF Dispatch, OnceInv, TypeInv, TypeOK
<1>6. ASSUME NEW w \in Workers, Check(w) \/ RunJob(w)
      PROVE  /\ skip'[j] = skip[j] /\ is_break'[j] = is_break[j]
             /\ returncode'[j] = returncode[j]
             /\ j \in ran' <=> j \in ran
             /\ j \in tmp_file' <=> j \in tmp_file
  <2>1. hand[w] # j
    BY <1>1, <1>6 DEF Held, Holds, Check, RunJob
  <2> QED BY <1>6, <2>1 DEF Check, RunJob, OnceInv, TypeInv, TypeOK
<1>7. CASE \E w \in Workers : Get(w) \/ LaunchFails(w) \/ Ship(w)
  BY <1>4, <1>7 DEF Get, LaunchFails, Ship
<1>8. CASE Prepare \/ DispatchBreak \/ Collect \/ Join \/ Finish \/ ExitRaised
  BY <1>4, <1>8 DEF Prepare, DispatchBreak, Collect, Join, Finish, ExitRaised
<1>9. CASE Interrupt \/ sigint_hook \/ UNCHANGED vars
  BY <1>4, <1>9 DEF Interrupt, sigint_hook, vars
<1> QED BY <1>2, <1>3, <1>5, <1>6, <1>7, <1>8, <1>9 DEF Next, Main, Worker

LEMMA StatusMeans ==
  ASSUME TypeOK, NEW j \in Jobs
  PROVE  /\ Status(j) = "SKIP" <=> skip[j]
         /\ Status(j) = "PASS" <=> ~skip[j] /\ returncode[j] = 0
         /\ Status(j) = "CRASH" => ~skip[j] /\ returncode[j] # 0
BY DEF Status, TypeOK, ReturnCodes

LEMMA StatusStays ==
  ASSUME OnceInv, [Next]_vars, NEW j \in received
  PROVE  /\ Status(j)' = Status(j) /\ EntryOf(j)' = EntryOf(j)
         /\ is_break'[j] = is_break[j] /\ j \in received'
         /\ j \in tmp_file' <=> j \in tmp_file
         /\ Passed(j)' <=> Passed(j)
<1>1. j \in Jobs /\ Settled(j)
  BY DEF OnceInv, TypeInv, TypeOK, Settled
<1>2. /\ j \in received'
      /\ skip'[j] = skip[j] /\ is_break'[j] = is_break[j]
      /\ returncode'[j] = returncode[j]
      /\ j \in ran' <=> j \in ran
      /\ j \in tmp_file' <=> j \in tmp_file
  BY <1>1, SettledStays
<1>3. Status(j)' = Status(j)
  BY <1>2 DEF Status
<1>4. EntryOf(j)' = EntryOf(j)
  BY <1>3 DEF EntryOf
<1>5. Passed(j)' <=> Passed(j)
  BY <1>2 DEF Passed
<1> QED BY <1>2, <1>3, <1>4, <1>5

-----------------------------------------------------------------------------
(* Every settled job is resolved                                           *)

ResolvedInv ==
  /\ \A w \in Workers, j \in Jobs : wpc[w] = "ship" /\ hand[w] = j => Resolved(j)
  /\ \A j \in Jobs : Settled(j) => Resolved(j)

LEMMA NextResolved == OnceInv /\ ResolvedInv /\ [Next]_vars => ResolvedInv'
<1> SUFFICES ASSUME OnceInv, ResolvedInv, [Next]_vars PROVE ResolvedInv'
  OBVIOUS
<1> USE DEF mainVars, jobVars, workerVars, signalVars
<1>1. ASSUME NEW j \in Jobs, j # put + 1, Resolved(j)
      PROVE  Resolved(j)'
  <2>1. CASE UNCHANGED <<skip, is_break, ran>>
    BY <1>1, <2>1 DEF Resolved
  <2>2. CASE Dispatch
    BY <1>1, <2>2 DEF Dispatch, Resolved, OnceInv, TypeInv, TypeOK
  <2>3. ASSUME NEW w \in Workers, Check(w) \/ RunJob(w)
        PROVE  Resolved(j)'
    BY <1>1, <2>3 DEF Check, RunJob, Resolved, OnceInv, TypeInv, TypeOK
  <2>4. CASE \E w \in Workers : Get(w) \/ LaunchFails(w) \/ Ship(w)
    BY <2>1, <2>4 DEF Get, LaunchFails, Ship
  <2>5. CASE Prepare \/ DispatchBreak \/ Collect \/ Join \/ Finish \/ ExitRaised
    BY <2>1, <2>5 DEF Prepare, DispatchBreak, Collect, Join, Finish, ExitRaised
  <2>6. CASE Interrupt \/ sigint_hook \/ UNCHANGED vars
    BY <2>1, <2>6 DEF Interrupt, sigint_hook, vars
  <2> QED BY <2>2, <2>3, <2>4, <2>5, <2>6 DEF Next, Main, Worker
<1>2. ASSUME NEW w \in Workers, NEW j \in Jobs, wpc[w] = "ship", hand[w] = j
      PROVE  Resolved(j)'
  <2>1. Held(j) /\ Resolved(j)
    BY <1>2 DEF Holds, Held, ResolvedInv
  <2> QED BY <1>1, <2>1, BehindTheQueue
<1>3. ASSUME NEW w \in Workers, NEW j \in Jobs, wpc'[w] = "ship", hand'[w] = j
      PROVE  Resolved(j)'
  <2>1. CASE UNCHANGED <<wpc, hand>>
    BY <1>2, <1>3, <2>1
  <2>2. ASSUME NEW v \in Workers, Check(v)
        PROVE  Resolved(j)'
    <3>1. CASE v = w
      <4>1. hand[w] = j
        BY <1>3, <2>2, <3>1 DEF Check
      <4>2. is_break'[j] \/ skip'[j]
        BY <1>3, <2>2, <3>1, <4>1 DEF Check, GotoW, OnceInv, TypeInv, TypeOK
      <4> QED BY <4>2 DEF Resolved
    <3>2. CASE v # w
      BY <1>2, <1>3, <2>2, <3>2 DEF Check, GotoW, OnceInv, TypeInv, TypeOK
    <3> QED BY <3>1, <3>2
  <2>3. ASSUME NEW v \in Workers, RunJob(v)
        PROVE  Resolved(j)'
    <3>1. CASE v = w
      <4>1. j \in ran'
        BY <1>3, <2>3, <3>1 DEF RunJob
      <4> QED BY <4>1 DEF Resolved
    <3>2. CASE v # w
      BY <1>2, <1>3, <2>3, <3>2 DEF RunJob, GotoW, OnceInv, TypeInv, TypeOK
    <3> QED BY <3>1, <3>2
  <2>4. ASSUME NEW v \in Workers, Get(v) \/ LaunchFails(v) \/ Ship(v)
        PROVE  Resolved(j)'
    <3>1. v # w /\ wpc[w] = "ship" /\ hand[w] = j
      BY <1>3, <2>4 DEF Get, LaunchFails, Ship, GotoW, OnceInv, TypeInv, TypeOK
    <3> QED BY <1>2, <3>1
  <2>5. CASE Main \/ Interrupt \/ sigint_hook \/ UNCHANGED vars
    BY <2>1, <2>5 DEF Main, Prepare, Dispatch, DispatchBreak, Collect, Join, Finish,
                      ExitRaised, Interrupt, sigint_hook, vars
  <2> QED BY <2>2, <2>3, <2>4, <2>5 DEF Next, Worker
<1>4. ASSUME NEW j \in Jobs, Settled(j)'
      PROVE  Resolved(j)'
  <2>1. CASE Settled(j)
    BY <1>1, <2>1, BehindTheQueue DEF ResolvedInv
  <2>2. CASE ~Settled(j)
    <3>1. PICK w \in Workers : Ship(w) /\ j = hand[w]
      <4>1. CASE UNCHANGED <<output_queue, received>>
        BY <1>4, <2>2, <4>1 DEF Settled, Queued
      <4>2. ASSUME Collect PROVE FALSE
        <5>1. /\ output_queue \in Seq(Jobs) /\ output_queue # <<>>
              /\ output_queue' = Tail(output_queue)
              /\ received' = received \cup {Head(output_queue)}
          BY <4>2 DEF Collect, OnceInv, TypeInv, TypeOK
        <5>2. /\ 1 \in DOMAIN output_queue /\ Head(output_queue) = output_queue[1]
              /\ \A i \in DOMAIN output_queue' :
                   i + 1 \in DOMAIN output_queue /\ output_queue'[i] = output_queue[i + 1]
          BY <5>1, HeadOfQueue
        <5> QED BY <1>4, <2>2, <5>1, <5>2 DEF Settled, Queued
      <4>3. ASSUME NEW w \in Workers, Ship(w) PROVE j = hand[w]
        <5>1. /\ output_queue \in Seq(Jobs) /\ hand[w] \in Jobs /\ received' = received
              /\ output_queue' = Append(output_queue, hand[w])
          BY <4>3 DEF Ship, Holds, OnceInv, TypeInv, TypeOK
        <5>2. \A i \in DOMAIN output_queue' :
                \/ i \in DOMAIN output_queue /\ output_queue'[i] = output_queue[i]
                \/ output_queue'[i] = hand[w]
          BY <5>1, AppendToQueue
        <5> QED BY <1>4, <2>2, <5>1, <5>2 DEF Settled, Queued
      <4>4. CASE \E w \in Workers : Get(w) \/ Check(w) \/ RunJob(w) \/ LaunchFails(w)
        BY <4>1, <4>4 DEF Get, Check, RunJob, LaunchFails
      <4>5. CASE Prepare \/ Dispatch \/ DispatchBreak \/ Join \/ Finish \/ ExitRaised
        BY <4>1, <4>5 DEF Prepare, Dispatch, DispatchBreak, Join, Finish, ExitRaised
      <4>6. CASE Interrupt \/ sigint_hook \/ UNCHANGED vars
        BY <4>1, <4>6 DEF Interrupt, sigint_hook, vars
      <4> QED BY <4>2, <4>3, <4>4, <4>5, <4>6 DEF Next, Main, Worker
    <3>2. wpc[w] = "ship"
      BY <3>1 DEF Ship
    <3> QED BY <1>2, <3>1, <3>2
  <2> QED BY <2>1, <2>2
<1> QED BY <1>3, <1>4 DEF ResolvedInv

-----------------------------------------------------------------------------
(* What the main thread knows of the results                               *)

\* The received jobs that count as passed or skipped.
Good == {j \in received : ~is_break[j] /\ Status(j) \in {"PASS", "SKIP"}}

CountsAreExact == counts["PASS"] + counts["SKIP"] = Cardinality(Good)

Reported == \A j \in received : ~is_break[j] /\ EntryOf(j) = "own" => j \in tmp_file

CrashesAreReal ==
  \A j \in Jobs :
    entry[j] = "CRASH" => j \in received /\ ~is_break[j] /\ Status(j) = "CRASH"

AllPassed == \A j \in Jobs : Passed(j)
SomeFailed == \E j \in received : ~Passed(j)

Verdicts ==
  /\ pc \notin {"raised", "ended"} => Reported
  /\ pc = "translate" => closed /\ received = Jobs
  /\ pc = "raised" => SomeFailed
  /\ pc = "ended" => (exitcode = 0 /\ AllPassed) \/ (exitcode # 0 /\ SomeFailed)

HInv == OnceInv /\ ResolvedInv /\ CountsAreExact /\ CrashesAreReal /\ Verdicts

LEMMA InitHonest == Init => HInv
<1> SUFFICES ASSUME Init PROVE HInv
  OBVIOUS
<1>1. OnceInv
  BY InitTypes, InitOnce DEF OnceInv
<1>2. ResolvedInv
  BY DEF Init, ResolvedInv, Settled, Queued
<1>3. CountsAreExact
  <2>1. Good = {} /\ counts["PASS"] = 0 /\ counts["SKIP"] = 0
    BY DEF Init, Good, Statuses
  <2> QED BY <2>1, FS_EmptySet DEF CountsAreExact
<1>4. CrashesAreReal /\ Verdicts
  BY DEF Init, CrashesAreReal, Verdicts, Reported
<1> QED BY <1>1, <1>2, <1>3, <1>4 DEF HInv

LEMMA VerdictsLast ==
  ASSUME OnceInv, [Next]_vars
  PROVE  /\ AllPassed => AllPassed'
         /\ SomeFailed => SomeFailed'
<1>1. ASSUME AllPassed PROVE AllPassed'
  <2>1. ASSUME NEW j \in Jobs PROVE Passed(j)'
    <3>1. Passed(j) /\ j \in received
      BY <1>1 DEF AllPassed, Passed
    <3> QED BY <3>1, StatusStays
  <2> QED BY <2>1 DEF AllPassed
<1>2. ASSUME SomeFailed PROVE SomeFailed'
  BY <1>2, StatusStays DEF SomeFailed
<1> QED BY <1>1, <1>2

\* While nothing is received, the counts, the entries and the reports stay.
LEMMA NothingReceived ==
  ASSUME HInv, [Next]_vars, UNCHANGED <<received, counts, entry>>
  PROVE  CountsAreExact' /\ CrashesAreReal' /\ (Reported => Reported')
<1>1. ASSUME NEW j \in received
      PROVE  /\ Status(j)' = Status(j) /\ EntryOf(j)' = EntryOf(j)
             /\ is_break'[j] = is_break[j]
             /\ j \in tmp_file' <=> j \in tmp_file
  BY StatusStays DEF HInv
<1>2. Good' = Good
  BY <1>1 DEF Good
<1>3. CountsAreExact'
  BY <1>2 DEF HInv, CountsAreExact
<1>4. CrashesAreReal'
  BY <1>1 DEF HInv, CrashesAreReal
<1>5. Reported => Reported'
  BY <1>1 DEF Reported
<1> QED BY <1>3, <1>4, <1>5

LEMMA GoodIsFinite ==
  ASSUME TypeOK
  PROVE  /\ Good \subseteq Jobs /\ IsFiniteSet(Good) /\ Cardinality(Good) \in Nat
         /\ Cardinality(Good) = NumJobs => Good = Jobs
<1>1. Good \subseteq Jobs
  BY DEF Good, TypeOK
<1> QED BY <1>1, Sizes, FS_Subset, FS_CardinalityType

LEMMA CollectHonest ==
  ASSUME HInv, Collect, [Next]_vars
  PROVE  CountsAreExact' /\ CrashesAreReal' /\ Verdicts'
<1> DEFINE h == Head(output_queue)
<1>1. /\ pc = "collect" /\ h \in Jobs /\ received' = received \cup {h}
      /\ h = output_queue[1] /\ 1 \in DOMAIN output_queue
      /\ Ignore(h) \/ Report(h)
      /\ UNCHANGED <<skip, is_break, returncode, tmp_file, ran>>
  <2>1. output_queue \in Seq(Jobs) /\ output_queue # <<>>
    BY DEF Collect, HInv, OnceInv, TypeInv, TypeOK
  <2> QED BY <2>1, HeadOfQueue DEF Collect, jobVars
<1> HIDE DEF h
<1>2. h \notin received /\ Settled(h)
  BY <1>1 DEF HInv, OnceInv, EveryJobOnce, Settled, Queued
<1>3. \A j : Status(j)' = Status(j) /\ EntryOf(j)' = EntryOf(j)
  BY <1>1 DEF Status, EntryOf
<1>4. /\ TypeOK /\ IsFiniteSet(Good) /\ Cardinality(Good) \in Nat /\ h \notin Good
      /\ CountsAreExact /\ CrashesAreReal /\ Reported
  BY <1>1, <1>2, GoodIsFinite DEF HInv, OnceInv, TypeInv, Verdicts, Good
<1>5. CASE Ignore(h)
  <2>1. is_break[h] /\ UNCHANGED <<pc, counts, entry>>
    BY <1>5 DEF Ignore
  <2>2. Good' = Good
    BY <1>1, <1>3, <2>1 DEF Good
  <2>3. CountsAreExact'
    BY <1>4, <2>1, <2>2 DEF CountsAreExact
  <2>4. CrashesAreReal'
    BY <1>1, <1>3, <1>4, <2>1 DEF CrashesAreReal
  <2>5. Reported'
    BY <1>1, <1>3, <1>4, <2>1 DEF Reported
  <2> QED BY <1>1, <2>1, <2>3, <2>4, <2>5 DEF Verdicts
<1>6. CASE Report(h)
  <2>1. ~is_break[h] /\ counts' = [counts EXCEPT ![Status(h)] = @ + 1]
    BY <1>6 DEF Report
  <2>2. counts["PASS"] \in Nat /\ counts["SKIP"] \in Nat
    BY <1>4 DEF TypeOK, Statuses
  <2>3. CountsAreExact'
    <3>1. CASE Status(h) \in {"PASS", "SKIP"}
      <4>1. Good' = Good \cup {h}
        BY <1>1, <1>3, <2>1, <3>1 DEF Good
      <4>2. Cardinality(Good') = Cardinality(Good) + 1
        BY <1>4, <4>1, FS_AddElement
      <4>3. counts'["PASS"] + counts'["SKIP"] = counts["PASS"] + counts["SKIP"] + 1
        BY <1>4, <2>1, <2>2, <3>1 DEF TypeOK, Statuses
      <4> QED BY <1>4, <4>2, <4>3 DEF CountsAreExact
    <3>2. CASE Status(h) \notin {"PASS", "SKIP"}
      <4>1. Good' = Good
        BY <1>1, <1>3, <2>1, <3>2 DEF Good
      <4>2. counts'["PASS"] = counts["PASS"] /\ counts'["SKIP"] = counts["SKIP"]
        BY <1>4, <2>1, <3>2 DEF TypeOK, Statuses
      <4> QED BY <1>4, <4>1, <4>2 DEF CountsAreExact
    <3> QED BY <3>1, <3>2
  <2>4. CASE EntryOf(h) = "own" /\ h \notin tmp_file
    <3>1. pc' = "raised" /\ entry' = entry
      BY <1>6, <2>4 DEF Report
    <3>2. CrashesAreReal'
      BY <1>1, <1>3, <1>4, <3>1 DEF CrashesAreReal
    <3>3. ~skip[h] /\ ~IsExample(h)
      BY <1>1, <1>4, <2>4, StatusMeans DEF EntryOf, Status
    <3>4. PICK j \in received' : j = h
      BY <1>1
    <3>5. ~Passed(j)'
      BY <1>1, <2>4, <3>3, <3>4 DEF Passed
    <3> QED BY <2>3, <3>1, <3>2, <3>4, <3>5 DEF Verdicts, SomeFailed
  <2>5. CASE ~(EntryOf(h) = "own" /\ h \notin tmp_file)
    <3>1. pc' = pc /\ entry' = [entry EXCEPT ![h] = EntryOf(h)]
      BY <1>6, <2>5 DEF Report
    <3>2. entry'[h] = "CRASH" => Status(h) = "CRASH"
      BY <1>1, <1>4, <3>1 DEF EntryOf, TypeOK
    <3>3. \A j \in Jobs \ {h} : entry'[j] = entry[j]
      BY <1>4, <3>1 DEF TypeOK
    <3>4. CrashesAreReal'
      BY <1>1, <1>3, <1>4, <2>1, <3>2, <3>3 DEF CrashesAreReal
    <3>5. Reported'
      BY <1>1, <1>3, <1>4, <2>5 DEF Reported
    <3> QED BY <1>1, <2>3, <3>1, <3>4, <3>5 DEF Verdicts
  <2> QED BY <2>4, <2>5
<1> QED BY <1>1, <1>5, <1>6

\* All jobs are in: the counts tell whether each of them passed.
LEMMA FinishHonest ==
  ASSUME HInv, Finish, [Next]_vars
  PROVE  Verdicts'
<1>1. pc = "translate" /\ closed /\ received = Jobs /\ Reported /\ TypeOK
  BY DEF Finish, HInv, Verdicts, OnceInv, TypeInv
<1>2. UNCHANGED <<received, skip, is_break, returncode, tmp_file, ran, counts>>
  BY DEF Finish, jobVars
<1>3. \A j : Passed(j)' <=> Passed(j)
  BY <1>2 DEF Passed
<1>4. (SomeFailed' <=> SomeFailed) /\ (AllPassed' <=> AllPassed)
  BY <1>2, <1>3 DEF SomeFailed, AllPassed
<1>5. CASE ~WellFormed /\ pc' = "raised"
  <2>1. PICK j \in Jobs : entry[j] = "CRASH" /\ ~IsExample(j)
    BY <1>1, <1>5 DEF WellFormed
  <2>2. Status(j) = "CRASH"
    BY <2>1 DEF HInv, CrashesAreReal
  <2>3. ~Passed(j)
    BY <1>1, <2>2, StatusMeans DEF Passed
  <2> QED BY <1>1, <1>4, <1>5, <2>3 DEF Verdicts, SomeFailed
<1>6. CASE /\ pc' = "ended"
           /\ exitcode' = IF counts["PASS"] + counts["SKIP"] = NumJobs THEN 0 ELSE 1
  <2>1. exitcode' = IF Cardinality(Good) = NumJobs THEN 0 ELSE 1
    BY <1>6 DEF HInv, CountsAreExact
  <2>2. CASE Cardinality(Good) = NumJobs
    <3>1. Good = Jobs
      BY <1>1, <2>2, GoodIsFinite
    <3>2. ASSUME NEW j \in Jobs PROVE Passed(j)
      <4>1. ~is_break[j] /\ Status(j) \in {"PASS", "SKIP"}
        BY <3>1 DEF Good
      <4>2. skip[j] \/ (~skip[j] /\ returncode[j] = 0 /\ Status(j) = "PASS")
        BY <1>1, <4>1, StatusMeans
      <4>3. is_break[j] \/ skip[j] \/ j \in ran
        BY <1>1 DEF HInv, ResolvedInv, Settled, Resolved
      <4>4. Status(j) = "PASS" => IsExample(j) \/ j \in tmp_file
        BY <1>1, <4>1 DEF Reported, EntryOf
      <4> QED BY <1>1, <4>1, <4>2, <4>3, <4>4 DEF Passed
    <3> QED BY <1>4, <1>6, <2>1, <2>2, <3>2 DEF Verdicts, AllPassed
  <2>3. CASE Cardinality(Good) # NumJobs
    <3>1. PICK j \in Jobs : j \notin Good
      <4>1. Good # Jobs
        BY <2>3, Sizes
      <4> QED BY <1>1, <4>1, GoodIsFinite
    <3>2. is_break[j] \/ Status(j) \notin {"PASS", "SKIP"}
      BY <1>1, <3>1 DEF Good
    <3>3. ~Passed(j)
      BY <1>1, <3>2, StatusMeans DEF Passed
    <3> QED BY <1>1, <1>4, <1>6, <2>1, <2>3, <3>3 DEF Verdicts, SomeFailed
  <2> QED BY <2>2, <2>3
<1> QED BY <1>5, <1>6 DEF Finish

LEMMA JoinHonest ==
  ASSUME HInv, Join, [Next]_vars
  PROVE  Verdicts'
<1>1. /\ pc = "collect" /\ Cardinality(received) = NumJobs /\ closed' = TRUE
      /\ pc' = "translate" /\ UNCHANGED <<received, counts, entry>>
  BY DEF Join
<1>2. received = Jobs
  BY <1>1, Sizes, FS_Subset DEF HInv, OnceInv, TypeInv, TypeOK
<1>3. Reported'
  BY <1>1, NothingReceived DEF HInv, Verdicts
<1> QED BY <1>1, <1>2, <1>3 DEF Verdicts

LEMMA NextHonest == HInv /\ [Next]_vars => HInv'
<1> SUFFICES ASSUME HInv, [Next]_vars PROVE HInv'
  OBVIOUS
<1>1. OnceInv' /\ ResolvedInv'
  BY NextOnce, NextResolved DEF HInv
<1>2. /\ AllPassed => AllPassed'
      /\ SomeFailed => SomeFailed'
  BY VerdictsLast DEF HInv
<1>3. CASE Collect
  BY <1>1, <1>3, CollectHonest DEF HInv
<1>4. CASE UNCHANGED <<received, counts, entry>>
  <2>1. CountsAreExact' /\ CrashesAreReal' /\ (Reported => Reported')
    BY <1>4, NothingReceived
  <2>2. Verdicts'
    <3>1. CASE UNCHANGED <<pc, exitcode, closed>>
      <4>1. pc = "translate" => closed' /\ received' = Jobs
        BY <1>4, <3>1 DEF HInv, Verdicts
      <4> QED BY <1>2, <2>1, <3>1, <4>1 DEF HInv, Verdicts
    <3>2. CASE Prepare \/ Dispatch \/ DispatchBreak
      <4>1. pc \notin {"raised", "ended"} /\ pc' \notin {"raised", "ended", "translate"}
        BY <3>2 DEF Prepare, Dispatch, DispatchBreak, mainVars
      <4> QED BY <2>1, <4>1 DEF HInv, Verdicts
    <3>3. CASE Join
      BY <3>3, JoinHonest
    <3>4. CASE Finish
      BY <3>4, FinishHonest
    <3>5. CASE ExitRaised
      <4>1. pc = "raised" /\ pc' = "ended" /\ exitcode' = 1
        BY <3>5 DEF ExitRaised
      <4> QED BY <1>2, <4>1 DEF HInv, Verdicts
    <3>6. CASE Collect
      BY <3>6, CollectHonest
    <3>7. CASE \E w \in Workers : Worker(w)
      BY <3>1, <3>7 DEF Worker, Get, Check, RunJob, LaunchFails, Ship, mainVars
    <3>8. CASE Interrupt \/ sigint_hook \/ UNCHANGED vars
      BY <3>1, <3>8 DEF Interrupt, sigint_hook, vars, mainVars
    <3> QED BY <3>2, <3>3, <3>4, <3>5, <3>6, <3>7, <3>8 DEF Next, Main
  <2> QED BY <1>1, <2>1, <2>2 DEF HInv
<1> QED BY <1>3, <1>4, OnlyCollectReceives

-----------------------------------------------------------------------------
(* The theorems                                                            *)

\* The invariant behind the others, along every behaviour.
THEOREM RunnerInvariant == Spec => []HInv
BY InitHonest, NextHonest, PTL DEF Spec

\* The variables keep their types, and the queues their bounds (test.py:1427).
THEOREM RunnerTypes == Spec => []TypeOK
<1>1. HInv => TypeOK
  BY DEF HInv, OnceInv, TypeInv
<1> QED BY <1>1, RunnerInvariant, PTL

\* No job is lost, doubled or in two hands (test.py:851-917, 1447).
THEOREM JobsAreInOnePlace == Spec => []EveryJobOnce
<1>1. HInv => EveryJobOnce
  BY DEF HInv, OnceInv
<1> QED BY <1>1, RunnerInvariant, PTL

\* The exit code is 0 if and only if every job passed or was skipped, whatever
\* is interrupted, lost or unreadable on the way (test.py:1448-1471, 1638).
THEOREM ExitCodeTellsTheTruth == Spec => []ExitCodeIsHonest
<1>1. HInv => ExitCodeIsHonest
  <2> SUFFICES ASSUME HInv, pc = "ended"
               PROVE  exitcode = 0 <=> AllPassed
    BY DEF ExitCodeIsHonest, AllPassed
  <2>1. (exitcode = 0 /\ AllPassed) \/ (exitcode # 0 /\ SomeFailed)
    BY DEF HInv, Verdicts
  <2>2. SomeFailed => ~AllPassed
    BY DEF SomeFailed, AllPassed, HInv, OnceInv, TypeInv, TypeOK
  <2> QED BY <2>1, <2>2
<1> QED BY <1>1, RunnerInvariant, PTL
=============================================================================
