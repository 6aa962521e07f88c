----------------------------- MODULE TestRunner -----------------------------
(***************************************************************************)
(* test.py, from the point where the worker threads are started: the main  *)
(* thread puts one job per test in a queue, and one break job per worker;  *)
(* the workers run the jobs as processes and put them in a second queue;   *)
(* the main thread takes as many jobs from there as it put, writes the     *)
(* results, joins the workers and returns the exit code.  SIGINT may come  *)
(* at any time.  A test is a process that ends with some return code.      *)
(***************************************************************************)
EXTENDS Integers, Sequences, FiniteSets

CONSTANTS
  Suites, Examples, PyExamples,  \* the tests, of three kinds
  Skips,      \* tests that are dispatched with is_skip set
  Garbled,    \* tests whose output may not be valid UTF-8
  Codes,      \* return codes of the processes
  Workers,    \* one worker_thread per processor
  SpawnFails, \* subprocess.Popen may raise OSError
  Break       \* a job with is_break set, to end a worker

Jobs == Suites \cup Examples \cup PyExamples

ASSUME RunnerAssumption ==
  /\ IsFiniteSet(Jobs) /\ IsFiniteSet(Workers)
  /\ Suites \cap Examples = {} /\ Suites \cap PyExamples = {}
  /\ Examples \cap PyExamples = {}
  /\ Break \notin Jobs /\ Skips \cup Garbled \subseteq Jobs
  /\ Codes \subseteq -64 .. 255
  /\ SpawnFails \in BOOLEAN

\* What a worker may report instead of a return code; NoCode is the code of a
\* process that has not ended.
IsBreak == 1000
IsSkip == 1001
NoCode == 1002

VARIABLES
  main,         \* what the main thread does
  undispatched, \* tests that are not in the input queue yet
  thread_exit,  \* the global that sigint_hook sets
  input_queue,
  output_queue, \* jobs, and what their worker reports of them
  worker,       \* worker[w]: what the thread does, and its job
  process,      \* process[j]: the code j ended with, whether its output can be
                \* decoded, and the file it saved
  left,         \* results the main thread still waits for
  tally,        \* counters of the main thread
  results,      \* results[j]: entries of the XML results file for test j
  exit          \* the value run_tests returns, 1 when it raises

vars == <<main, undispatched, thread_exit, input_queue, output_queue, worker,
          process, left, tally, results, exit>>

Init ==
  /\ main = "dispatch"
  /\ undispatched = Jobs
  /\ thread_exit = FALSE
  /\ input_queue = <<>>
  /\ output_queue = <<>>
  /\ worker = [w \in Workers |-> [at |-> "get", job |-> Break]]
  /\ process = [j \in Jobs |-> [code |-> NoCode, readable |-> TRUE, saved |-> "none"]]
  /\ left = 0
  /\ tally = [passed |-> 0, failed |-> 0, valgrind |-> 0, crashed |-> 0, skipped |-> 0]
  /\ results = [j \in Jobs |-> <<>>]
  /\ exit = -1

-----------------------------------------------------------------------------
(* The main thread. *)

\* Mutant: jobs is counted twice.
DispatchKindTwice(kind) ==
  \E j \in kind \cap undispatched :
    /\ main = "dispatch"
    /\ undispatched' = undispatched \ {j}
    /\ input_queue' = Append(input_queue, j)
    /\ left' = left + 2
    /\ UNCHANGED <<main, thread_exit, output_queue, worker, process, tally, results, exit>>

\* All suites are dispatched before the examples, and those before the
\* Python examples.
DispatchKind(kind) ==
  \E j \in kind \cap undispatched :
    /\ main = "dispatch"
    /\ undispatched' = undispatched \ {j}
    /\ input_queue' = Append(input_queue, j)
    /\ left' = left + 1
    /\ UNCHANGED <<main, thread_exit, output_queue, worker, process, tally, results, exit>>

DispatchSuite == DispatchKind(Suites)
DispatchExample == Suites \cap undispatched = {} /\ DispatchKind(Examples)
DispatchPyExample ==
  (Suites \cup Examples) \cap undispatched = {} /\ DispatchKind(PyExamples)

\* Mutant: one break job too many.
BreaksOneMore == [i \in 1 .. Cardinality(Workers) + 1 |-> Break]

Breaks == [i \in 1 .. Cardinality(Workers) |-> Break]

\* One break job for each worker.  Nothing else puts jobs here, so putting
\* them one by one makes no difference.
DispatchBreaks ==
  /\ main = "dispatch" /\ undispatched = {}
  /\ main' = "collect"
  /\ input_queue' = input_queue \o Breaks
  /\ UNCHANGED <<undispatched, thread_exit, output_queue, worker, process, left,
                 tally, results, exit>>

Status(said) ==
  CASE said = IsSkip -> "skipped"
    [] said = 0 -> "passed"
    [] said = 1 -> "failed"
    [] said = 2 -> "valgrind"
    [] OTHER -> "crashed"

\* Mutant: the file of a suite that crashed is copied as well.
HasXmlUnlessSkipped(j, said) == j \in Suites /\ said # IsSkip

\* For these codes the main thread copies the file that a suite saved.
HasXml(j, said) == j \in Suites /\ said \in 0 .. 2

\* e is appended to the results file as an entry for test j.
Write(j, e) == results' = [results EXCEPT ![j] = Append(@, e)]

\* One turn of the loop over output_queue.get().  The entry of a suite whose
\* file is copied is that file, complete or not; no other entry is added for
\* a valgrind error.
Collect ==
  /\ main = "collect" /\ left > 0 /\ output_queue # <<>>
  /\ output_queue' = Tail(output_queue)
  /\ left' = left - 1
  /\ LET j == Head(output_queue).job
         said == Head(output_queue).said
     IN \/ /\ said = IsBreak
           /\ UNCHANGED <<main, tally, results, exit>>
        \/ /\ said # IsBreak
           /\ tally' = [tally EXCEPT ![Status(said)] = @ + 1]
           /\ \/ /\ HasXml(j, said) /\ process[j].saved = "none"
                 /\ main' = "raised" /\ exit' = 1   \* open() raises IOError
                 /\ UNCHANGED results
              \/ /\ HasXml(j, said) /\ process[j].saved # "none"
                 /\ Write(j, process[j].saved)
                 /\ UNCHANGED <<main, exit>>
              \/ /\ ~HasXml(j, said)
                 /\ Write(j, Status(said))
                 /\ UNCHANGED <<main, exit>>
  /\ UNCHANGED <<undispatched, thread_exit, input_queue, worker, process>>

\* Mutant: only failures count, not jobs that were given back.
VerdictByFailures == IF tally.failed + tally.crashed + tally.valgrind = 0 THEN 0 ELSE 1

Verdict == IF tally.passed + tally.skipped = Cardinality(Jobs) THEN 0 ELSE 1

\* thread.join() for every worker, and the rest of run_tests.
JoinAll ==
  /\ main = "collect" /\ left = 0
  /\ \A w \in Workers : worker[w].at \in {"gone", "died"}
  /\ main' = "exited"
  /\ exit' = Verdict
  /\ UNCHANGED <<undispatched, thread_exit, input_queue, output_queue, worker,
                 process, left, tally, results>>

-----------------------------------------------------------------------------
(* worker_thread.run *)

Report(w, said) ==
  /\ output_queue' = Append(output_queue, [job |-> worker[w].job, said |-> said])
  /\ worker' = [worker EXCEPT ![w] = [at |-> "get", job |-> Break]]

\* input_queue.get(), and the end of the thread.
Get(w) ==
  /\ worker[w].at = "get" /\ input_queue # <<>>
  /\ input_queue' = Tail(input_queue)
  /\ worker' = [worker EXCEPT ![w] =
       [at |-> IF Head(input_queue) = Break THEN "gone" ELSE "check",
        job |-> Head(input_queue)]]
  /\ UNCHANGED <<main, undispatched, thread_exit, output_queue, process, left,
                 tally, results, exit>>

\* Mutant: without its second "continue" a skipped job is reported and run.
CheckFallsThrough(w) ==
  /\ worker[w].at = "check"
  /\ \/ thread_exit /\ Report(w, IsBreak)
     \/ /\ ~thread_exit
        /\ worker' = [worker EXCEPT ![w].at = "run"]
        /\ output_queue' = IF worker[w].job \in Skips
             THEN Append(output_queue, [job |-> worker[w].job, said |-> IsSkip])
             ELSE output_queue
  /\ UNCHANGED <<main, undispatched, thread_exit, input_queue, process, left,
                 tally, results, exit>>

\* Mutant: an interrupted worker drops the job.
CheckDrops(w) ==
  /\ worker[w].at = "check"
  /\ \/ /\ thread_exit
        /\ worker' = [worker EXCEPT ![w] = [at |-> "get", job |-> Break]]
        /\ UNCHANGED output_queue
     \/ ~thread_exit /\ worker[w].job \in Skips /\ Report(w, IsSkip)
     \/ /\ ~thread_exit /\ worker[w].job \notin Skips
        /\ worker' = [worker EXCEPT ![w].at = "run"]
        /\ UNCHANGED output_queue
  /\ UNCHANGED <<main, undispatched, thread_exit, input_queue, process, left,
                 tally, results, exit>>

\* The job is given back as a break, is skipped, or is launched.
Check(w) ==
  /\ worker[w].at = "check"
  /\ \/ thread_exit /\ Report(w, IsBreak)
     \/ ~thread_exit /\ worker[w].job \in Skips /\ Report(w, IsSkip)
     \/ /\ ~thread_exit /\ worker[w].job \notin Skips
        /\ worker' = [worker EXCEPT ![w].at = "run"]
        /\ UNCHANGED output_queue
  /\ UNCHANGED <<main, undispatched, thread_exit, input_queue, process, left,
                 tally, results, exit>>

\* Return codes of a process that ran to its end; 2 is what valgrind makes of
\* it when it has found an error.
Completed(code) == code \in 0 .. 2

\* TestRunnerImpl::Run opens the file before the suite runs and reports into it
\* when the suite has run.  One that crashes leaves no file, when that was
\* before, or one that is empty or ends anywhere.
Saved(j, code) ==
  CASE j \notin Suites -> {"none"}
    [] j \in Suites /\ Completed(code) -> {"complete"}
    [] OTHER -> {"none", "partial"}

\* Output that cannot be decoded makes the return code 1.
ReturnValue(code, readable) == IF readable THEN code ELSE 1

\* run_job_synchronously: the process ends and its job is reported.
RunJob(w) ==
  /\ worker[w].at = "run"
  /\ \E code \in Codes, readable \in BOOLEAN :
       \E saved \in Saved(worker[w].job, code) :
         /\ readable \/ worker[w].job \in Garbled
         /\ process' = [process EXCEPT ![worker[w].job] =
              [code |-> code, readable |-> readable, saved |-> saved]]
         /\ Report(w, ReturnValue(code, readable))
  /\ UNCHANGED <<main, undispatched, thread_exit, input_queue, left, tally, results, exit>>

\* subprocess.Popen raises in the thread, which dies with its job.
SpawnFailed(w) ==
  /\ SpawnFails /\ worker[w].at = "run"
  /\ worker' = [worker EXCEPT ![w].at = "died"]
  /\ UNCHANGED <<main, undispatched, thread_exit, input_queue, output_queue,
                 process, left, tally, results, exit>>

\* sigint_hook
Interrupt ==
  /\ ~thread_exit /\ main \in {"dispatch", "collect"}
  /\ thread_exit' = TRUE
  /\ UNCHANGED <<main, undispatched, input_queue, output_queue, worker, process,
                 left, tally, results, exit>>

-----------------------------------------------------------------------------
MainStep ==
  \/ DispatchSuite \/ DispatchExample \/ DispatchPyExample
  \/ DispatchBreaks \/ Collect \/ JoinAll
WorkerStep(w) == Get(w) \/ Check(w) \/ RunJob(w)

Next ==
  \/ MainStep
  \/ \E w \in Workers : WorkerStep(w) \/ SpawnFailed(w)
  \/ Interrupt

\* The threads are scheduled, and every test ends.
Fairness == WF_vars(MainStep) /\ \A w \in Workers : WF_vars(WorkerStep(w))

Spec == Init /\ [][Next]_vars
FairSpec == Spec /\ Fairness

-----------------------------------------------------------------------------
Entries ==
  {"partial", "complete", "passed", "failed", "valgrind", "crashed", "skipped"}

Reports == [job : Jobs, said : {IsBreak, IsSkip} \cup Codes \cup {1}]

TypeOK ==
  /\ main \in {"dispatch", "collect", "raised", "exited"}
  /\ undispatched \subseteq Jobs
  /\ thread_exit \in BOOLEAN
  /\ input_queue \in Seq(Jobs \cup {Break})
  /\ output_queue \in Seq(Reports)
  /\ worker \in [Workers -> [at : {"get", "check", "run", "gone", "died"},
                             job : Jobs \cup {Break}]]
  /\ process \in [Jobs -> [code : Codes \cup {NoCode}, readable : BOOLEAN,
                         saved : {"none", "partial", "complete"}]]
  /\ left \in 0 .. Cardinality(Jobs)
  /\ tally \in [{"passed", "failed", "valgrind", "crashed", "skipped"} -> 0 .. Cardinality(Jobs)]
  /\ results \in [Jobs -> Seq(Entries)]
  /\ exit \in {-1, 0, 1}

Good(j) == j \in Skips \/ (process[j].code = 0 /\ process[j].readable)

\* The exit code is 0 only when every test was skipped or its process has
\* returned 0, also when workers finish in any order and SIGINT arrives
\* between any two of their steps; and when that is so and nobody
\* interrupted the run, it is 0.
ExitTellsTruth ==
  main = "exited" =>
    /\ exit = 0 => \A j \in Jobs : Good(j)
    /\ (\A j \in Jobs : Good(j)) /\ ~thread_exit => exit = 0

InQueue(j) == {i \in 1 .. Len(input_queue) : input_queue[i] = j}
InHand(j) == {w \in Workers : worker[w].job = j}
Reported(j) == {i \in 1 .. Len(output_queue) : output_queue[i].job = j}

\* A dispatched test is never in two places: in the input queue, in the hand
\* of one worker or in the output queue; and the main thread waits for
\* exactly those and the ones it is about to take: no more, or it would wait
\* forever, and no fewer, or it would leave results behind.
JobsKept ==
  /\ \A j \in Jobs :
       Cardinality(InQueue(j)) + Cardinality(InHand(j)) + Cardinality(Reported(j)) <= 1
  /\ left = Cardinality({j \in Jobs : InQueue(j) \cup InHand(j) \cup Reported(j) # {}})

\* When run_tests is at its end every worker has taken its own break job:
\* nothing is left in a queue, and no process is running.
NothingLeftBehind ==
  main = "exited" => /\ input_queue = <<>> /\ output_queue = <<>>
                     /\ \A w \in Workers : worker[w].at = "gone"

\* What an entry of the results file tells of its test: a test is only shown as
\* skipped, or as crashed, when it was; the file of a suite is shown when the
\* suite ran to its end, or when it crashed and its output was undecodable,
\* which hides the crash; anything else is what the return code stands for.
Describes(e, j) ==
  \/ e = "skipped" /\ j \in Skips
  \/ e = "complete" /\ j \in Suites /\ Completed(process[j].code)
  \/ e = "partial" /\ j \in Suites /\ ~Completed(process[j].code) /\ ~process[j].readable
  \/ e = "crashed" /\ ~Completed(process[j].code) /\ process[j].readable
  \/ e \in {"passed", "failed", "valgrind"} /\ j \notin Suites
     /\ e = Status(ReturnValue(process[j].code, process[j].readable))

\* A run that was not interrupted has one entry for every test, which tells what
\* became of it, in whatever order workers finish.  That is so for valgrind
\* errors, too: the comment at test.py:1753-1757 says that a suite that fails
\* valgrind has its PASS entry followed by a VALGR one, but the code at 1767-1772
\* writes the first only.
EachReportedOnce ==
  main = "exited" /\ ~thread_exit =>
    \A j \in Jobs : Len(results[j]) = 1 /\ Describes(results[j][1], j)

\* The run ends, whatever the tests return and whenever SIGINT arrives, unless
\* a worker dies: the main thread waits for ever for the job it took along.
Ends == <>(main \in {"exited", "raised"} \/ \E w \in Workers : worker[w].at = "died")
=============================================================================
