-------------------------- MODULE TestRunner_proofs --------------------------
(***************************************************************************)
(* Proofs about the test runner, for any tests, workers and return codes:  *)
(* no job is lost or doubled, the exit code tells the truth, every test is *)
(* reported once, and nothing is left in a queue at the end, wherever      *)
(* SIGINT comes in between.                                                *)
(*                                                                         *)
(* The main thread only counts.  That the counts are right follows from    *)
(* an invariant that says where each job is: not dispatched, in one of     *)
(* three places, or Done; and what became of the jobs that are Done.       *)
(***************************************************************************)
EXTENDS TestRunner, FiniteSetTheorems, SequenceTheorems, TLAPS

\* The places of a dispatched job.
Inputs == {j \in Jobs : \E i \in 1 .. Len(input_queue) : input_queue[i] = j}
Held == {j \in Jobs : \E w \in Workers : worker[w].job = j}
Outputs == {j \in Jobs : \E i \in 1 .. Len(output_queue) : output_queue[i].job = j}

Live == Inputs \cup Held \cup Outputs

\* Jobs whose result the main thread has taken.
Done == Jobs \ (undispatched \cup Live)

\* No place has a job twice.
InputsOnce ==
  \A i, k \in 1 .. Len(input_queue) :
    input_queue[i] \in Jobs /\ input_queue[i] = input_queue[k] => i = k
HeldOnce ==
  \A w, v \in Workers :
    worker[w].job \in Jobs /\ worker[w].job = worker[v].job => w = v
OutputsOnce ==
  \A i, k \in 1 .. Len(output_queue) :
    output_queue[i].job = output_queue[k].job => i = k

\* Nor is a job in two places.
PlacesOK ==
  /\ InputsOnce /\ HeldOnce /\ OutputsOnce
  /\ Inputs \cap Held = {} /\ Inputs \cap Outputs = {} /\ Held \cap Outputs = {}
  /\ undispatched \cap Live = {}

\* The main thread waits for the jobs in these places.
LeftOK == left = Cardinality(Live)

\* A worker has a job exactly between input_queue.get() and its report; a
\* job it runs is none of the skipped ones.
WorkersOK ==
  \A w \in Workers :
    /\ worker[w].job \in Jobs <=> worker[w].at \in {"check", "run", "died"}
    /\ worker[w].at = "run" => worker[w].job \notin Skips

\* The places of break jobs in the input queue, and the workers to come.
BreaksIn(s) == {i \in 1 .. Len(s) : s[i] = Break}
Working == {w \in Workers : worker[w].at # "gone"}

\* There is one break job for every worker that is not gone.
BreaksOK ==
  /\ main = "dispatch" => BreaksIn(input_queue) = {} /\ Working = Workers
  /\ main # "dispatch" =>
       /\ undispatched = {}
       /\ Cardinality(BreaksIn(input_queue)) = Cardinality(Working)

\* What a worker has said of a job agrees with what became of it.
Truthful(j, said) ==
  \/ said = IsSkip /\ j \in Skips /\ process[j].code = NoCode
  \/ said = IsBreak /\ thread_exit /\ process[j].code = NoCode
  \/ /\ process[j].code \in Codes
     /\ said = ReturnValue(process[j].code, process[j].readable)

ReportsOK ==
  /\ \A j \in undispatched \cup Inputs \cup Held : process[j].code = NoCode
  /\ \A j \in Skips : process[j].code = NoCode
  /\ \A i \in 1 .. Len(output_queue) :
       Truthful(output_queue[i].job, output_queue[i].said)

Statuses == {"passed", "failed", "valgrind", "crashed", "skipped"}

\* What the main thread counted a job as; "none" for one that was given back.
Outcome(j) ==
  IF results[j] = <<"skipped">> THEN "skipped"
  ELSE IF process[j].code = NoCode THEN "none"
  ELSE Status(ReturnValue(process[j].code, process[j].readable))

CountedAs(s) == {j \in Done : Outcome(j) = s}

\* The counters count the jobs that are Done, and the results are theirs.
ResultsOK ==
  /\ \A s \in Statuses : tally[s] = Cardinality(CountedAs(s))
  /\ \A j \in Jobs : results[j] = <<>> \/ (j \in Done /\ \E e : results[j] = <<e>>)
  /\ \A j \in Jobs : results[j] = <<"skipped">> => j \in Skips
  /\ ~thread_exit => \A j \in Done : IF j \in Skips THEN results[j] = <<"skipped">>
                                                  ELSE process[j].code \in Codes
  /\ ~thread_exit /\ main # "raised" => \A j \in Done : results[j] # <<>>

\* The program ends when there is nothing left to wait for.
ExitOK ==
  main = "exited" =>
    /\ left = 0 /\ exit = Verdict
    /\ \A w \in Workers : worker[w].at \in {"gone", "died"}

IInv ==
  /\ TypeOK
  /\ PlacesOK /\ WorkersOK /\ BreaksOK
  /\ LeftOK
  /\ ReportsOK /\ ResultsOK /\ ExitOK

-----------------------------------------------------------------------------
(* Queues. *)

\* What a queue has after put() and after get().
LEMMA AfterPut ==
  ASSUME NEW S, NEW s \in Seq(S), NEW e \in S
  PROVE  /\ Append(s, e) \in Seq(S)
         /\ Len(s) \in Nat /\ Len(Append(s, e)) = Len(s) + 1
         /\ \A i \in 1 .. Len(s) : Append(s, e)[i] = s[i]
         /\ Append(s, e)[Len(s) + 1] = e
<1>1. Len(s) \in Nat
  BY LenProperties
<1>2. /\ Append(s, e) \in Seq(S) /\ Len(Append(s, e)) = Len(s) + 1
      /\ \A i \in 1 .. Len(s) : Append(s, e)[i] = s[i]
      /\ Append(s, e)[Len(s) + 1] = e
  BY AppendProperties
<1> QED BY <1>1, <1>2

LEMMA AfterGet ==
  ASSUME NEW S, NEW s \in Seq(S), s # <<>>
  PROVE  /\ Tail(s) \in Seq(S) /\ Head(s) \in S /\ Head(s) = s[1]
         /\ Len(s) \in Nat \ {0} /\ Len(Tail(s)) = Len(s) - 1
         /\ \A i \in 1 .. Len(s) - 1 : Tail(s)[i] = s[i + 1]
<1>1. Len(s) \in Nat \ {0}
  BY EmptySeq
<1>2. /\ Tail(s) \in Seq(S) /\ Head(s) \in S /\ Len(Tail(s)) = Len(s) - 1
      /\ \A i \in 1 .. Len(Tail(s)) : Tail(s)[i] = s[i + 1]
  BY HeadTailProperties
<1>3. Head(s) = s[1]
  OBVIOUS
<1> QED BY <1>1, <1>2, <1>3

\* get() takes one break job from the queue, or none.
LEMMA BreaksAfterGet ==
  ASSUME NEW S, NEW s \in Seq(S), s # <<>>
  PROVE  /\ IsFiniteSet(BreaksIn(s)) /\ Cardinality(BreaksIn(s)) \in Nat
         /\ IsFiniteSet(BreaksIn(Tail(s)))
         /\ Cardinality(BreaksIn(Tail(s)))
              = Cardinality(BreaksIn(s)) - (IF Head(s) = Break THEN 1 ELSE 0)
<1> DEFINE B == BreaksIn(s)
           T == BreaksIn(Tail(s))
           f == [i \in T |-> i + 1]
<1>1. /\ Head(s) = s[1] /\ Len(s) \in Nat \ {0} /\ Len(Tail(s)) = Len(s) - 1
      /\ \A i \in 1 .. Len(s) - 1 : Tail(s)[i] = s[i + 1]
  BY AfterGet
<1>2. IsFiniteSet(B) /\ Cardinality(B) \in Nat /\ IsFiniteSet(T)
  <2>1. B \subseteq 1 .. Len(s) /\ T \subseteq 1 .. Len(Tail(s))
    BY DEF BreaksIn
  <2>2. IsFiniteSet(1 .. Len(s)) /\ IsFiniteSet(1 .. Len(Tail(s)))
    BY <1>1, FS_Interval
  <2> QED BY <2>1, <2>2, FS_Subset, FS_CardinalityType
<1>3. \A i \in T : i \in 1 .. Len(s) - 1 /\ i + 1 \in B \ {1}
  BY <1>1 DEF BreaksIn
<1>4. \A k \in B \ {1} : k - 1 \in T /\ k - 1 \in Int /\ (k - 1) + 1 = k
  BY <1>1 DEF BreaksIn
<1>5. f \in Bijection(T, B \ {1})
  <2>1. f \in [T -> B \ {1}]
    BY <1>3
  <2>2. \A i, k \in T : f[i] = f[k] => i = k
    BY <1>3
  <2>3. \A k \in B \ {1} : \E i \in T : f[i] = k
    BY <1>4
  <2> QED BY <2>1, <2>2, <2>3 DEF Bijection, Injection, Surjection, IsInjective
<1>6. Cardinality(B \ {1}) = Cardinality(T)
  BY <1>2, <1>5, FS_Bijection DEF ExistsBijection
<1>7. 1 \in B <=> Head(s) = Break
  BY <1>1 DEF BreaksIn
<1> HIDE DEF B, T
<1>8. Cardinality(B \ {1}) = IF 1 \in B THEN Cardinality(B) - 1 ELSE Cardinality(B)
  BY <1>2, FS_RemoveElement
<1>9. Cardinality(T) = Cardinality(B) - (IF Head(s) = Break THEN 1 ELSE 0)
  BY <1>2, <1>6, <1>7, <1>8
<1> QED BY <1>2, <1>9 DEF B, T

\* A queue of jobs gets one break job per worker.
LEMMA BreaksAfterDispatch ==
  ASSUME NEW s \in Seq(Jobs \cup {Break}), BreaksIn(s) = {}
  PROVE  /\ s \o Breaks \in Seq(Jobs \cup {Break})
         /\ Len(s) \in Nat /\ Len(s \o Breaks) = Len(s) + Cardinality(Workers)
         /\ \A i \in 1 .. Len(s) : (s \o Breaks)[i] = s[i]
         /\ \A i \in Len(s) + 1 .. Len(s \o Breaks) : (s \o Breaks)[i] = Break
         /\ Cardinality(BreaksIn(s \o Breaks)) = Cardinality(Workers)
<1> DEFINE n == Cardinality(Workers)
           t == s \o Breaks
<1>1. n \in Nat
  BY RunnerAssumption, FS_CardinalityType
<1>2. /\ Breaks \in Seq(Jobs \cup {Break}) /\ Len(Breaks) = n
      /\ \A i \in 1 .. n : Breaks[i] = Break
  BY <1>1 DEF Breaks
<1>3. /\ t \in Seq(Jobs \cup {Break}) /\ Len(t) = Len(s) + n /\ Len(s) \in Nat
      /\ \A i \in 1 .. Len(s) + n : t[i] = IF i <= Len(s) THEN s[i] ELSE Breaks[i - Len(s)]
  <2>1. Len(s) \in Nat
    BY LenProperties
  <2>2. /\ t \in Seq(Jobs \cup {Break}) /\ Len(t) = Len(s) + Len(Breaks)
        /\ \A i \in 1 .. Len(s) + Len(Breaks) :
             t[i] = IF i <= Len(s) THEN s[i] ELSE Breaks[i - Len(s)]
    BY <1>2, ConcatProperties
  <2> QED BY <1>2, <2>1, <2>2
<1> HIDE DEF n, t
<1>4. \A i \in 1 .. Len(s) : t[i] = s[i]
  BY <1>1, <1>3
<1>5. \A i \in Len(s) + 1 .. Len(t) : t[i] = Break
  <2> TAKE i \in Len(s) + 1 .. Len(t)
  <2>1. i \in 1 .. Len(s) + n /\ ~(i <= Len(s)) /\ i - Len(s) \in 1 .. n
    BY <1>1, <1>3
  <2> QED BY <1>2, <1>3, <2>1
<1>6. BreaksIn(t) = Len(s) + 1 .. Len(t)
  <2>1. \A i \in 1 .. Len(s) : s[i] # Break
    BY DEF BreaksIn
  <2>2. \A i \in 1 .. Len(t) : t[i] = Break <=> i \in Len(s) + 1 .. Len(t)
    BY <1>1, <1>3, <1>4, <1>5, <2>1
  <2>3. Len(s) + 1 .. Len(t) \subseteq 1 .. Len(t)
    BY <1>3
  <2> QED BY <2>2, <2>3 DEF BreaksIn
<1>7. Cardinality(BreaksIn(t)) = n
  <2>1. Cardinality(Len(s) + 1 .. Len(t))
          = IF Len(s) + 1 > Len(t) THEN 0 ELSE Len(t) - (Len(s) + 1) + 1
    <3>1. Len(s) + 1 \in Int /\ Len(t) \in Int
      BY <1>1, <1>3
    <3> QED BY <3>1, FS_Interval
  <2> QED BY <1>1, <1>3, <1>6, <2>1
<1> QED BY <1>3, <1>4, <1>5, <1>7 DEF n, t

\* A set with at most one element has at most that cardinality.
LEMMA AtMostOne ==
  ASSUME NEW S, \A x, y \in S : x = y
  PROVE  /\ IsFiniteSet(S) /\ Cardinality(S) \in 0 .. 1
         /\ Cardinality(S) = 1 <=> S # {}
         /\ Cardinality(S) = 0 <=> S = {}
<1>1. CASE S = {}
  BY <1>1, FS_EmptySet
<1>2. CASE S # {}
  <2>1. PICK x : S = {x}
    BY <1>2
  <2>2. IsFiniteSet({x}) /\ Cardinality({x}) = 1
    BY FS_Singleton
  <2> QED BY <1>2, <2>1, <2>2
<1> QED BY <1>1, <1>2

-----------------------------------------------------------------------------
(* How the steps move jobs from place to place. *)

\* What is used of TypeOK over and over.
LEMMA Types ==
  ASSUME TypeOK
  PROVE  /\ input_queue \in Seq(Jobs \cup {Break}) /\ output_queue \in Seq(Reports)
         /\ Len(input_queue) \in Nat /\ Len(output_queue) \in Nat
         /\ \A i \in 1 .. Len(input_queue) : input_queue[i] \in Jobs \cup {Break}
         /\ \A i \in 1 .. Len(output_queue) :
              output_queue[i] \in Reports /\ output_queue[i].job \in Jobs
         /\ DOMAIN worker = Workers
         /\ \A w \in Workers : worker[w].job \in Jobs \cup {Break}
         /\ undispatched \subseteq Jobs /\ Break \notin Jobs
<1>1. input_queue \in Seq(Jobs \cup {Break}) /\ output_queue \in Seq(Reports)
  BY DEF TypeOK
<1>2. Len(input_queue) \in Nat /\ Len(output_queue) \in Nat
  BY <1>1, LenProperties
<1>3. /\ \A i \in 1 .. Len(input_queue) : input_queue[i] \in Jobs \cup {Break}
      /\ \A i \in 1 .. Len(output_queue) : output_queue[i] \in Reports
  BY <1>1, ElementOfSeq
<1>4. \A r \in Reports : r.job \in Jobs
  BY DEF Reports
<1>5. /\ DOMAIN worker = Workers
      /\ \A w \in Workers : worker[w].job \in Jobs \cup {Break}
      /\ undispatched \subseteq Jobs
  BY DEF TypeOK
<1> QED BY <1>1, <1>2, <1>3, <1>4, <1>5, RunnerAssumption

LEMMA JobPut ==
  ASSUME TypeOK, NEW j \in Jobs, j \notin Inputs, InputsOnce,
         input_queue' = Append(input_queue, j)
  PROVE  Inputs' = Inputs \cup {j} /\ InputsOnce'
<1> DEFINE q == input_queue
           n == Len(input_queue)
<1>1. /\ n \in Nat /\ Len(q') = n + 1 /\ q'[n + 1] = j
      /\ \A i \in 1 .. n : q'[i] = q[i]
  BY Types, AfterPut
<1>2. \A i \in 1 .. n : q[i] # j
  BY DEF Inputs
<1>3. \A i \in 1 .. n + 1 : i \in 1 .. n \/ i = n + 1
  BY <1>1
<1>4. \A k \in Jobs : (\E i \in 1 .. n + 1 : q'[i] = k) <=> (\E i \in 1 .. n : q[i] = k) \/ k = j
  <2>1. 1 .. n \subseteq 1 .. n + 1 /\ n + 1 \in 1 .. n + 1
    BY <1>1
  <2> QED BY <1>1, <1>3, <2>1
<1>5. Inputs' = Inputs \cup {j}
  BY <1>1, <1>4 DEF Inputs
<1>6. InputsOnce'
  <2> SUFFICES ASSUME NEW i \in 1 .. n + 1, NEW k \in 1 .. n + 1,
                      q'[i] \in Jobs, q'[i] = q'[k]
               PROVE  i = k
    BY <1>1 DEF InputsOnce
  <2>1. CASE i \in 1 .. n /\ k \in 1 .. n
    BY <1>1, <2>1 DEF InputsOnce
  <2>2. CASE i = n + 1 \/ k = n + 1
    BY <1>1, <1>2, <1>3, <2>2
  <2> QED BY <1>3, <2>1, <2>2
<1> QED BY <1>5, <1>6

LEMMA BreaksPut ==
  ASSUME TypeOK, InputsOnce, BreaksIn(input_queue) = {},
         input_queue' = input_queue \o Breaks
  PROVE  Inputs' = Inputs /\ InputsOnce'
<1> DEFINE q == input_queue
           n == Len(input_queue)
<1>1. /\ n \in Nat /\ Len(q') \in Nat /\ n <= Len(q')
      /\ \A i \in 1 .. n : q'[i] = q[i]
      /\ \A i \in n + 1 .. Len(q') : q'[i] = Break
  <2>1. Cardinality(Workers) \in Nat
    BY RunnerAssumption, FS_CardinalityType
  <2> QED BY <2>1, Types, BreaksAfterDispatch
<1>2. \A i \in 1 .. Len(q') : i \in 1 .. n \/ i \in n + 1 .. Len(q')
  BY <1>1
<1>3. 1 .. n \subseteq 1 .. Len(q') /\ Break \notin Jobs
  BY <1>1, RunnerAssumption
<1>4. Inputs' = Inputs
  <2>1. \A k \in Jobs : (\E i \in 1 .. Len(q') : q'[i] = k) <=> (\E i \in 1 .. n : q[i] = k)
    BY <1>1, <1>2, <1>3
  <2> QED BY <2>1 DEF Inputs
<1>5. InputsOnce'
  BY <1>1, <1>2, <1>3 DEF InputsOnce
<1> QED BY <1>4, <1>5

LEMMA JobGot ==
  ASSUME TypeOK, InputsOnce, input_queue # <<>>, input_queue' = Tail(input_queue)
  PROVE  /\ Inputs' = Inputs \ {Head(input_queue)} /\ InputsOnce'
         /\ Head(input_queue) \in Jobs \cup {Break}
         /\ Head(input_queue) \in Jobs => Head(input_queue) \in Inputs
<1> DEFINE q == input_queue
           n == Len(input_queue)
<1>1. /\ n \in Nat \ {0} /\ Len(q') = n - 1 /\ Head(q) = q[1]
      /\ \A i \in 1 .. n - 1 : q'[i] = q[i + 1]
      /\ Head(q) \in Jobs \cup {Break}
  BY Types, AfterGet
<1>2. \A i \in 1 .. n - 1 : i + 1 \in 1 .. n /\ i + 1 # 1
  BY <1>1
<1>3. \A i \in 1 .. n : i = 1 \/ (i - 1 \in 1 .. n - 1 /\ (i - 1) + 1 = i)
  BY <1>1
<1>4. 1 \in 1 .. n
  BY <1>1
<1>5. \A k \in Jobs : (\E i \in 1 .. n - 1 : q'[i] = k)
                        <=> (\E i \in 1 .. n : q[i] = k) /\ k # q[1]
  <2> SUFFICES ASSUME NEW k \in Jobs
               PROVE  (\E i \in 1 .. n - 1 : q'[i] = k)
                        <=> (\E i \in 1 .. n : q[i] = k) /\ k # q[1]
    OBVIOUS
  <2>1. ASSUME NEW i \in 1 .. n - 1, q'[i] = k
        PROVE  (\E m \in 1 .. n : q[m] = k) /\ k # q[1]
    <3>1. i + 1 \in 1 .. n /\ q[i + 1] = k /\ i + 1 # 1
      BY <1>1, <1>2, <2>1
    <3> QED BY <1>4, <3>1 DEF InputsOnce
  <2>2. ASSUME NEW i \in 1 .. n, q[i] = k, k # q[1]
        PROVE  \E m \in 1 .. n - 1 : q'[m] = k
    BY <1>1, <1>3, <2>2
  <2> QED BY <2>1, <2>2
<1>6. Inputs' = Inputs \ {Head(q)}
  BY <1>1, <1>5 DEF Inputs
<1>7. InputsOnce'
  <2> SUFFICES ASSUME NEW i \in 1 .. n - 1, NEW k \in 1 .. n - 1,
                      q'[i] \in Jobs, q'[i] = q'[k]
               PROVE  i = k
    BY <1>1 DEF InputsOnce
  <2>1. i + 1 = k + 1
    BY <1>1, <1>2 DEF InputsOnce
  <2> QED BY <1>1, <2>1
<1> QED BY <1>1, <1>4, <1>6, <1>7 DEF Inputs

LEMMA JobTaken ==
  ASSUME TypeOK, HeldOnce, NEW w \in Workers, worker[w].job \notin Jobs,
         NEW a, NEW h \in Jobs \cup {Break}, h \notin Held,
         worker' = [worker EXCEPT ![w] = [at |-> a, job |-> h]]
  PROVE  Held' = Held \cup ({h} \cap Jobs) /\ HeldOnce'
<1>1. /\ worker'[w].job = h
      /\ \A v \in Workers \ {w} : worker'[v] = worker[v]
  BY Types
<1>2. \A v \in Workers : worker[v].job # h \/ h \notin Jobs
  BY DEF Held
<1>3. Held' = Held \cup ({h} \cap Jobs)
  BY <1>1 DEF Held
<1>4. HeldOnce'
  BY <1>1, <1>2 DEF HeldOnce
<1> QED BY <1>3, <1>4

LEMMA JobGiven ==
  ASSUME TypeOK, HeldOnce, NEW w \in Workers, NEW j \in Jobs, worker[w].job = j,
         NEW a, worker' = [worker EXCEPT ![w] = [at |-> a, job |-> Break]]
  PROVE  Held' = Held \ {j} /\ HeldOnce' /\ j \in Held
<1>1. /\ worker'[w].job = Break
      /\ \A v \in Workers \ {w} : worker'[v] = worker[v]
      /\ Break \notin Jobs
  BY Types
<1>2. \A v \in Workers \ {w} : worker[v].job # j
  BY DEF HeldOnce
<1>3. Held' = Held \ {j}
  BY <1>1, <1>2 DEF Held
<1>4. HeldOnce'
  BY <1>1 DEF HeldOnce
<1> QED BY <1>3, <1>4 DEF Held

LEMMA ReportPut ==
  ASSUME TypeOK, OutputsOnce, NEW j \in Jobs, j \notin Outputs,
         NEW said, [job |-> j, said |-> said] \in Reports,
         output_queue' = Append(output_queue, [job |-> j, said |-> said])
  PROVE  Outputs' = Outputs \cup {j} /\ OutputsOnce'
<1> DEFINE q == output_queue
           n == Len(output_queue)
<1>1. /\ n \in Nat /\ Len(q') = n + 1 /\ q'[n + 1].job = j
      /\ \A i \in 1 .. n : q'[i] = q[i]
  BY Types, AfterPut
<1>2. \A i \in 1 .. n : q[i].job # j
  BY DEF Outputs
<1>3. \A i \in 1 .. n + 1 : i \in 1 .. n \/ i = n + 1
  BY <1>1
<1>4. \A k \in Jobs : (\E i \in 1 .. n + 1 : q'[i].job = k)
                        <=> (\E i \in 1 .. n : q[i].job = k) \/ k = j
  <2>1. 1 .. n \subseteq 1 .. n + 1 /\ n + 1 \in 1 .. n + 1
    BY <1>1
  <2> QED BY <1>1, <1>3, <2>1
<1>5. Outputs' = Outputs \cup {j}
  BY <1>1, <1>4 DEF Outputs
<1>6. OutputsOnce'
  <2> SUFFICES ASSUME NEW i \in 1 .. n + 1, NEW k \in 1 .. n + 1, q'[i].job = q'[k].job
               PROVE  i = k
    BY <1>1 DEF OutputsOnce
  <2>1. CASE i \in 1 .. n /\ k \in 1 .. n
    BY <1>1, <2>1 DEF OutputsOnce
  <2>2. CASE i = n + 1 \/ k = n + 1
    BY <1>1, <1>2, <1>3, <2>2
  <2> QED BY <1>3, <2>1, <2>2
<1> QED BY <1>5, <1>6

LEMMA ReportGot ==
  ASSUME TypeOK, OutputsOnce, output_queue # <<>>, output_queue' = Tail(output_queue)
  PROVE  /\ Outputs' = Outputs \ {Head(output_queue).job} /\ OutputsOnce'
         /\ Head(output_queue) \in Reports /\ Head(output_queue).job \in Jobs
         /\ Head(output_queue).job \in Outputs
         /\ 1 \in 1 .. Len(output_queue) /\ Head(output_queue) = output_queue[1]
<1> DEFINE q == output_queue
           n == Len(output_queue)
<1>1. /\ n \in Nat \ {0} /\ Len(q') = n - 1 /\ Head(q) = q[1]
      /\ \A i \in 1 .. n - 1 : q'[i] = q[i + 1]
      /\ Head(q) \in Reports
  BY Types, AfterGet
<1>2. \A i \in 1 .. n - 1 : i + 1 \in 1 .. n /\ i + 1 # 1
  BY <1>1
<1>3. \A i \in 1 .. n : i = 1 \/ (i - 1 \in 1 .. n - 1 /\ (i - 1) + 1 = i)
  BY <1>1
<1>4. 1 \in 1 .. n /\ q[1].job \in Jobs
  BY <1>1 DEF Reports
<1>5. \A k \in Jobs : (\E i \in 1 .. n - 1 : q'[i].job = k)
                        <=> (\E i \in 1 .. n : q[i].job = k) /\ k # q[1].job
  <2> SUFFICES ASSUME NEW k \in Jobs
               PROVE  (\E i \in 1 .. n - 1 : q'[i].job = k)
                        <=> (\E i \in 1 .. n : q[i].job = k) /\ k # q[1].job
    OBVIOUS
  <2>1. ASSUME NEW i \in 1 .. n - 1, q'[i].job = k
        PROVE  (\E m \in 1 .. n : q[m].job = k) /\ k # q[1].job
    <3>1. i + 1 \in 1 .. n /\ q[i + 1].job = k /\ i + 1 # 1
      BY <1>1, <1>2, <2>1
    <3> QED BY <1>4, <3>1 DEF OutputsOnce
  <2>2. ASSUME NEW i \in 1 .. n, q[i].job = k, k # q[1].job
        PROVE  \E m \in 1 .. n - 1 : q'[m].job = k
    BY <1>1, <1>3, <2>2
  <2> QED BY <2>1, <2>2
<1>6. Outputs' = Outputs \ {Head(q).job}
  BY <1>1, <1>5 DEF Outputs
<1>7. OutputsOnce'
  <2> SUFFICES ASSUME NEW i \in 1 .. n - 1, NEW k \in 1 .. n - 1, q'[i].job = q'[k].job
               PROVE  i = k
    BY <1>1 DEF OutputsOnce
  <2>1. i + 1 = k + 1
    BY <1>1, <1>2 DEF OutputsOnce
  <2> QED BY <1>1, <2>1
<1> QED BY <1>1, <1>4, <1>6, <1>7 DEF Outputs

-----------------------------------------------------------------------------
(* The places of the jobs, and how many the main thread waits for. *)

LEMMA LiveIsFinite == IsFiniteSet(Live) /\ Cardinality(Live) \in Nat
<1>1. Live \subseteq Jobs
  BY DEF Live, Inputs, Held, Outputs
<1> QED BY <1>1, RunnerAssumption, FS_Subset, FS_CardinalityType

\* A test that is dispatched is added to what the main thread waits for.
LEMMA DispatchPlaces ==
  ASSUME TypeOK, PlacesOK, LeftOK, NEW j \in undispatched,
         undispatched' = undispatched \ {j}, input_queue' = Append(input_queue, j),
         left' = left + 1, UNCHANGED <<output_queue, worker>>
  PROVE  /\ PlacesOK' /\ LeftOK' /\ Done' = Done
         /\ Inputs' = Inputs \cup {j} /\ Held' = Held /\ Outputs' = Outputs
<1>1. j \in Jobs /\ j \notin Inputs /\ j \notin Held /\ j \notin Outputs
  BY Types DEF PlacesOK, Live
<1>2. Inputs' = Inputs \cup {j} /\ InputsOnce'
  BY <1>1, JobPut DEF PlacesOK
<1>3. Held' = Held /\ Outputs' = Outputs /\ HeldOnce' /\ OutputsOnce'
  BY DEF Held, Outputs, PlacesOK, HeldOnce, OutputsOnce
<1>4. Live' = Live \cup {j} /\ j \notin Live
  BY <1>1, <1>2, <1>3 DEF Live
<1>5. PlacesOK'
  BY <1>1, <1>2, <1>3, <1>4 DEF PlacesOK
<1>6. LeftOK'
  <2>1. Cardinality(Live \cup {j}) = Cardinality(Live) + 1
    BY <1>4, LiveIsFinite, FS_AddElement
  <2> QED BY <1>4, <2>1 DEF LeftOK
<1>7. Done' = Done
  BY <1>4 DEF Done
<1> QED BY <1>2, <1>3, <1>5, <1>6, <1>7

LEMMA BreaksPlaces ==
  ASSUME TypeOK, PlacesOK, LeftOK, BreaksIn(input_queue) = {},
         input_queue' = input_queue \o Breaks,
         UNCHANGED <<undispatched, left, output_queue, worker>>
  PROVE  /\ PlacesOK' /\ LeftOK' /\ Done' = Done
         /\ Inputs' = Inputs /\ Held' = Held /\ Outputs' = Outputs
<1>1. Inputs' = Inputs /\ InputsOnce'
  BY BreaksPut DEF PlacesOK
<1>2. Held' = Held /\ Outputs' = Outputs /\ HeldOnce' /\ OutputsOnce'
  BY DEF Held, Outputs, PlacesOK, HeldOnce, OutputsOnce
<1>3. Live' = Live
  BY <1>1, <1>2 DEF Live
<1> QED BY <1>1, <1>2, <1>3 DEF PlacesOK, LeftOK, Done

\* input_queue.get() moves a job into the hand of the worker.
LEMMA GetPlaces ==
  ASSUME TypeOK, PlacesOK, LeftOK, WorkersOK, NEW w \in Workers, Get(w)
  PROVE  LET h == Head(input_queue)
         IN  /\ PlacesOK' /\ LeftOK' /\ Done' = Done
             /\ h \in Jobs \cup {Break} /\ (h \in Jobs => h \in Inputs)
             /\ Inputs' = Inputs \ {h} /\ Held' = Held \cup ({h} \cap Jobs)
             /\ Outputs' = Outputs
<1> DEFINE h == Head(input_queue)
           a == IF h = Break THEN "gone" ELSE "check"
<1>1. /\ input_queue # <<>> /\ input_queue' = Tail(input_queue)
      /\ worker' = [worker EXCEPT ![w] = [at |-> a, job |-> h]]
      /\ worker[w].at = "get"
      /\ UNCHANGED <<undispatched, left, output_queue>>
  BY DEF Get
<1>2. /\ Inputs' = Inputs \ {h} /\ InputsOnce' /\ h \in Jobs \cup {Break}
      /\ h \in Jobs => h \in Inputs
  BY <1>1, JobGot DEF PlacesOK
<1>3. worker[w].job \notin Jobs
  BY <1>1 DEF WorkersOK
<1>4. h \notin Held
  BY <1>2 DEF PlacesOK, Held
<1> HIDE DEF a, h
<1>5. Held' = Held \cup ({h} \cap Jobs) /\ HeldOnce'
  BY <1>1, <1>2, <1>3, <1>4, JobTaken DEF PlacesOK
<1>6. Outputs' = Outputs /\ OutputsOnce'
  BY <1>1 DEF Outputs, PlacesOK, OutputsOnce
<1>7. Inputs \subseteq Jobs
  BY DEF Inputs
<1>8. Live' = Live
  BY <1>2, <1>5, <1>6, <1>7 DEF Live
<1>9. Inputs' \cap Held' = {} /\ Inputs' \cap Outputs' = {} /\ Held' \cap Outputs' = {}
  BY <1>2, <1>5, <1>6, <1>7 DEF PlacesOK
<1> QED BY <1>1, <1>2, <1>5, <1>6, <1>8, <1>9 DEF PlacesOK, LeftOK, Done, h

\* A report moves the job into the output queue.
LEMMA ReportPlaces ==
  ASSUME TypeOK, PlacesOK, LeftOK, NEW w \in Workers, NEW said, Report(w, said),
         worker[w].job \in Jobs, [job |-> worker[w].job, said |-> said] \in Reports,
         UNCHANGED <<undispatched, input_queue, left>>
  PROVE  LET j == worker[w].job
         IN  /\ PlacesOK' /\ LeftOK' /\ Done' = Done /\ j \in Held
             /\ Inputs' = Inputs /\ Held' = Held \ {j} /\ Outputs' = Outputs \cup {j}
<1> DEFINE j == worker[w].job
<1>1. /\ output_queue' = Append(output_queue, [job |-> j, said |-> said])
      /\ worker' = [worker EXCEPT ![w] = [at |-> "get", job |-> Break]]
  BY DEF Report
<1>2. Held' = Held \ {j} /\ HeldOnce' /\ j \in Held
  BY <1>1, JobGiven DEF PlacesOK
<1>3. j \notin Outputs
  BY <1>2 DEF PlacesOK
<1> HIDE DEF j
<1>4. Outputs' = Outputs \cup {j} /\ OutputsOnce'
  BY <1>1, <1>3, ReportPut DEF PlacesOK, j
<1>5. Inputs' = Inputs /\ InputsOnce'
  BY DEF Inputs, PlacesOK, InputsOnce
<1>6. Live' = Live
  BY <1>2, <1>4, <1>5 DEF Live
<1>7. Inputs' \cap Held' = {} /\ Inputs' \cap Outputs' = {} /\ Held' \cap Outputs' = {}
  BY <1>2, <1>4, <1>5 DEF PlacesOK
<1> QED BY <1>2, <1>4, <1>5, <1>6, <1>7 DEF PlacesOK, LeftOK, Done, j

\* What only changes the state of a worker moves nothing.
LEMMA AtPlaces ==
  ASSUME TypeOK, PlacesOK, LeftOK, NEW w \in Workers, NEW a,
         worker' = [worker EXCEPT ![w].at = a],
         UNCHANGED <<undispatched, input_queue, output_queue, left>>
  PROVE  /\ PlacesOK' /\ LeftOK' /\ Done' = Done
         /\ Inputs' = Inputs /\ Held' = Held /\ Outputs' = Outputs
<1>1. \A v \in Workers : worker'[v].job = worker[v].job
  BY DEF TypeOK
<1>2. Held' = Held /\ HeldOnce'
  BY <1>1 DEF Held, HeldOnce, PlacesOK
<1>3. Inputs' = Inputs /\ Outputs' = Outputs /\ InputsOnce' /\ OutputsOnce'
  BY DEF Inputs, Outputs, PlacesOK, InputsOnce, OutputsOnce
<1>4. Live' = Live
  BY <1>2, <1>3 DEF Live
<1> QED BY <1>2, <1>3, <1>4 DEF PlacesOK, LeftOK, Done

\* A result that is collected ends a job.
LEMMA CollectPlaces ==
  ASSUME TypeOK, PlacesOK, LeftOK, Collect
  PROVE  LET j == Head(output_queue).job
         IN  /\ PlacesOK' /\ LeftOK' /\ Done' = Done \cup {j} /\ j \in Jobs \ Done
             /\ Inputs' = Inputs /\ Held' = Held /\ Outputs' = Outputs \ {j}
             /\ j \notin undispatched /\ j \in Outputs
<1> DEFINE j == Head(output_queue).job
<1>1. /\ output_queue # <<>> /\ output_queue' = Tail(output_queue) /\ left' = left - 1
      /\ UNCHANGED <<undispatched, input_queue, worker>>
  BY DEF Collect
<1>2. Outputs' = Outputs \ {j} /\ OutputsOnce' /\ j \in Outputs /\ j \in Jobs
  BY <1>1, ReportGot DEF PlacesOK
<1> HIDE DEF j
<1>3. Inputs' = Inputs /\ Held' = Held /\ InputsOnce' /\ HeldOnce'
  BY <1>1 DEF Inputs, Held, PlacesOK, InputsOnce, HeldOnce
<1>4. j \notin Inputs /\ j \notin Held
  BY <1>2 DEF PlacesOK
<1>5. Live' = Live \ {j} /\ j \in Live
  BY <1>2, <1>3, <1>4 DEF Live
<1>6. PlacesOK'
  BY <1>1, <1>2, <1>3, <1>5 DEF PlacesOK
<1>7. LeftOK'
  <2>1. Cardinality(Live \ {j}) = Cardinality(Live) - 1
    BY <1>5, LiveIsFinite, FS_RemoveElement
  <2> QED BY <1>1, <1>5, <2>1 DEF LeftOK
<1>8. j \notin undispatched
  BY <1>5 DEF PlacesOK
<1>9. Done' = Done \cup {j} /\ j \in Jobs \ Done
  BY <1>1, <1>2, <1>5, <1>8 DEF Done
<1> QED BY <1>2, <1>3, <1>6, <1>7, <1>8, <1>9 DEF j

-----------------------------------------------------------------------------
(* Workers and break jobs. *)

\* It is enough to look at the worker that takes the step.
LEMMA OneWorker ==
  ASSUME TypeOK, WorkersOK, NEW w \in Workers,
         NEW r, worker' = [worker EXCEPT ![w] = r],
         r.job \in Jobs <=> r.at \in {"check", "run", "died"},
         r.at = "run" => r.job \notin Skips
  PROVE  WorkersOK'
<1>1. worker'[w] = r /\ \A v \in Workers \ {w} : worker'[v] = worker[v]
  BY Types
<1> QED BY <1>1 DEF WorkersOK

\* Neither break jobs nor workers that are gone come of such a step.
LEMMA SameBreaks ==
  ASSUME TypeOK, BreaksOK, NEW w \in Workers, worker[w].at # "gone",
         NEW r, worker' = [worker EXCEPT ![w] = r], r.at # "gone",
         UNCHANGED <<main, undispatched, input_queue>>
  PROVE  BreaksOK'
<1>1. worker'[w] = r /\ \A v \in Workers \ {w} : worker'[v] = worker[v]
  BY Types
<1>2. Working' = Working
  BY <1>1 DEF Working
<1>3. BreaksIn(input_queue)' = BreaksIn(input_queue)
  BY DEF BreaksIn
<1> QED BY <1>2, <1>3 DEF BreaksOK

LEMMA DispatchWorkers ==
  ASSUME TypeOK, BreaksOK, NEW j \in Jobs, main = "dispatch",
         input_queue' = Append(input_queue, j), UNCHANGED <<main, worker>>
  PROVE  BreaksOK'
<1>1. /\ Len(input_queue) \in Nat /\ Len(input_queue') = Len(input_queue) + 1
      /\ \A i \in 1 .. Len(input_queue) : input_queue'[i] = input_queue[i]
      /\ input_queue'[Len(input_queue) + 1] = j /\ j # Break
  BY Types, AfterPut
<1>2. \A i \in 1 .. Len(input_queue) : input_queue[i] # Break
  BY DEF BreaksOK, BreaksIn
<1>3. \A i \in 1 .. Len(input_queue') : i \in 1 .. Len(input_queue) \/ i = Len(input_queue) + 1
  BY <1>1
<1>4. BreaksIn(input_queue)' = {}
  BY <1>1, <1>2, <1>3 DEF BreaksIn
<1>5. Working' = Working
  BY DEF Working
<1> QED BY <1>4, <1>5 DEF BreaksOK

LEMMA BreaksWorkers ==
  ASSUME TypeOK, BreaksOK, DispatchBreaks
  PROVE  BreaksOK'
<1>1. /\ main = "dispatch" /\ main' = "collect" /\ undispatched' = {}
      /\ input_queue' = input_queue \o Breaks /\ UNCHANGED worker
  BY DEF DispatchBreaks
<1>2. BreaksIn(input_queue) = {} /\ Working = Workers
  BY <1>1 DEF BreaksOK
<1>3. Cardinality(BreaksIn(input_queue \o Breaks)) = Cardinality(Workers)
  BY <1>2, Types, BreaksAfterDispatch
<1>4. Working' = Workers /\ BreaksIn(input_queue)' = BreaksIn(input_queue \o Breaks)
  BY <1>1, <1>2 DEF Working, BreaksIn
<1> QED BY <1>1, <1>3, <1>4 DEF BreaksOK

LEMMA GetWorkers ==
  ASSUME TypeOK, WorkersOK, BreaksOK, NEW w \in Workers, Get(w)
  PROVE  WorkersOK' /\ BreaksOK'
<1> DEFINE h == Head(input_queue)
           r == [at |-> IF h = Break THEN "gone" ELSE "check", job |-> h]
           B == BreaksIn(input_queue)
<1>1. /\ input_queue # <<>> /\ input_queue' = Tail(input_queue)
      /\ worker' = [worker EXCEPT ![w] = r] /\ worker[w].at = "get"
      /\ UNCHANGED <<main, undispatched>>
  BY DEF Get
<1>2. /\ h \in Jobs \cup {Break} /\ Break \notin Jobs /\ h = input_queue[1]
      /\ 1 \in 1 .. Len(input_queue)
  BY <1>1, Types, AfterGet
<1>3. WorkersOK'
  <2>1. r.job \in Jobs <=> r.at \in {"check", "run", "died"}
    BY <1>2
  <2> HIDE DEF r
  <2> QED BY <1>1, <1>2, <2>1, OneWorker DEF r
<1>4. worker'[w] = r /\ \A v \in Workers \ {w} : worker'[v] = worker[v]
  BY <1>1, Types
<1>5. /\ IsFiniteSet(B) /\ Cardinality(B) \in Nat
      /\ IsFiniteSet(BreaksIn(input_queue)')
      /\ Cardinality(BreaksIn(input_queue)') = Cardinality(B) - (IF h = Break THEN 1 ELSE 0)
  <2>1. BreaksIn(input_queue)' = BreaksIn(Tail(input_queue))
    BY <1>1 DEF BreaksIn
  <2> QED BY <1>1, <2>1, Types, BreaksAfterGet
<1>6. h = Break <=> 1 \in B
  BY <1>2 DEF BreaksIn
<1> HIDE DEF B
<1>7. CASE h = Break
  <2>1. main # "dispatch" /\ undispatched = {} /\ Cardinality(B) = Cardinality(Working)
    BY <1>6, <1>7 DEF BreaksOK, B
  <2>2. Working' = Working \ {w} /\ w \in Working
    BY <1>1, <1>4, <1>7 DEF Working
  <2>3. Cardinality(Working \ {w}) = Cardinality(Working) - 1
    <3>1. IsFiniteSet(Working)
      BY RunnerAssumption, FS_Subset DEF Working
    <3> QED BY <2>2, <3>1, FS_RemoveElement
  <2> QED BY <1>1, <1>3, <1>5, <1>7, <2>1, <2>2, <2>3 DEF BreaksOK
<1>8. CASE h # Break
  <2>1. Working' = Working
    BY <1>1, <1>4, <1>8 DEF Working
  <2>2. Cardinality(BreaksIn(input_queue)') = Cardinality(B)
    BY <1>5, <1>8
  <2>3. B = {} => BreaksIn(input_queue)' = {}
    <3>1. B = {} => Cardinality(B) = 0
      BY FS_EmptySet
    <3>2. Cardinality(BreaksIn(input_queue)') = 0 => BreaksIn(input_queue)' = {}
      BY <1>5, FS_EmptySet
    <3> QED BY <2>2, <3>1, <3>2
  <2> QED BY <1>1, <1>3, <2>1, <2>2, <2>3 DEF BreaksOK, B
<1> QED BY <1>7, <1>8

-----------------------------------------------------------------------------
(* What the workers report. *)

\* Return codes are none of the other things a worker may say.
LEMMA Numbers ==
  ASSUME NEW c \in Codes, NEW readable \in BOOLEAN
  PROVE  /\ c # NoCode /\ ReturnValue(c, readable) \in Codes \cup {1}
         /\ ReturnValue(c, readable) \notin {IsBreak, IsSkip, NoCode}
         /\ ReturnValue(c, readable) = 0 <=> c = 0 /\ readable
<1>1. c \in -64 .. 255
  BY RunnerAssumption
<1> QED BY <1>1 DEF ReturnValue, IsBreak, IsSkip, NoCode

LEMMA StatusOf ==
  ASSUME NEW said \in {IsSkip} \cup Codes \cup {1}
  PROVE  /\ Status(said) \in Statuses
         /\ Status(said) = "skipped" <=> said = IsSkip
         /\ Status(said) = "passed" <=> said = 0
<1>1. Codes \subseteq -64 .. 255
  BY RunnerAssumption
<1>2. said \in Int
  BY <1>1 DEF IsSkip
<1>3. Status(said) = IF said = IsSkip THEN "skipped"
                     ELSE IF said = 0 THEN "passed"
                     ELSE IF said = 1 THEN "failed"
                     ELSE IF said = 2 THEN "valgrind" ELSE "crashed"
  BY <1>2 DEF Status, IsSkip
<1> QED BY <1>2, <1>3 DEF Statuses, IsSkip

\* A step that reports nothing, and runs nothing.
LEMMA ReportsKept ==
  ASSUME ReportsOK, thread_exit => thread_exit',
         (undispatched \cup Inputs \cup Held)' \subseteq undispatched \cup Inputs \cup Held,
         UNCHANGED <<process, output_queue>>
  PROVE  ReportsOK'
BY DEF ReportsOK, Truthful

\* One more report.
LEMMA ReportsGrow ==
  ASSUME TypeOK, ReportsOK, NEW j \in Jobs \ Outputs, NEW said,
         [job |-> j, said |-> said] \in Reports,
         output_queue' = Append(output_queue, [job |-> j, said |-> said]),
         Truthful(j, said)',
         (undispatched \cup Inputs \cup Held)'
           \subseteq (undispatched \cup Inputs \cup Held) \ {j},
         \A k \in Jobs \ {j} : process'[k] = process[k],
         j \in Skips => process' = process,
         UNCHANGED thread_exit
  PROVE  ReportsOK'
<1> DEFINE q == output_queue
           n == Len(output_queue)
<1>1. /\ n \in Nat /\ Len(q') = n + 1
      /\ q'[n + 1] = [job |-> j, said |-> said]
      /\ \A i \in 1 .. n : q'[i] = q[i] /\ q[i].job \in Jobs
  BY Types, AfterPut
<1>2. \A i \in 1 .. n : q[i].job \in Jobs \ {j}
  BY <1>1 DEF Outputs
<1>3. \A i \in 1 .. n + 1 : i \in 1 .. n \/ i = n + 1
  BY <1>1
<1>4. \A i \in 1 .. n : Truthful(q[i].job, q[i].said)
  BY DEF ReportsOK
<1>5. \A i \in 1 .. n + 1 : Truthful(q[i].job, q[i].said)'
  <2> TAKE i \in 1 .. n + 1
  <2>1. CASE i \in 1 .. n
    BY <1>1, <1>2, <1>4, <2>1 DEF Truthful
  <2>2. CASE i = n + 1
    BY <1>1, <2>2 DEF Truthful
  <2> QED BY <1>3, <2>1, <2>2
<1>6. \A k \in (undispatched \cup Inputs \cup Held)' : process'[k].code = NoCode
  <2>1. undispatched \cup Inputs \cup Held \subseteq Jobs
    BY Types DEF Inputs, Held
  <2> QED BY <2>1 DEF ReportsOK
<1>7. \A k \in Skips : process'[k].code = NoCode
  BY RunnerAssumption DEF ReportsOK
<1> QED BY <1>1, <1>5, <1>6, <1>7 DEF ReportsOK

\* The main thread takes the first report.
LEMMA ReportsShrink ==
  ASSUME TypeOK, PlacesOK, LeftOK, ReportsOK, Collect
  PROVE  /\ ReportsOK'
         /\ Truthful(Head(output_queue).job, Head(output_queue).said)
         /\ Head(output_queue) \in Reports
<1> DEFINE q == output_queue
           n == Len(output_queue)
<1>1. /\ q # <<>> /\ q' = Tail(q) /\ UNCHANGED <<undispatched, input_queue, worker>>
      /\ UNCHANGED <<process, thread_exit>>
  BY DEF Collect
<1>2. /\ n \in Nat \ {0} /\ Len(q') = n - 1 /\ Head(q) = q[1] /\ Head(q) \in Reports
      /\ \A i \in 1 .. n - 1 : q'[i] = q[i + 1]
  BY <1>1, Types, AfterGet
<1>3. \A i \in 1 .. n : Truthful(q[i].job, q[i].said)
  BY DEF ReportsOK
<1>4. Truthful(Head(q).job, Head(q).said)
  BY <1>2, <1>3
<1>5. \A i \in 1 .. n - 1 : Truthful(q[i].job, q[i].said)'
  <2> TAKE i \in 1 .. n - 1
  <2>1. i + 1 \in 1 .. n /\ q'[i] = q[i + 1]
    BY <1>2
  <2>2. Truthful(q[i + 1].job, q[i + 1].said)
    BY <1>3, <2>1
  <2> QED BY <1>1, <2>1, <2>2 DEF Truthful
<1>6. (undispatched \cup Inputs \cup Held)' = undispatched \cup Inputs \cup Held
  BY <1>1 DEF Inputs, Held
<1> QED BY <1>1, <1>2, <1>4, <1>5, <1>6 DEF ReportsOK

-----------------------------------------------------------------------------
(* What the main thread has counted. *)

\* A step that ends no job, and changes none that is Done.
LEMMA ResultsKept ==
  ASSUME ResultsOK, Done' = Done, thread_exit => thread_exit',
         main = "raised" => main' = "raised",
         \A j \in Done : process'[j] = process[j],
         UNCHANGED <<tally, results>>
  PROVE  ResultsOK'
<1>1. \A j \in Done : Outcome(j)' = Outcome(j)
  BY DEF Outcome
<1>2. \A s \in Statuses : CountedAs(s)' = CountedAs(s)
  BY <1>1 DEF CountedAs
<1>3. \A s \in Statuses : tally'[s] = Cardinality(CountedAs(s)')
  BY <1>2 DEF ResultsOK
<1>4. ~thread_exit' => \A j \in Done' : IF j \in Skips THEN results'[j] = <<"skipped">>
                                                     ELSE process'[j].code \in Codes
  BY DEF ResultsOK
<1>5. ~thread_exit' /\ main' # "raised" => \A j \in Done' : results'[j] # <<>>
  BY DEF ResultsOK
<1> QED BY <1>3, <1>4, <1>5 DEF ResultsOK

\* A job that is given back is Done, and neither counted nor in the results.
LEMMA GivenBack ==
  ASSUME ResultsOK, NEW j \in Jobs \ Done, Done' = Done \cup {j},
         thread_exit, process[j].code = NoCode,
         UNCHANGED <<main, thread_exit, process, tally, results>>
  PROVE  ResultsOK'
<1>1. \A k \in Jobs : Outcome(k)' = Outcome(k)
  BY DEF Outcome
<1>2. results[j] = <<>> /\ results[j] # <<"skipped">>
  BY DEF ResultsOK
<1>3. Outcome(j) = "none"
  BY <1>2 DEF Outcome
<1>4. \A s \in Statuses : CountedAs(s)' = CountedAs(s)
  BY <1>1, <1>3 DEF CountedAs, Statuses, Done
<1>5. \A s \in Statuses : tally'[s] = Cardinality(CountedAs(s)')
  BY <1>4 DEF ResultsOK
<1> QED BY <1>5 DEF ResultsOK

\* Any other job is counted, and what is written for it is its entry.
LEMMA Counted ==
  ASSUME TypeOK, ResultsOK, NEW j \in Jobs \ Done, Done' = Done \cup {j},
         NEW S \in Statuses, NEW e,
         tally' = [tally EXCEPT ![S] = @ + 1],
         \/ Write(j, e) /\ UNCHANGED main
         \/ results' = results /\ main' = "raised" /\ e # "skipped",
         e = "skipped" => j \in Skips /\ S = "skipped",
         e # "skipped" => /\ process[j].code \in Codes /\ j \notin Skips
                          /\ S = Status(ReturnValue(process[j].code, process[j].readable))
                          /\ S # "skipped",
         UNCHANGED <<thread_exit, process>>
  PROVE  ResultsOK'
<1>1. results[j] = <<>> /\ DOMAIN results = Jobs
  BY DEF ResultsOK, TypeOK
<1>2. Append(<<>>, e) = <<e>> /\ <<e>> # <<>> /\ <<"skipped">> # <<>>
  OBVIOUS
<1>3. /\ \A k \in Jobs \ {j} : results'[k] = results[k]
      /\ results'[j] = <<>> \/ results'[j] = <<e>>
  BY <1>1, <1>2 DEF Write
<1>4. results'[j] = <<"skipped">> <=> e = "skipped"
  <2>1. CASE Write(j, e)
    <3>1. results'[j] = <<e>>
      BY <1>1, <1>2, <2>1 DEF Write
    <3> QED BY <3>1
  <2>2. CASE results' = results /\ e # "skipped"
    BY <1>1, <1>2, <2>2
  <2> QED BY <2>1, <2>2
<1>5. \A k \in Done : Outcome(k)' = Outcome(k)
  BY <1>3 DEF Outcome, Done
<1>6. Outcome(j)' = S
  <2>1. process[j].code \in Codes => process[j].code # NoCode
    BY RunnerAssumption DEF NoCode
  <2> QED BY <1>4, <2>1 DEF Outcome
<1>7. CountedAs(S)' = CountedAs(S) \cup {j} /\ j \notin CountedAs(S)
  BY <1>5, <1>6 DEF CountedAs
<1>8. \A s \in Statuses \ {S} : CountedAs(s)' = CountedAs(s)
  BY <1>5, <1>6 DEF CountedAs
<1>9. IsFiniteSet(CountedAs(S)) /\ Cardinality(CountedAs(S) \cup {j}) = Cardinality(CountedAs(S)) + 1
  <2>1. CountedAs(S) \subseteq Jobs
    BY DEF CountedAs, Done
  <2> QED BY <1>7, <2>1, RunnerAssumption, FS_Subset, FS_AddElement
<1>10. DOMAIN tally = Statuses
  BY DEF TypeOK, Statuses
<1>11. \A s \in Statuses : tally'[s] = Cardinality(CountedAs(s)')
  <2> TAKE s \in Statuses
  <2>1. tally[s] = Cardinality(CountedAs(s))
    BY DEF ResultsOK
  <2> QED BY <1>7, <1>8, <1>9, <1>10, <2>1
<1>12. \A k \in Jobs : results'[k] = <<>> \/ (k \in Done' /\ \E x : results'[k] = <<x>>)
  BY <1>3 DEF ResultsOK
<1>13. \A k \in Jobs : results'[k] = <<"skipped">> => k \in Skips
  BY <1>3, <1>4 DEF ResultsOK
<1>14. ~thread_exit' => \A k \in Done' : IF k \in Skips THEN results'[k] = <<"skipped">>
                                                      ELSE process'[k].code \in Codes
  BY <1>3, <1>4 DEF ResultsOK, Done
<1>15. ~thread_exit' /\ main' # "raised" => \A k \in Done' : results'[k] # <<>>
  <2> SUFFICES ASSUME ~thread_exit', main' # "raised", NEW k \in Done'
               PROVE  results'[k] # <<>>
    OBVIOUS
  <2>1. Write(j, e) /\ main # "raised" /\ ~thread_exit
    OBVIOUS
  <2>2. CASE k = j
    BY <1>1, <1>2, <2>1, <2>2 DEF Write
  <2>3. CASE k \in Done
    BY <1>3, <2>1, <2>3 DEF ResultsOK, Done
  <2> QED BY <2>2, <2>3
<1> QED BY <1>11, <1>12, <1>13, <1>14, <1>15 DEF ResultsOK

\* What is written for a job when its report is taken.
LEMMA CollectResults ==
  ASSUME TypeOK, PlacesOK, LeftOK, ReportsOK, ResultsOK, Collect
  PROVE  ResultsOK'
<1> PICK j : j = Head(output_queue).job
  OBVIOUS
<1> PICK said : said = Head(output_queue).said
  OBVIOUS
<1>1. j \in Jobs \ Done /\ Done' = Done \cup {j}
  BY CollectPlaces
<1>2. /\ Truthful(j, said) /\ said \in {IsBreak, IsSkip} \cup Codes \cup {1}
      /\ process[j].readable \in BOOLEAN
  BY <1>1, ReportsShrink DEF Reports, TypeOK
<1>3. UNCHANGED <<thread_exit, process>> /\ main = "collect"
  BY DEF Collect
<1>4. j \in Skips => process[j].code = NoCode
  BY DEF ReportsOK
<1>5. CASE said = IsBreak
  <2>1. UNCHANGED <<main, tally, results>>
    BY <1>5 DEF Collect, IsBreak
  <2>2. thread_exit /\ process[j].code = NoCode
    BY <1>2, <1>5, Numbers DEF Truthful, IsBreak, IsSkip
  <2> QED BY <1>1, <1>3, <2>1, <2>2, GivenBack
<1>6. CASE said # IsBreak
  <2> PICK S : S = Status(said)
    OBVIOUS
  <2> PICK e : e = IF HasXml(j, said) THEN process[j].saved ELSE S
    OBVIOUS
  <2>1. said \in {IsSkip} \cup Codes \cup {1} /\ S \in Statuses /\ (S = "skipped" <=> said = IsSkip)
    BY <1>2, <1>6, StatusOf
  <2>2. tally' = [tally EXCEPT ![S] = @ + 1]
    BY <1>6 DEF Collect
  <2>3. \/ Write(j, e) /\ UNCHANGED main
        \/ results' = results /\ main' = "raised" /\ HasXml(j, said)
    BY <1>6 DEF Collect
  <2>4. e = "skipped" <=> said = IsSkip
    <3>1. process[j].saved # "skipped"
      BY <1>1 DEF TypeOK
    <3> QED BY <2>1, <3>1 DEF HasXml, IsSkip
  <2>5. said = IsSkip => j \in Skips
    BY <1>2, Numbers DEF Truthful, IsBreak, IsSkip
  <2>6. said # IsSkip => process[j].code \in Codes /\ said = ReturnValue(process[j].code, process[j].readable)
    BY <1>2, <1>6 DEF Truthful
  <2>7. said # IsSkip => j \notin Skips
    BY <1>2, <1>4, <2>6, Numbers
  <2>8. S = "skipped" <=> e = "skipped"
    BY <2>1, <2>4
  <2>9. e # "skipped" => /\ process[j].code \in Codes /\ j \notin Skips /\ S # "skipped"
                         /\ S = Status(ReturnValue(process[j].code, process[j].readable))
    BY <2>4, <2>6, <2>7, <2>8
  <2>10. \/ Write(j, e) /\ UNCHANGED main
         \/ results' = results /\ main' = "raised" /\ e # "skipped"
    BY <2>3, <2>4 DEF HasXml, IsSkip
  <2>11. e = "skipped" => j \in Skips /\ S = "skipped"
    BY <2>4, <2>5, <2>8
  <2> QED BY <1>1, <1>3, <2>1, <2>2, <2>9, <2>10, <2>11, Counted
<1> QED BY <1>5, <1>6

-----------------------------------------------------------------------------
(* Every step keeps the invariant. *)

LEMMA SomeJobs ==
  ASSUME NEW L \in SUBSET Jobs
  PROVE  Cardinality(L) \in 0 .. Cardinality(Jobs)
<1>1. /\ IsFiniteSet(L) /\ Cardinality(L) <= Cardinality(Jobs)
      /\ Cardinality(L) \in Nat /\ Cardinality(Jobs) \in Nat
  BY RunnerAssumption, FS_Subset, FS_CardinalityType
<1> QED BY <1>1

\* The main thread waits for no more jobs than there are.
LEMMA LeftInRange ==
  ASSUME LeftOK'
  PROVE  left' \in 0 .. Cardinality(Jobs)
<1>1. Live' \subseteq Jobs
  BY DEF Live, Inputs, Held, Outputs
<1> QED BY <1>1, SomeJobs DEF LeftOK

\* Nor does it count more.
LEMMA TallyInRange ==
  ASSUME ResultsOK'
  PROVE  \A s \in Statuses : tally'[s] \in 0 .. Cardinality(Jobs)
<1> TAKE s \in Statuses
<1>1. CountedAs(s)' \subseteq Jobs
  BY DEF CountedAs, Done
<1> QED BY <1>1, SomeJobs DEF ResultsOK

LEMMA DispatchIInv ==
  ASSUME IInv, NEW kind, DispatchKind(kind)
  PROVE  IInv'
<1>1. TypeOK /\ PlacesOK /\ LeftOK /\ WorkersOK /\ BreaksOK /\ ReportsOK /\ ResultsOK
  BY DEF IInv
<1>2. PICK j \in kind \cap undispatched :
        /\ main = "dispatch" /\ undispatched' = undispatched \ {j}
        /\ input_queue' = Append(input_queue, j) /\ left' = left + 1
        /\ UNCHANGED <<main, thread_exit, output_queue, worker, process, tally, results, exit>>
  BY DEF DispatchKind
<1>3. j \in undispatched /\ j \in Jobs
  BY <1>1, Types
<1>4. /\ PlacesOK' /\ LeftOK' /\ Done' = Done
      /\ Inputs' = Inputs \cup {j} /\ Held' = Held /\ Outputs' = Outputs
  BY <1>1, <1>2, <1>3, DispatchPlaces
<1>5. TypeOK'
  <2>1. input_queue' \in Seq(Jobs \cup {Break})
    BY <1>1, <1>2, <1>3, Types, AfterPut
  <2>2. left' \in 0 .. Cardinality(Jobs)
    BY <1>4, LeftInRange
  <2> QED BY <1>1, <1>2, <2>1, <2>2 DEF TypeOK
<1>6. WorkersOK'
  BY <1>1, <1>2 DEF WorkersOK
<1>7. BreaksOK'
  BY <1>1, <1>2, <1>3, DispatchWorkers
<1>8. ReportsOK'
  BY <1>1, <1>2, <1>3, <1>4, ReportsKept
<1>9. ResultsOK'
  BY <1>1, <1>2, <1>4, ResultsKept
<1>10. ExitOK'
  BY <1>2 DEF ExitOK
<1> QED BY <1>4, <1>5, <1>6, <1>7, <1>8, <1>9, <1>10 DEF IInv

LEMMA DispatchBreaksIInv ==
  ASSUME IInv, DispatchBreaks
  PROVE  IInv'
<1>1. TypeOK /\ PlacesOK /\ LeftOK /\ WorkersOK /\ BreaksOK /\ ReportsOK /\ ResultsOK
  BY DEF IInv
<1>2. /\ main = "dispatch" /\ main' = "collect" /\ input_queue' = input_queue \o Breaks
      /\ UNCHANGED <<undispatched, thread_exit, output_queue, worker, process, left,
                     tally, results, exit>>
  BY DEF DispatchBreaks
<1>3. BreaksIn(input_queue) = {}
  BY <1>1, <1>2 DEF BreaksOK
<1>4. /\ PlacesOK' /\ LeftOK' /\ Done' = Done
      /\ Inputs' = Inputs /\ Held' = Held /\ Outputs' = Outputs
  BY <1>1, <1>2, <1>3, BreaksPlaces
<1>5. TypeOK'
  <2>1. input_queue' \in Seq(Jobs \cup {Break})
    BY <1>1, <1>2, <1>3, Types, BreaksAfterDispatch
  <2> QED BY <1>1, <1>2, <2>1 DEF TypeOK
<1>6. WorkersOK'
  BY <1>1, <1>2 DEF WorkersOK
<1>7. BreaksOK'
  BY <1>1, BreaksWorkers
<1>8. ReportsOK'
  BY <1>1, <1>2, <1>4, ReportsKept
<1>9. ResultsOK'
  BY <1>1, <1>2, <1>4, ResultsKept
<1>10. ExitOK'
  BY <1>2 DEF ExitOK
<1> QED BY <1>4, <1>5, <1>6, <1>7, <1>8, <1>9, <1>10 DEF IInv

LEMMA CollectIInv ==
  ASSUME IInv, Collect
  PROVE  IInv'
<1>1. TypeOK /\ PlacesOK /\ LeftOK /\ WorkersOK /\ BreaksOK /\ ReportsOK /\ ResultsOK
  BY DEF IInv
<1>2. /\ main = "collect" /\ output_queue # <<>> /\ output_queue' = Tail(output_queue)
      /\ UNCHANGED <<undispatched, thread_exit, input_queue, worker, process>>
  BY DEF Collect
<1>3. PlacesOK' /\ LeftOK' /\ Head(output_queue).job \in Jobs
  BY <1>1, CollectPlaces
<1>4. ReportsOK' /\ Head(output_queue) \in Reports
  BY <1>1, ReportsShrink
<1>5. ResultsOK'
  BY <1>1, CollectResults
<1>6. main' \in {"collect", "raised"} /\ exit' \in {exit, 1}
  BY <1>2 DEF Collect
<1>7. TypeOK'
  <2>1. output_queue' \in Seq(Reports)
    BY <1>1, <1>2, Types, AfterGet
  <2>2. left' \in 0 .. Cardinality(Jobs)
    BY <1>3, LeftInRange
  <2>3. tally' \in [Statuses -> 0 .. Cardinality(Jobs)]
    <3>1. tally' = [s \in Statuses |-> tally'[s]]
      BY <1>1 DEF Collect, TypeOK, Statuses
    <3> QED BY <1>5, <3>1, TallyInRange
  <2>4. results' \in [Jobs -> Seq(Entries)]
    <3> PICK j : j = Head(output_queue).job
      OBVIOUS
    <3> PICK said : said = Head(output_queue).said
      OBVIOUS
    <3>1. j \in Jobs /\ results[j] \in Seq(Entries)
      BY <1>1, <1>3 DEF TypeOK
    <3>2. said # IsBreak => Status(said) \in Entries
      BY <1>4, StatusOf DEF Reports, Statuses, Entries
    <3>3. process[j].saved # "none" => process[j].saved \in Entries
      BY <1>1, <3>1 DEF TypeOK, Entries
    <3>4. results' = results \/ \E e \in Entries : Write(j, e)
      BY <3>2, <3>3 DEF Collect
    <3>5. \A e \in Entries : Append(results[j], e) \in Seq(Entries)
      BY <3>1, AppendProperties
    <3> QED BY <1>1, <3>1, <3>4, <3>5 DEF TypeOK, Write
  <2> QED BY <1>1, <1>2, <1>6, <2>1, <2>2, <2>3, <2>4 DEF TypeOK, Statuses
<1>8. WorkersOK'
  BY <1>1, <1>2 DEF WorkersOK
<1>9. BreaksOK'
  BY <1>1, <1>2, <1>6 DEF BreaksOK, BreaksIn, Working
<1>10. ExitOK'
  BY <1>6 DEF ExitOK
<1> QED BY <1>3, <1>4, <1>5, <1>7, <1>8, <1>9, <1>10 DEF IInv

LEMMA JoinAllIInv ==
  ASSUME IInv, JoinAll
  PROVE  IInv'
<1>1. TypeOK /\ PlacesOK /\ LeftOK /\ WorkersOK /\ BreaksOK /\ ReportsOK /\ ResultsOK
  BY DEF IInv
<1>2. /\ main = "collect" /\ main' = "exited" /\ left = 0 /\ exit' = Verdict
      /\ \A w \in Workers : worker[w].at \in {"gone", "died"}
      /\ UNCHANGED <<undispatched, thread_exit, input_queue, output_queue, worker,
                     process, left, tally, results>>
  BY DEF JoinAll
<1>3. PlacesOK' /\ LeftOK' /\ Done' = Done
  BY <1>1, <1>2 DEF PlacesOK, LeftOK, Done, Live, Inputs, Held, Outputs,
                    InputsOnce, HeldOnce, OutputsOnce
<1>4. TypeOK'
  BY <1>1, <1>2 DEF TypeOK, Verdict
<1>5. WorkersOK' /\ BreaksOK'
  BY <1>1, <1>2 DEF WorkersOK, BreaksOK, BreaksIn, Working
<1>6. ReportsOK'
  BY <1>1, <1>2 DEF ReportsOK, Truthful, Inputs, Held
<1>7. ResultsOK'
  BY <1>1, <1>2, <1>3, ResultsKept
<1>8. ExitOK'
  BY <1>2 DEF ExitOK, Verdict
<1> QED BY <1>3, <1>4, <1>5, <1>6, <1>7, <1>8 DEF IInv

\* A worker that has something to do is not gone: nobody has joined it.
LEMMA NotOver ==
  ASSUME ExitOK, NEW w \in Workers, worker[w].at \notin {"gone", "died"}
  PROVE  main # "exited"
BY DEF ExitOK

LEMMA GetIInv ==
  ASSUME IInv, NEW w \in Workers, Get(w)
  PROVE  IInv'
<1>1. TypeOK /\ PlacesOK /\ LeftOK /\ WorkersOK /\ BreaksOK /\ ReportsOK /\ ResultsOK /\ ExitOK
  BY DEF IInv
<1> PICK h : h = Head(input_queue)
  OBVIOUS
<1>2. /\ worker[w].at = "get" /\ input_queue # <<>> /\ input_queue' = Tail(input_queue)
      /\ worker' = [worker EXCEPT ![w] =
           [at |-> IF h = Break THEN "gone" ELSE "check", job |-> h]]
      /\ UNCHANGED <<main, undispatched, thread_exit, output_queue, process, left,
                     tally, results, exit>>
  BY DEF Get
<1>3. /\ PlacesOK' /\ LeftOK' /\ Done' = Done
      /\ h \in Jobs \cup {Break} /\ (h \in Jobs => h \in Inputs)
      /\ Inputs' = Inputs \ {h} /\ Held' = Held \cup ({h} \cap Jobs)
  BY <1>1, GetPlaces
<1>4. TypeOK'
  <2>1. input_queue' \in Seq(Jobs \cup {Break})
    BY <1>1, <1>2, Types, AfterGet
  <2> QED BY <1>1, <1>2, <1>3, <2>1 DEF TypeOK
<1>5. WorkersOK' /\ BreaksOK'
  BY <1>1, GetWorkers
<1>6. ReportsOK'
  BY <1>1, <1>2, <1>3, ReportsKept
<1>7. ResultsOK'
  BY <1>1, <1>2, <1>3, ResultsKept
<1>8. ExitOK'
  BY <1>1, <1>2, NotOver DEF ExitOK
<1> QED BY <1>3, <1>4, <1>5, <1>6, <1>7, <1>8 DEF IInv

\* A worker reports the job it has.
LEMMA ReportIInv ==
  ASSUME IInv, NEW w \in Workers, worker[w].at \in {"check", "run"},
         NEW j, j = worker[w].job, NEW said \in {IsBreak, IsSkip} \cup Codes \cup {1},
         Report(w, said), Truthful(j, said)',
         process' \in [Jobs -> [code : Codes \cup {NoCode}, readable : BOOLEAN,
                               saved : {"none", "partial", "complete"}]],
         \A k \in Jobs \ {j} : process'[k] = process[k],
         j \in Skips => process' = process,
         UNCHANGED <<main, undispatched, thread_exit, input_queue, left, tally, results, exit>>
  PROVE  IInv'
<1>1. TypeOK /\ PlacesOK /\ LeftOK /\ WorkersOK /\ BreaksOK /\ ReportsOK /\ ResultsOK /\ ExitOK
  BY DEF IInv
<1>2. j \in Jobs
  BY <1>1 DEF WorkersOK
<1>3. [job |-> j, said |-> said] \in Reports
  BY <1>2 DEF Reports
<1>4. /\ output_queue' = Append(output_queue, [job |-> j, said |-> said])
      /\ worker' = [worker EXCEPT ![w] = [at |-> "get", job |-> Break]]
  BY DEF Report
<1>5. /\ PlacesOK' /\ LeftOK' /\ Done' = Done /\ j \in Held
      /\ Inputs' = Inputs /\ Held' = Held \ {j} /\ Outputs' = Outputs \cup {j}
  BY <1>1, <1>2, <1>3, ReportPlaces
<1>6. j \notin undispatched /\ j \notin Inputs /\ j \notin Outputs /\ j \notin Done
  BY <1>1, <1>5 DEF PlacesOK, Live, Done
<1>7. TypeOK'
  <2>1. output_queue' \in Seq(Reports)
    BY <1>1, <1>3, <1>4, Types, AfterPut
  <2> QED BY <1>1, <1>4, <2>1 DEF TypeOK
<1>8. Break \notin Jobs
  BY RunnerAssumption
<1>9. WorkersOK'
  BY <1>1, <1>4, <1>8, OneWorker
<1>10. BreaksOK'
  <2> PICK r : r = [at |-> "get", job |-> Break]
    OBVIOUS
  <2>1. r.at # "gone" /\ worker' = [worker EXCEPT ![w] = r]
    BY <1>4
  <2> QED BY <1>1, <2>1, SameBreaks
<1>11. ReportsOK'
  BY <1>1, <1>2, <1>3, <1>4, <1>5, <1>6, ReportsGrow
<1>12. ResultsOK'
  <2>1. \A k \in Done : process'[k] = process[k]
    BY <1>6 DEF Done
  <2> QED BY <1>1, <1>5, <2>1, ResultsKept
<1>13. ExitOK'
  BY <1>1, NotOver DEF ExitOK
<1> QED BY <1>5, <1>7, <1>9, <1>10, <1>11, <1>12, <1>13 DEF IInv

\* A worker goes on with its job, or dies with it.
LEMMA WorkerAtIInv ==
  ASSUME IInv, NEW w \in Workers, worker[w].at \in {"check", "run"},
         NEW a \in {"run", "died"}, a = "run" => worker[w].job \notin Skips,
         worker' = [worker EXCEPT ![w].at = a],
         UNCHANGED <<main, undispatched, thread_exit, input_queue, output_queue,
                     process, left, tally, results, exit>>
  PROVE  IInv'
<1>1. TypeOK /\ PlacesOK /\ LeftOK /\ WorkersOK /\ BreaksOK /\ ReportsOK /\ ResultsOK /\ ExitOK
  BY DEF IInv
<1>2. worker[w].job \in Jobs
  BY <1>1 DEF WorkersOK
<1> PICK r : r = [at |-> a, job |-> worker[w].job]
  OBVIOUS
<1>3. worker' = [worker EXCEPT ![w] = r] /\ r.at = a /\ r.job = worker[w].job
  <2>1. worker[w] = [at |-> worker[w].at, job |-> worker[w].job]
    BY <1>1 DEF TypeOK
  <2>2. [worker[w] EXCEPT !.at = a] = r
    BY <2>1
  <2> QED BY <2>2
<1>4. /\ PlacesOK' /\ LeftOK' /\ Done' = Done
      /\ Inputs' = Inputs /\ Held' = Held /\ Outputs' = Outputs
  BY <1>1, AtPlaces
<1>5. TypeOK'
  <2>1. r \in [at : {"get", "check", "run", "gone", "died"}, job : Jobs \cup {Break}]
    BY <1>2
  <2>2. worker' \in [Workers -> [at : {"get", "check", "run", "gone", "died"},
                                job : Jobs \cup {Break}]]
    BY <1>1, <1>3, <2>1 DEF TypeOK
  <2> QED BY <1>1, <2>2 DEF TypeOK
<1>6. WorkersOK'
  BY <1>1, <1>2, <1>3, OneWorker
<1>7. BreaksOK'
  BY <1>1, <1>3, SameBreaks
<1>8. ReportsOK'
  BY <1>1, <1>4, ReportsKept
<1>9. ResultsOK'
  BY <1>1, <1>4, ResultsKept
<1>10. ExitOK'
  BY <1>1, NotOver DEF ExitOK
<1> QED BY <1>4, <1>5, <1>6, <1>7, <1>8, <1>9, <1>10 DEF IInv

LEMMA CheckIInv ==
  ASSUME IInv, NEW w \in Workers, Check(w)
  PROVE  IInv'
<1> PICK j : j = worker[w].job
  OBVIOUS
<1>1. /\ worker[w].at = "check"
      /\ UNCHANGED <<main, undispatched, thread_exit, input_queue, process, left,
                     tally, results, exit>>
  BY DEF Check
<1>2. j \in Jobs /\ j \in Held
  BY <1>1 DEF IInv, WorkersOK, Held
<1>3. process[j].code = NoCode
  BY <1>2 DEF IInv, ReportsOK
<1>4. process' \in [Jobs -> [code : Codes \cup {NoCode}, readable : BOOLEAN,
                            saved : {"none", "partial", "complete"}]]
  BY <1>1 DEF IInv, TypeOK
<1>5. CASE thread_exit /\ Report(w, IsBreak)
  <2>1. Truthful(j, IsBreak)'
    BY <1>1, <1>3, <1>5 DEF Truthful
  <2> QED BY <1>1, <1>4, <1>5, <2>1, ReportIInv
<1>6. CASE j \in Skips /\ Report(w, IsSkip)
  <2>1. Truthful(j, IsSkip)'
    BY <1>1, <1>3, <1>6 DEF Truthful
  <2> QED BY <1>1, <1>4, <1>6, <2>1, ReportIInv
<1>7. CASE j \notin Skips /\ worker' = [worker EXCEPT ![w].at = "run"] /\ UNCHANGED output_queue
  BY <1>1, <1>7, WorkerAtIInv
<1> QED BY <1>5, <1>6, <1>7 DEF Check

LEMMA RunJobIInv ==
  ASSUME IInv, NEW w \in Workers, RunJob(w)
  PROVE  IInv'
<1> PICK j : j = worker[w].job
  OBVIOUS
<1>1. PICK code \in Codes, readable \in BOOLEAN, saved \in {"none", "partial", "complete"} :
        /\ process' = [process EXCEPT ![j] = [code |-> code, readable |-> readable, saved |-> saved]]
        /\ Report(w, ReturnValue(code, readable))
  BY DEF RunJob, Saved
<1>2. /\ worker[w].at = "run"
      /\ UNCHANGED <<main, undispatched, thread_exit, input_queue, left, tally, results, exit>>
  BY DEF RunJob
<1>3. j \in Jobs /\ j \notin Skips
  BY <1>2 DEF IInv, WorkersOK
<1>4. process \in [Jobs -> [code : Codes \cup {NoCode}, readable : BOOLEAN,
                           saved : {"none", "partial", "complete"}]]
  BY DEF IInv, TypeOK
<1>5. /\ process' \in [Jobs -> [code : Codes \cup {NoCode}, readable : BOOLEAN,
                               saved : {"none", "partial", "complete"}]]
      /\ process'[j] = [code |-> code, readable |-> readable, saved |-> saved]
      /\ \A k \in Jobs \ {j} : process'[k] = process[k]
  BY <1>1, <1>3, <1>4
<1> PICK said : said = ReturnValue(code, readable)
  OBVIOUS
<1>6. said \in {IsBreak, IsSkip} \cup Codes \cup {1}
  BY Numbers
<1>7. Truthful(j, said)'
  BY <1>5 DEF Truthful
<1> QED BY <1>1, <1>2, <1>3, <1>5, <1>6, <1>7, ReportIInv

LEMMA InterruptIInv ==
  ASSUME IInv, Interrupt
  PROVE  IInv'
<1>1. TypeOK /\ PlacesOK /\ LeftOK /\ WorkersOK /\ BreaksOK /\ ReportsOK /\ ResultsOK
  BY DEF IInv
<1>2. /\ main \in {"dispatch", "collect"} /\ thread_exit' = TRUE
      /\ UNCHANGED <<main, undispatched, input_queue, output_queue, worker, process,
                     left, tally, results, exit>>
  BY DEF Interrupt
<1>3. PlacesOK' /\ LeftOK' /\ Done' = Done
  BY <1>1, <1>2 DEF PlacesOK, LeftOK, Done, Live, Inputs, Held, Outputs,
                    InputsOnce, HeldOnce, OutputsOnce
<1>4. TypeOK'
  BY <1>1, <1>2 DEF TypeOK
<1>5. WorkersOK' /\ BreaksOK'
  BY <1>1, <1>2 DEF WorkersOK, BreaksOK, BreaksIn, Working
<1>6. ReportsOK'
  BY <1>1, <1>2 DEF ReportsOK, Truthful, Inputs, Held
<1>7. ResultsOK'
  BY <1>1, <1>2, <1>3, ResultsKept
<1>8. ExitOK'
  BY <1>2 DEF ExitOK
<1> QED BY <1>3, <1>4, <1>5, <1>6, <1>7, <1>8 DEF IInv

LEMMA StutterIInv ==
  ASSUME IInv, UNCHANGED vars
  PROVE  IInv'
<1>1. TypeOK /\ PlacesOK /\ LeftOK /\ WorkersOK /\ BreaksOK /\ ReportsOK /\ ResultsOK /\ ExitOK
  BY DEF IInv
<1>2. PlacesOK' /\ LeftOK' /\ Done' = Done
  BY <1>1 DEF vars, PlacesOK, LeftOK, Done, Live, Inputs, Held, Outputs,
              InputsOnce, HeldOnce, OutputsOnce
<1>3. TypeOK' /\ WorkersOK' /\ BreaksOK'
  BY <1>1 DEF vars, TypeOK, WorkersOK, BreaksOK, BreaksIn, Working
<1>4. ReportsOK'
  BY <1>1 DEF vars, ReportsOK, Truthful, Inputs, Held
<1>5. ResultsOK'
  BY <1>1, <1>2, ResultsKept DEF vars
<1>6. ExitOK'
  BY <1>1 DEF vars, ExitOK, Verdict
<1> QED BY <1>2, <1>3, <1>4, <1>5, <1>6 DEF IInv

LEMMA InitIInv ==
  ASSUME Init
  PROVE  IInv
<1>1. /\ main = "dispatch" /\ undispatched = Jobs /\ left = 0
      /\ results = [j \in Jobs |-> <<>>]
      /\ input_queue = <<>> /\ output_queue = <<>>
      /\ worker = [w \in Workers |-> [at |-> "get", job |-> Break]]
      /\ process = [j \in Jobs |-> [code |-> NoCode, readable |-> TRUE, saved |-> "none"]]
  BY DEF Init
<1>2. Len(input_queue) = 0 /\ Len(output_queue) = 0 /\ Break \notin Jobs /\ Skips \subseteq Jobs
  BY <1>1, RunnerAssumption
<1>3. Inputs = {} /\ Held = {} /\ Outputs = {}
  BY <1>1, <1>2 DEF Inputs, Held, Outputs
<1>4. PlacesOK
  BY <1>1, <1>2, <1>3 DEF PlacesOK, InputsOnce, HeldOnce, OutputsOnce, Live
<1>5. LeftOK /\ Cardinality({}) = 0
  BY <1>1, <1>3, FS_EmptySet DEF LeftOK, Live
<1>6. WorkersOK
  BY <1>1, <1>2 DEF WorkersOK
<1>7. BreaksOK
  BY <1>1, <1>2 DEF BreaksOK, BreaksIn, Working
<1>8. ReportsOK
  BY <1>1, <1>2, <1>3 DEF ReportsOK
<1>9. ResultsOK
  <2>1. Done = {}
    BY <1>1 DEF Done
  <2>2. \A s \in Statuses : CountedAs(s) = {} /\ tally[s] = 0
    BY <2>1 DEF CountedAs, Init, Statuses
  <2>3. \A j \in Jobs : results[j] = <<>> /\ <<"skipped">> # <<>>
    BY <1>1
  <2> QED BY <1>1, <1>5, <2>1, <2>2, <2>3 DEF ResultsOK
<1>10. ExitOK
  BY <1>1 DEF ExitOK
<1>11. TypeOK
  <2>1. Cardinality(Jobs) \in Nat
    BY RunnerAssumption, FS_CardinalityType
  <2>2. tally \in [Statuses -> 0 .. Cardinality(Jobs)]
    BY <2>1 DEF Init, Statuses
  <2>3. input_queue \in Seq(Jobs \cup {Break}) /\ output_queue \in Seq(Reports)
    BY <1>1, EmptySeq
  <2>4. /\ worker \in [Workers -> [at : {"get", "check", "run", "gone", "died"},
                                job : Jobs \cup {Break}]]
        /\ process \in [Jobs -> [code : Codes \cup {NoCode}, readable : BOOLEAN,
                               saved : {"none", "partial", "complete"}]]
    BY <1>1
  <2>5. left \in 0 .. Cardinality(Jobs)
    BY <1>1, <2>1
  <2>6. main \in {"dispatch", "collect", "raised", "exited"} /\ thread_exit \in BOOLEAN
    BY DEF Init
  <2>7. exit \in {-1, 0, 1}
    BY DEF Init
  <2>8. results \in [Jobs -> Seq(Entries)]
    BY <1>1, EmptySeq
  <2> QED BY <1>1, <2>2, <2>3, <2>4, <2>5, <2>6, <2>7, <2>8 DEF TypeOK, Statuses
<1> QED BY <1>4, <1>5, <1>6, <1>7, <1>8, <1>9, <1>10, <1>11 DEF IInv

LEMMA NextIInv ==
  ASSUME IInv, [Next]_vars
  PROVE  IInv'
<1>1. ASSUME NEW kind, DispatchKind(kind) PROVE IInv'
  BY <1>1, DispatchIInv
<1>2. ASSUME NEW w \in Workers, WorkerStep(w) \/ SpawnFailed(w) PROVE IInv'
  <2>1. CASE SpawnFailed(w)
    BY <2>1, WorkerAtIInv DEF SpawnFailed
  <2> QED BY <1>2, <2>1, GetIInv, CheckIInv, RunJobIInv DEF WorkerStep
<1>3. CASE DispatchSuite \/ DispatchExample \/ DispatchPyExample
  BY <1>1, <1>3 DEF DispatchSuite, DispatchExample, DispatchPyExample
<1> QED BY <1>2, <1>3, DispatchBreaksIInv, CollectIInv, JoinAllIInv, InterruptIInv,
           StutterIInv DEF Next, MainStep

THEOREM Invariance == Spec => []IInv
BY InitIInv, NextIInv, PTL DEF Spec

-----------------------------------------------------------------------------
(* What follows. *)

\* The variables have their types: the main thread never waits for more
\* results than there are tests.
THEOREM TypeCorrect == Spec => []TypeOK
<1>1. IInv => TypeOK
  BY DEF IInv
<1> QED BY <1>1, Invariance, PTL

\* No job is lost or doubled between the queues and the workers, and the main
\* thread waits for exactly the jobs that are still to come.
THEOREM NoJobIsLost == Spec => []JobsKept
<1>1. IInv => JobsKept
  <2> SUFFICES ASSUME IInv PROVE JobsKept
    OBVIOUS
  <2>1. PlacesOK /\ LeftOK
    BY DEF IInv
  <2>2. ASSUME NEW j \in Jobs
        PROVE  Cardinality(InQueue(j)) + Cardinality(InHand(j)) + Cardinality(Reported(j)) <= 1
    <3>1. /\ InQueue(j) # {} <=> j \in Inputs
          /\ InHand(j) # {} <=> j \in Held
          /\ Reported(j) # {} <=> j \in Outputs
      BY DEF InQueue, InHand, Reported, Inputs, Held, Outputs
    <3>2. /\ \A x, y \in InQueue(j) : x = y
          /\ \A x, y \in InHand(j) : x = y
          /\ \A x, y \in Reported(j) : x = y
      BY <2>1 DEF PlacesOK, InputsOnce, HeldOnce, OutputsOnce, InQueue, InHand, Reported
    <3>3. /\ Cardinality(InQueue(j)) \in 0 .. 1 /\ (Cardinality(InQueue(j)) = 1 <=> j \in Inputs)
          /\ Cardinality(InHand(j)) \in 0 .. 1 /\ (Cardinality(InHand(j)) = 1 <=> j \in Held)
          /\ Cardinality(Reported(j)) \in 0 .. 1 /\ (Cardinality(Reported(j)) = 1 <=> j \in Outputs)
      BY <3>1, <3>2, AtMostOne
    <3>4. /\ ~(j \in Inputs /\ j \in Held) /\ ~(j \in Inputs /\ j \in Outputs)
          /\ ~(j \in Held /\ j \in Outputs)
      BY <2>1 DEF PlacesOK
    <3> QED BY <3>3, <3>4
  <2>3. {j \in Jobs : InQueue(j) \cup InHand(j) \cup Reported(j) # {}} = Live
    BY DEF Live, InQueue, InHand, Reported, Inputs, Held, Outputs
  <2> QED BY <2>1, <2>2, <2>3 DEF JobsKept, LeftOK
<1> QED BY <1>1, Invariance, PTL

\* At the end nothing is left to wait for, so every job is Done, and no worker
\* has died with one.
LEMMA AtTheEnd ==
  ASSUME IInv, main = "exited"
  PROVE  /\ Live = {} /\ Done = Jobs /\ exit = Verdict
         /\ \A w \in Workers : worker[w].at = "gone"
<1>1. /\ left = 0 /\ exit = Verdict /\ undispatched = {}
      /\ \A w \in Workers : worker[w].at \in {"gone", "died"}
  BY DEF IInv, ExitOK, BreaksOK
<1>2. Live = {}
  BY <1>1, LiveIsFinite, FS_EmptySet DEF IInv, LeftOK
<1>3. \A w \in Workers : worker[w].at # "died"
  BY <1>2 DEF IInv, WorkersOK, Live, Held
<1> QED BY <1>1, <1>2, <1>3 DEF Done

\* run_tests leaves no job in a queue and no worker behind.
THEOREM AllIsTaken == Spec => []NothingLeftBehind
<1>1. IInv => NothingLeftBehind
  <2> SUFFICES ASSUME IInv, main = "exited"
               PROVE  /\ input_queue = <<>> /\ output_queue = <<>>
                      /\ \A w \in Workers : worker[w].at = "gone"
    BY DEF NothingLeftBehind
  <2>1. Live = {} /\ \A w \in Workers : worker[w].at = "gone"
    BY AtTheEnd
  <2>2. TypeOK
    BY DEF IInv
  <2>3. BreaksIn(input_queue) = {}
    <3>1. Working = {}
      BY <2>1 DEF Working
    <3>2. BreaksIn(input_queue) \subseteq 1 .. Len(input_queue)
      BY DEF BreaksIn
    <3>3. IsFiniteSet(BreaksIn(input_queue))
      <4>1. IsFiniteSet(1 .. Len(input_queue))
        BY <2>2, Types, FS_Interval
      <4> QED BY <3>2, <4>1, FS_Subset
    <3>4. Cardinality(BreaksIn(input_queue)) = 0
      BY <3>1, FS_EmptySet DEF IInv, BreaksOK
    <3> QED BY <3>3, <3>4, FS_EmptySet
  <2>4. /\ ~\E i \in 1 .. Len(input_queue) : TRUE
        /\ ~\E i \in 1 .. Len(output_queue) : TRUE
    <3>1. \A i \in 1 .. Len(input_queue) : input_queue[i] \in Jobs \cup {Break}
      BY <2>2, Types
    <3>2. \A i \in 1 .. Len(output_queue) : output_queue[i].job \in Jobs
      BY <2>2, Types
    <3> QED BY <2>1, <2>3, <3>1, <3>2 DEF Live, Inputs, Outputs, BreaksIn
  <2>5. Len(input_queue) = 0 /\ Len(output_queue) = 0
    <3>1. Len(input_queue) \in Nat /\ Len(output_queue) \in Nat
      BY <2>2, Types
    <3>2. \A n \in Nat : n # 0 => 1 \in 1 .. n
      OBVIOUS
    <3> QED BY <2>4, <3>1, <3>2
  <2>6. input_queue = <<>> /\ output_queue = <<>>
    BY <2>2, <2>5, Types, EmptySeq
  <2> QED BY <2>1, <2>6
<1> QED BY <1>1, Invariance, PTL

\* A suite has saved what suites with its return code save.
FilesOK ==
  \A j \in Jobs :
    process[j].saved # "none" =>
      process[j].code \in Codes /\ process[j].saved \in Saved(j, process[j].code)

\* What is in the results tells what became of the test.
EntriesOK == \A j \in Jobs, e \in Entries : results[j] = <<e>> => Describes(e, j)

\* The entry that the main thread writes tells what became of the test.
LEMMA EntryDescribes ==
  ASSUME TypeOK, FilesOK, NEW j \in Jobs,
         NEW said \in {IsSkip} \cup Codes \cup {1}, Truthful(j, said),
         NEW e, e = IF HasXml(j, said) THEN process[j].saved ELSE Status(said),
         e # "none"
  PROVE  Describes(e, j)
<1>1. process[j].readable \in BOOLEAN /\ process[j].saved \in {"none", "partial", "complete"}
  BY DEF TypeOK
<1>2. said # IsBreak /\ Status(said) \in Statuses /\ (Status(said) = "skipped" <=> said = IsSkip)
  <2>1. said # IsBreak
    BY RunnerAssumption DEF IsSkip, IsBreak
  <2> QED BY <2>1, StatusOf
<1>3. CASE HasXml(j, said)
  <2>1. e = process[j].saved /\ j \in Suites /\ said \in 0 .. 2 /\ said # IsSkip
    BY <1>3 DEF HasXml, IsSkip
  <2>2. process[j].code \in Codes /\ e \in Saved(j, process[j].code)
    BY <2>1 DEF FilesOK
  <2>3. said = ReturnValue(process[j].code, process[j].readable)
    BY <1>2, <2>1 DEF Truthful
  <2>4. CASE Completed(process[j].code)
    <3>1. e = "complete"
      BY <2>1, <2>2, <2>4 DEF Saved
    <3> QED BY <2>1, <2>4, <3>1 DEF Describes
  <2>5. CASE ~Completed(process[j].code)
    <3>1. e = "partial"
      BY <2>1, <2>2, <2>5 DEF Saved
    <3>2. ~process[j].readable
      BY <1>1, <2>1, <2>3, <2>5 DEF ReturnValue, Completed
    <3> QED BY <2>1, <2>5, <3>1, <3>2 DEF Describes
  <2> QED BY <2>4, <2>5
<1>4. CASE ~HasXml(j, said) /\ said = IsSkip
  <2>1. e = "skipped" /\ j \in Skips
    <3>1. said # IsBreak /\ Status(said) = "skipped"
      BY <1>2, <1>4
    <3>2. process[j].code \in Codes =>
            IsSkip # ReturnValue(process[j].code, process[j].readable)
      BY <1>1, Numbers
    <3> QED BY <1>4, <3>1, <3>2 DEF Truthful
  <2> QED BY <2>1 DEF Describes
<1>5. CASE ~HasXml(j, said) /\ said # IsSkip
  <2>1. e = Status(said) /\ e \in Statuses \ {"skipped"}
    BY <1>2, <1>5
  <2>2. said = ReturnValue(process[j].code, process[j].readable)
    BY <1>2, <1>5 DEF Truthful
  <2>3. CASE e = "crashed"
    <3>1. said \notin 0 .. 2
      BY <2>1, <2>3 DEF Status, IsSkip
    <3>2. process[j].readable /\ ~Completed(process[j].code)
      BY <1>1, <2>2, <3>1 DEF ReturnValue, Completed
    <3> QED BY <2>3, <3>2 DEF Describes
  <2>4. CASE e # "crashed"
    <3>1. said \in 0 .. 2
      BY <1>5, <2>1, <2>4 DEF Status, IsSkip
    <3>2. j \notin Suites
      BY <1>5, <3>1 DEF HasXml
    <3> QED BY <2>1, <2>2, <2>4, <3>2 DEF Describes, Statuses
  <2> QED BY <2>3, <2>4
<1> QED BY <1>3, <1>4, <1>5

LEMMA NextFiles ==
  ASSUME TypeOK, IInv, FilesOK, [Next]_vars
  PROVE  FilesOK'
<1>1. CASE UNCHANGED process
  BY <1>1 DEF FilesOK
<1>2. ASSUME NEW w \in Workers, RunJob(w) PROVE FilesOK'
  <2> PICK j : j = worker[w].job
    OBVIOUS
  <2>1. PICK code \in Codes, readable \in BOOLEAN : \E saved \in Saved(j, code) :
          process' = [process EXCEPT ![j] = [code |-> code, readable |-> readable, saved |-> saved]]
    BY <1>2 DEF RunJob
  <2>2. PICK saved \in Saved(j, code) :
          process' = [process EXCEPT ![j] = [code |-> code, readable |-> readable, saved |-> saved]]
    BY <2>1
  <2>3. j \in Jobs
    BY <1>2 DEF IInv, WorkersOK, RunJob
  <2>4. /\ process'[j] = [code |-> code, readable |-> readable, saved |-> saved]
        /\ \A k \in Jobs \ {j} : process'[k] = process[k]
    BY <2>2, <2>3 DEF TypeOK
  <2> QED BY <2>2, <2>4 DEF FilesOK
<1>3. [Next]_vars => UNCHANGED process \/ \E w \in Workers : RunJob(w)
  BY DEF Next, vars, MainStep, WorkerStep, DispatchSuite, DispatchExample, DispatchPyExample,
         DispatchKind, DispatchBreaks, Collect, JoinAll, Get, Check, SpawnFailed, Interrupt
<1> QED BY <1>1, <1>2, <1>3

LEMMA NextEntries ==
  ASSUME IInv, FilesOK, EntriesOK, [Next]_vars
  PROVE  EntriesOK'
<1> USE DEF EntriesOK
<1>1. TypeOK /\ PlacesOK /\ LeftOK /\ ReportsOK /\ ResultsOK
  BY DEF IInv
<1>2. CASE UNCHANGED <<process, results>>
  BY <1>2 DEF Describes
<1>3. ASSUME NEW w \in Workers, RunJob(w) PROVE EntriesOK'
  <2> PICK j : j = worker[w].job
    OBVIOUS
  <2>1. j \in Held /\ UNCHANGED results
    BY <1>3 DEF IInv, WorkersOK, RunJob, Held
  <2>2. \A k \in Jobs \ {j} : process'[k] = process[k]
    BY <1>1, <1>3 DEF RunJob, TypeOK
  <2>3. results[j] = <<>>
    BY <1>1, <2>1 DEF ResultsOK, Done, Live, Held
  <2>4. \A e : results'[j] # <<e>>
    BY <2>1, <2>3
  <2>5. ASSUME NEW k \in Jobs, NEW e \in Entries, results'[k] = <<e>>
        PROVE  Describes(e, k)'
    <3>1. k # j /\ process'[k] = process[k] /\ results[k] = <<e>>
      BY <2>1, <2>2, <2>4, <2>5
    <3>2. Describes(e, k)
      BY <3>1
    <3> QED BY <3>1, <3>2 DEF Describes
  <2> QED BY <2>5
<1>4. CASE Collect
  <2> PICK j : j = Head(output_queue).job
    OBVIOUS
  <2> PICK said : said = Head(output_queue).said
    OBVIOUS
  <2>1. j \in Jobs \ Done
    BY <1>1, <1>4, CollectPlaces
  <2>2. Truthful(j, said) /\ said \in {IsBreak, IsSkip} \cup Codes \cup {1}
    BY <1>1, <1>4, <2>1, ReportsShrink DEF Reports
  <2>3. UNCHANGED process
    BY <1>4 DEF Collect
  <2>4. CASE UNCHANGED results
    BY <2>3, <2>4 DEF Describes
  <2>5. CASE results' # results
    <3> PICK e : e = IF HasXml(j, said) THEN process[j].saved ELSE Status(said)
      OBVIOUS
    <3>1. said # IsBreak /\ e # "none" /\ Write(j, e)
      <4>1. said # IsBreak
        BY <1>4, <2>5 DEF Collect
      <4>2. Status(said) # "none"
        BY <2>2, <4>1, StatusOf DEF Statuses
      <4> QED BY <1>4, <2>5, <4>1, <4>2 DEF Collect
    <3>2. Describes(e, j)
      BY <1>1, <2>1, <2>2, <3>1, EntryDescribes
    <3>3. results[j] = <<>> /\ DOMAIN results = Jobs
      BY <1>1, <2>1 DEF ResultsOK, TypeOK
    <3>4. results'[j] = <<e>> /\ \A k \in Jobs \ {j} : results'[k] = results[k]
      BY <2>1, <3>1, <3>3 DEF Write
    <3>5. ASSUME NEW k \in Jobs, NEW x \in Entries, results'[k] = <<x>>
          PROVE  Describes(x, k)
      <4>1. CASE k = j
        <5>1. x = e
          BY <3>4, <3>5, <4>1
        <5> QED BY <3>2, <4>1, <5>1
      <4>2. CASE k # j
        BY <3>4, <3>5, <4>2
      <4> QED BY <4>1, <4>2
    <3> QED BY <2>3, <3>5 DEF Describes
  <2> QED BY <2>4, <2>5
<1>5. \/ UNCHANGED <<process, results>>
      \/ Collect
      \/ \E w \in Workers : RunJob(w)
  BY DEF Next, vars, MainStep, WorkerStep, DispatchSuite, DispatchExample, DispatchPyExample,
         DispatchKind, DispatchBreaks, JoinAll, Get, Check, SpawnFailed, Interrupt
<1> QED BY <1>2, <1>3, <1>4, <1>5

\* A run that nobody interrupts writes one entry for every test, and what it
\* writes is true of the test: the file of a suite that crashed is shown only
\* when undecodable output has hidden the crash.
THEOREM ResultsAreComplete == Spec => []EachReportedOnce
<1>1. Init => FilesOK /\ EntriesOK
  BY DEF Init, FilesOK, EntriesOK
<1>2. IInv /\ FilesOK /\ EntriesOK /\ [Next]_vars => FilesOK' /\ EntriesOK'
  BY NextFiles, NextEntries DEF IInv
<1>3. IInv /\ EntriesOK => EachReportedOnce
  <2> SUFFICES ASSUME IInv, EntriesOK, main = "exited", ~thread_exit, NEW j \in Jobs
               PROVE  Len(results[j]) = 1 /\ Describes(results[j][1], j)
    BY DEF EachReportedOnce
  <2>1. Done = Jobs
    BY AtTheEnd
  <2>2. results[j] # <<>> /\ results[j] \in Seq(Entries)
    BY <2>1 DEF IInv, ResultsOK, TypeOK
  <2>3. PICK e : results[j] = <<e>>
    BY <2>1, <2>2 DEF IInv, ResultsOK
  <2>4. Len(results[j]) = 1 /\ results[j][1] = e
    BY <2>3
  <2>5. e \in Entries
    BY <2>2, <2>4, ElementOfSeq
  <2> QED BY <2>3, <2>4, <2>5 DEF EntriesOK
<1> QED BY <1>1, <1>2, <1>3, Invariance, PTL DEF Spec

\* The exit code is 0 exactly for the runs in which every test was skipped or
\* has passed, of those that nobody interrupts; and for no other.
THEOREM ExitCodeIsRight == Spec => []ExitTellsTruth
<1>1. IInv => ExitTellsTruth
  <2> SUFFICES ASSUME IInv, main = "exited"
               PROVE  /\ exit = 0 => \A j \in Jobs : Good(j)
                      /\ (\A j \in Jobs : Good(j)) /\ ~thread_exit => exit = 0
    BY DEF ExitTellsTruth
  <2> DEFINE P == CountedAs("passed")
             K == CountedAs("skipped")
  <2>1. Done = Jobs /\ exit = Verdict
    BY AtTheEnd
  <2>2. \A j \in Jobs : process[j].code \in Codes \cup {NoCode} /\ process[j].readable \in BOOLEAN
    BY DEF IInv, TypeOK
  <2>3. /\ P \subseteq Jobs /\ K \subseteq Jobs /\ P \cap K = {}
        /\ \A j \in Jobs : (j \in P <=> Outcome(j) = "passed") /\ (j \in K <=> Outcome(j) = "skipped")
    BY <2>1 DEF CountedAs
  <2> HIDE DEF P, K
  <2>4. /\ Cardinality(P) \in Nat /\ Cardinality(K) \in Nat
        /\ Cardinality(P \cup K) = Cardinality(P) + Cardinality(K)
        /\ Cardinality(P \cup K) = Cardinality(Jobs) <=> P \cup K = Jobs
    <3>1. IsFiniteSet(P) /\ IsFiniteSet(K)
      BY <2>3, RunnerAssumption, FS_Subset
    <3>2. Cardinality(P \cup K) = Cardinality(P) + Cardinality(K) - Cardinality(P \cap K)
      BY <3>1, FS_Union
    <3>3. P \cup K \in SUBSET Jobs
      BY <2>3
    <3>4. Cardinality(Jobs) = Cardinality(P \cup K) => Jobs = P \cup K
      BY <3>3, RunnerAssumption, FS_Subset
    <3>5. Cardinality(P) \in Nat /\ Cardinality(K) \in Nat
      BY <3>1, FS_CardinalityType
    <3>6. Cardinality(P \cap K) = 0
      BY <2>3, FS_EmptySet
    <3>7. Cardinality(P \cup K) = Cardinality(P) + Cardinality(K)
      BY <3>2, <3>5, <3>6
    <3> QED BY <3>4, <3>5, <3>7
  <2>5. exit = 0 <=> P \cup K = Jobs
    <3>1. tally.passed = Cardinality(P) /\ tally.skipped = Cardinality(K)
      BY DEF IInv, ResultsOK, Statuses, P, K
    <3> QED BY <2>1, <2>4, <3>1 DEF Verdict
  <2>6. ASSUME NEW j \in P \cup K PROVE Good(j)
    <3>1. j \in Jobs /\ Outcome(j) \in {"passed", "skipped"}
      BY <2>3, <2>6
    <3>2. CASE results[j] = <<"skipped">>
      BY <3>1, <3>2 DEF IInv, ResultsOK, Good
    <3>3. CASE results[j] # <<"skipped">>
      <4> PICK said : said = ReturnValue(process[j].code, process[j].readable)
        OBVIOUS
      <4>1. process[j].code \in Codes /\ Status(said) \in {"passed", "skipped"}
        BY <2>2, <3>1, <3>3 DEF Outcome
      <4>2. said \in Codes \cup {1} /\ said # IsSkip
        BY <2>2, <3>1, <4>1, Numbers
      <4>3. said = 0
        BY <4>1, <4>2, StatusOf
      <4> QED BY <2>2, <3>1, <4>1, <4>3, Numbers DEF Good
    <3> QED BY <3>2, <3>3
  <2>7. ASSUME ~thread_exit, NEW j \in Jobs, Good(j) PROVE j \in P \cup K
    <3>1. CASE j \in Skips
      <4>1. results[j] = <<"skipped">>
        BY <2>1, <2>7, <3>1 DEF IInv, ResultsOK
      <4> QED BY <2>3, <4>1 DEF Outcome
    <3>2. CASE j \notin Skips
      <4> PICK said : said = ReturnValue(process[j].code, process[j].readable)
        OBVIOUS
      <4>1. process[j].code \in Codes /\ process[j].code = 0 /\ process[j].readable
        BY <2>1, <2>7, <3>2 DEF IInv, ResultsOK, Good
      <4>2. said = 0 /\ said \in Codes \cup {1} /\ process[j].code # NoCode
        BY <2>2, <4>1, Numbers
      <4>3. Status(said) = "passed"
        BY <4>2, StatusOf
      <4>4. results[j] # <<"skipped">>
        BY <3>2 DEF IInv, ResultsOK
      <4> QED BY <2>3, <4>2, <4>3, <4>4 DEF Outcome
    <3> QED BY <3>1, <3>2
  <2> QED BY <2>3, <2>5, <2>6, <2>7
<1> QED BY <1>1, Invariance, PTL

-----------------------------------------------------------------------------
(* Why the run ends: it is never stuck, and every step leaves less to do.  *)

\* Jobs in the hand of a worker that is at this place.
HeldAt(at) == {j \in Jobs : \E w \in Workers : worker[w] = [at |-> at, job |-> j]}

\* A step that may still be taken, with its number: those of a job, the end of
\* a worker, the end of each loop of the main thread, and SIGINT.
IsToDo(x, k) ==
  \/ k \in 1 .. 5 /\ x \in undispatched
  \/ k \in 1 .. 4 /\ x \in Inputs
  \/ k \in 1 .. 3 /\ x \in HeldAt("check")
  \/ k \in 1 .. 2 /\ x \in HeldAt("run")
  \/ k = 1 /\ x \in Outputs
  \/ k = 0 /\ x \in Working
  \/ x = Break /\ \/ k = -1 /\ main \in {"dispatch", "collect"}
                  \/ k = -2 /\ main = "dispatch"
                  \/ k = -3 /\ ~thread_exit

ToDo == {s \in (Jobs \cup Workers \cup {Break}) \X (-3 .. 5) : IsToDo(s[1], s[2])}

\* Nobody has to wait for another: the main thread has a job to dispatch or a
\* result to take, or a worker goes on, or the main thread can join them all.
SomebodyMoves ==
  \/ main = "dispatch"
  \/ left > 0 /\ output_queue # <<>>
  \/ \E w \in Workers : worker[w].at \in {"check", "run"}
  \/ input_queue # <<>> /\ \E w \in Workers : worker[w].at = "get"
  \/ left = 0 /\ \A w \in Workers : worker[w].at = "gone"

\* Break jobs come last: no worker leaves before every job is taken.
BreaksLast ==
  /\ \A i, k \in 1 .. Len(input_queue) : i < k /\ input_queue[i] = Break => input_queue[k] = Break
  /\ (\E w \in Workers : worker[w].at = "gone") => Inputs = {}

\* Every step moves jobs, workers and the main thread only downhill.
Downhill ==
  /\ undispatched' \subseteq undispatched
  /\ Inputs' \subseteq undispatched \cup Inputs
  /\ HeldAt("check")' \subseteq Inputs \cup HeldAt("check")
  /\ HeldAt("run")' \subseteq HeldAt("check") \cup HeldAt("run")
  /\ Outputs' \subseteq HeldAt("check") \cup HeldAt("run") \cup Outputs
  /\ Working' \subseteq Working
  /\ thread_exit => thread_exit'
  /\ main' = "dispatch" => main = "dispatch"
  /\ main' = "collect" => main \in {"dispatch", "collect"}

Less == ToDo' \subseteq ToDo /\ ToDo' # ToDo

LEMMA LessToDo ==
  ASSUME Downhill, NEW x \in Jobs \cup Workers \cup {Break}, NEW k \in -3 .. 5,
         IsToDo(x, k), ~IsToDo(x, k)'
  PROVE  Less
<1>1. ASSUME NEW y, NEW i, IsToDo(y, i)' PROVE IsToDo(y, i)
  BY <1>1 DEF IsToDo, Downhill
<1>2. ToDo' = {s \in (Jobs \cup Workers \cup {Break}) \X (-3 .. 5) : IsToDo(s[1], s[2])'}
  BY DEF ToDo
<1>3. ToDo' \subseteq ToDo
  BY <1>1, <1>2 DEF ToDo
<1>4. <<x, k>> \in ToDo /\ <<x, k>> \notin ToDo'
  BY <1>2 DEF ToDo
<1> QED BY <1>3, <1>4 DEF Less

LEMMA HeldAtHeld ==
  ASSUME NEW at
  PROVE  HeldAt(at) \subseteq Held /\ HeldAt(at)' \subseteq Held'
BY DEF HeldAt, Held

\* Where a job is that a worker has, before and after a step of the worker.
LEMMA HandMoves ==
  ASSUME TypeOK, HeldOnce, NEW w \in Workers, NEW r, worker' = [worker EXCEPT ![w] = r]
  PROVE  /\ worker[w].job \in Jobs => worker[w].job \in HeldAt(worker[w].at)
         /\ \A at, j : j \in HeldAt(at)' =>
              \/ j \in HeldAt(at) /\ j # worker[w].job
              \/ r = [at |-> at, job |-> j]
<1>1. worker'[w] = r /\ \A v \in Workers \ {w} : worker'[v] = worker[v]
  BY Types
<1>2. worker[w] = [at |-> worker[w].at, job |-> worker[w].job]
  BY DEF TypeOK
<1>3. ASSUME NEW at, NEW j, j \in HeldAt(at)', r # [at |-> at, job |-> j]
      PROVE  j \in HeldAt(at) /\ j # worker[w].job
  <2>1. PICK v \in Workers : worker'[v] = [at |-> at, job |-> j] /\ j \in Jobs
    BY <1>3 DEF HeldAt
  <2>2. v # w /\ worker[v] = [at |-> at, job |-> j]
    BY <1>1, <1>3, <2>1
  <2>3. worker[v].job = j
    BY <2>2
  <2> QED BY <2>1, <2>2, <2>3 DEF HeldAt, HeldOnce
<1> QED BY <1>2, <1>3 DEF HeldAt

LEMMA MainLess ==
  ASSUME IInv, MainStep
  PROVE  Less
<1>1. TypeOK /\ PlacesOK /\ LeftOK /\ WorkersOK /\ BreaksOK
  BY DEF IInv
<1>2. UNCHANGED worker
  BY DEF MainStep, DispatchSuite, DispatchExample, DispatchPyExample, DispatchKind,
         DispatchBreaks, Collect, JoinAll
<1>3. HeldAt("check")' = HeldAt("check") /\ HeldAt("run")' = HeldAt("run") /\ Working' = Working
  BY <1>2 DEF HeldAt, Working
<1>4. ASSUME NEW kind, DispatchKind(kind) PROVE Less
  <2>1. PICK j \in kind \cap undispatched :
          /\ main = "dispatch" /\ undispatched' = undispatched \ {j}
          /\ input_queue' = Append(input_queue, j) /\ left' = left + 1
          /\ UNCHANGED <<main, thread_exit, output_queue, worker>>
    BY <1>4 DEF DispatchKind
  <2>2. Inputs' = Inputs \cup {j} /\ Outputs' = Outputs /\ j \in undispatched /\ j \in Jobs
    BY <1>1, <2>1, DispatchPlaces, Types
  <2>3. Downhill
    BY <1>3, <2>1, <2>2 DEF Downhill
  <2>4. IsToDo(j, 5) /\ ~IsToDo(j, 5)'
    BY <2>1, <2>2 DEF IsToDo
  <2> QED BY <2>2, <2>3, <2>4, LessToDo
<1>5. CASE DispatchBreaks
  <2>1. /\ main = "dispatch" /\ main' = "collect"
        /\ UNCHANGED <<undispatched, thread_exit, output_queue>>
    BY <1>5 DEF DispatchBreaks
  <2>2. Inputs' = Inputs /\ Outputs' = Outputs
    BY <1>1, <1>5, BreaksPlaces DEF DispatchBreaks, BreaksOK
  <2>3. Downhill
    BY <1>3, <2>1, <2>2 DEF Downhill
  <2>4. IsToDo(Break, -2) /\ ~IsToDo(Break, -2)'
    BY <2>1 DEF IsToDo
  <2> QED BY <2>3, <2>4, LessToDo
<1>6. CASE Collect
  <2> PICK j : j = Head(output_queue).job
    OBVIOUS
  <2>1. /\ main = "collect" /\ main' \in {"collect", "raised"}
        /\ UNCHANGED <<undispatched, thread_exit>>
    BY <1>6 DEF Collect
  <2>2. /\ j \in Outputs /\ j \in Jobs /\ j \notin undispatched /\ Outputs' = Outputs \ {j}
        /\ Inputs' = Inputs /\ Held' = Held
    BY <1>1, <1>6, CollectPlaces
  <2>3. Downhill
    BY <1>3, <2>1, <2>2 DEF Downhill
  <2>4. j \notin Inputs /\ j \notin HeldAt("check") /\ j \notin HeldAt("run")
    BY <1>1, <2>2, HeldAtHeld DEF PlacesOK
  <2>5. IsToDo(j, 1) /\ ~IsToDo(j, 1)'
    BY <1>3, <2>1, <2>2, <2>4 DEF IsToDo
  <2> QED BY <2>2, <2>3, <2>5, LessToDo
<1>7. CASE JoinAll
  <2>1. /\ main = "collect" /\ main' = "exited"
        /\ UNCHANGED <<undispatched, thread_exit, input_queue, output_queue>>
    BY <1>7 DEF JoinAll
  <2>2. Inputs' = Inputs /\ Outputs' = Outputs
    BY <2>1 DEF Inputs, Outputs
  <2>3. Downhill
    BY <1>3, <2>1, <2>2 DEF Downhill
  <2>4. IsToDo(Break, -1) /\ ~IsToDo(Break, -1)'
    BY <2>1 DEF IsToDo
  <2> QED BY <2>3, <2>4, LessToDo
<1> QED BY <1>4, <1>5, <1>6, <1>7
        DEF MainStep, DispatchSuite, DispatchExample, DispatchPyExample

LEMMA GetLess ==
  ASSUME IInv, NEW w \in Workers, Get(w)
  PROVE  Less
<1>1. TypeOK /\ PlacesOK /\ LeftOK /\ WorkersOK /\ Break \notin Jobs
  BY RunnerAssumption DEF IInv
<1> PICK h : h = Head(input_queue)
  OBVIOUS
<1> PICK r : r = [at |-> IF h = Break THEN "gone" ELSE "check", job |-> h]
  OBVIOUS
<1>2. /\ worker[w].at = "get" /\ worker' = [worker EXCEPT ![w] = r]
      /\ UNCHANGED <<main, undispatched, thread_exit>>
  BY DEF Get
<1>3. /\ h \in Jobs \cup {Break} /\ (h \in Jobs => h \in Inputs)
      /\ Inputs' = Inputs \ {h} /\ Outputs' = Outputs
  BY <1>1, GetPlaces
<1>4. \A at, j : j \in HeldAt(at)' => j \in HeldAt(at) \/ r = [at |-> at, job |-> j]
  BY <1>1, <1>2, HandMoves DEF PlacesOK
<1>5. /\ \A j \in HeldAt("check")' : j \in HeldAt("check") \/ (j = h /\ h # Break)
      /\ \A j \in HeldAt("run")' : j \in HeldAt("run")
  <2>1. \A j : r = [at |-> "check", job |-> j] => j = h /\ h # Break
    OBVIOUS
  <2>2. \A j : r # [at |-> "run", job |-> j]
    OBVIOUS
  <2>3. \A j \in HeldAt("check")' : j \in HeldAt("check") \/ r = [at |-> "check", job |-> j]
    BY <1>4
  <2>4. \A j \in HeldAt("run")' : j \in HeldAt("run") \/ r = [at |-> "run", job |-> j]
    BY <1>4
  <2> QED BY <2>1, <2>2, <2>3, <2>4
<1>6. worker'[w] = r /\ \A v \in Workers \ {w} : worker'[v] = worker[v]
  BY <1>1, <1>2, Types
<1>7. Downhill
  <2>1. Working' \subseteq Working
    BY <1>2, <1>6 DEF Working
  <2> QED BY <1>2, <1>3, <1>5, <2>1 DEF Downhill
<1>8. CASE h \in Jobs
  <2>1. h \in Inputs /\ h \notin undispatched
    BY <1>1, <1>3, <1>8 DEF PlacesOK, Live
  <2>2. IsToDo(h, 4) /\ ~IsToDo(h, 4)'
    BY <1>1, <1>2, <1>3, <1>8, <2>1 DEF IsToDo
  <2> QED BY <1>7, <1>8, <2>2, LessToDo
<1>9. CASE h = Break
  <2>1. w \in Working /\ w \notin Working'
    BY <1>2, <1>6, <1>9 DEF Working
  <2>2. IsToDo(w, 0) /\ ~IsToDo(w, 0)'
    BY <2>1 DEF IsToDo
  <2> QED BY <1>7, <2>2, LessToDo
<1> QED BY <1>3, <1>8, <1>9

\* A worker that goes on with its job, reports it or dies with it.
LEMMA OnlyOneHand ==
  ASSUME IInv, NEW w \in Workers, NEW r, worker' = [worker EXCEPT ![w] = r],
         \/ /\ worker[w].at = "check"
            /\ r.at \in {"get", "run"} /\ r.job \in {Break, worker[w].job}
         \/ worker[w].at = "run" /\ r.at \in {"get", "died"},
         Outputs' \subseteq Outputs \cup {worker[w].job},
         UNCHANGED <<main, undispatched, thread_exit, input_queue>>
  PROVE  Less
<1>1. TypeOK /\ PlacesOK /\ LeftOK /\ WorkersOK /\ Break \notin Jobs
  BY RunnerAssumption DEF IInv
<1> PICK j : j = worker[w].job
  OBVIOUS
<1>2. j \in Jobs /\ j \in HeldAt(worker[w].at)
  BY <1>1, HandMoves DEF WorkersOK, PlacesOK
<1>3. j \notin undispatched /\ j \notin Inputs /\ j \notin Outputs
  BY <1>1, <1>2, HeldAtHeld DEF PlacesOK, Live
<1>4. \A at, k : k \in HeldAt(at)' =>
        (k \in HeldAt(at) /\ k # j) \/ (r.at = at /\ r.job = k /\ k \in Jobs)
  <2>1. \A at, k : k \in HeldAt(at)' =>
          (k \in HeldAt(at) /\ k # j) \/ r = [at |-> at, job |-> k]
    <3>1. TypeOK /\ HeldOnce
      BY <1>1 DEF PlacesOK
    <3>2. \A at, k : k \in HeldAt(at)' =>
            (k \in HeldAt(at) /\ k # worker[w].job) \/ r = [at |-> at, job |-> k]
      BY <3>1, HandMoves, Zenon
    <3> QED BY <3>2, Zenon
  <2>2. \A at, k : k \in HeldAt(at)' => k \in Jobs
    BY DEF HeldAt
  <2> QED BY <2>1, <2>2
<1>5. Inputs' = Inputs
  BY DEF Inputs
<1>6. worker'[w] = r /\ \A v \in Workers \ {w} : worker'[v] = worker[v]
  BY <1>1, Types
<1>7. Working' \subseteq Working
  BY <1>6 DEF Working
<1>8. CASE worker[w].at = "check" /\ r.at \in {"get", "run"} /\ r.job \in {Break, j}
  <2>1. /\ \A k \in HeldAt("check")' : k \in HeldAt("check") /\ k # j
        /\ \A k \in HeldAt("run")' : k \in HeldAt("run") \/ k = j
    BY <1>1, <1>4, <1>8
  <2>2. Downhill
    BY <1>2, <1>5, <1>7, <1>8, <2>1 DEF Downhill
  <2>3. IsToDo(j, 3) /\ ~IsToDo(j, 3)'
    BY <1>1, <1>2, <1>3, <1>5, <1>8, <2>1 DEF IsToDo
  <2> QED BY <1>2, <2>2, <2>3, LessToDo
<1>9. CASE worker[w].at = "run" /\ r.at \in {"get", "died"}
  <2>1. /\ \A k \in HeldAt("check")' : k \in HeldAt("check") /\ k # j
        /\ \A k \in HeldAt("run")' : k \in HeldAt("run") /\ k # j
    BY <1>4, <1>9
  <2>2. Downhill
    BY <1>2, <1>5, <1>7, <1>9, <2>1 DEF Downhill
  <2>3. IsToDo(j, 2) /\ ~IsToDo(j, 2)'
    BY <1>1, <1>2, <1>3, <1>5, <1>9, <2>1 DEF IsToDo
  <2> QED BY <1>2, <2>2, <2>3, LessToDo
<1> QED BY <1>8, <1>9

LEMMA WorkerLess ==
  ASSUME IInv, NEW w \in Workers, Check(w) \/ RunJob(w) \/ SpawnFailed(w)
  PROVE  Less
<1>1. TypeOK /\ PlacesOK /\ LeftOK /\ WorkersOK
  BY DEF IInv
<1>2. UNCHANGED <<main, undispatched, thread_exit, input_queue, left>>
  BY DEF Check, RunJob, SpawnFailed
<1>3. worker[w].at \in {"check", "run"} /\ worker[w].job \in Jobs
  BY <1>1 DEF Check, RunJob, SpawnFailed, WorkersOK
<1>4. ASSUME NEW said \in {IsBreak, IsSkip} \cup Codes \cup {1}, Report(w, said) PROVE Less
  <2>1. [job |-> worker[w].job, said |-> said] \in Reports
    BY <1>3 DEF Reports
  <2>2. Outputs' = Outputs \cup {worker[w].job}
    BY <1>1, <1>2, <1>3, <1>4, <2>1, ReportPlaces
  <2> PICK r : r = [at |-> "get", job |-> Break]
    OBVIOUS
  <2>3. worker' = [worker EXCEPT ![w] = r] /\ r.at = "get" /\ r.job = Break
    BY <1>4 DEF Report
  <2> QED BY <1>2, <1>3, <2>2, <2>3, OnlyOneHand
<1>5. ASSUME NEW a, worker' = [worker EXCEPT ![w].at = a], UNCHANGED output_queue,
             (worker[w].at = "check" /\ a = "run") \/ (worker[w].at = "run" /\ a = "died")
      PROVE  Less
  <2> PICK r : r = [at |-> a, job |-> worker[w].job]
    OBVIOUS
  <2>1. worker' = [worker EXCEPT ![w] = r] /\ r.at = a /\ r.job = worker[w].job
    <3>1. worker[w] = [at |-> worker[w].at, job |-> worker[w].job]
      BY <1>1 DEF TypeOK
    <3>2. [worker[w] EXCEPT !.at = a] = r
      BY <3>1
    <3> QED BY <1>5, <3>2
  <2>2. Outputs' = Outputs
    BY <1>5 DEF Outputs
  <2> QED BY <1>2, <1>5, <2>1, <2>2, OnlyOneHand
<1>6. CASE Check(w)
  BY <1>4, <1>5, <1>6 DEF Check
<1>7. CASE RunJob(w)
  <2>1. PICK code \in Codes, readable \in BOOLEAN : Report(w, ReturnValue(code, readable))
    BY <1>7 DEF RunJob
  <2>2. ReturnValue(code, readable) \in Codes \cup {1}
    BY Numbers
  <2> QED BY <1>4, <2>1, <2>2
<1>8. CASE SpawnFailed(w)
  BY <1>5, <1>8 DEF SpawnFailed
<1> QED BY <1>6, <1>7, <1>8

LEMMA InterruptLess ==
  ASSUME IInv, Interrupt
  PROVE  Less
<1>1. ~thread_exit /\ thread_exit' = TRUE
      /\ UNCHANGED <<main, undispatched, input_queue, output_queue, worker>>
  BY DEF Interrupt
<1>2. /\ Inputs' = Inputs /\ Outputs' = Outputs /\ Working' = Working
      /\ HeldAt("check")' = HeldAt("check") /\ HeldAt("run")' = HeldAt("run")
  BY <1>1 DEF Inputs, Outputs, Working, HeldAt
<1>3. Downhill
  BY <1>1, <1>2 DEF Downhill
<1>4. IsToDo(Break, -3) /\ ~IsToDo(Break, -3)'
  BY <1>1 DEF IsToDo
<1> QED BY <1>3, <1>4, LessToDo

LEMMA ToDoIsFinite == IsFiniteSet(ToDo) /\ Cardinality(ToDo) \in Nat
<1> DEFINE P == (Jobs \cup Workers \cup {Break}) \X (-3 .. 5)
<1>1. IsFiniteSet(Jobs \cup Workers \cup {Break})
  BY RunnerAssumption, FS_Union, FS_Singleton
<1>2. IsFiniteSet(-3 .. 5)
  <2>1. -3 \in Int /\ 5 \in Int
    OBVIOUS
  <2> QED BY <2>1, FS_Interval
<1>3. IsFiniteSet(P)
  BY <1>1, <1>2, FS_Product
<1>4. ToDo \subseteq P
  BY DEF ToDo
<1> QED BY <1>3, <1>4, FS_Subset, FS_CardinalityType

LEMMA BreaksStayLast ==
  ASSUME IInv, BreaksLast, [Next]_vars
  PROVE  BreaksLast'
<1>1. TypeOK /\ PlacesOK /\ LeftOK /\ WorkersOK /\ BreaksOK /\ Break \notin Jobs
  BY RunnerAssumption DEF IInv
<1> DEFINE q == input_queue
           n == Len(input_queue)
<1>2. ASSUME NEW kind, DispatchKind(kind) PROVE BreaksLast'
  <2>1. PICK j \in Jobs : main = "dispatch" /\ q' = Append(q, j) /\ UNCHANGED worker
    BY <1>1, <1>2, Types DEF DispatchKind
  <2>2. /\ n \in Nat /\ Len(q') = n + 1 /\ q'[n + 1] = j
        /\ \A i \in 1 .. n : q'[i] = q[i]
    BY <1>1, <2>1, Types, AfterPut
  <2>3. \A i \in 1 .. n : q[i] # Break
    BY <1>1, <2>1 DEF BreaksOK, BreaksIn
  <2>4. \A i \in 1 .. n + 1 : i \in 1 .. n \/ i = n + 1
    BY <2>2
  <2>5. \A i \in 1 .. n + 1 : q'[i] # Break
    BY <1>1, <2>2, <2>3, <2>4
  <2>6. \A w \in Workers : worker'[w].at # "gone"
    BY <1>1, <2>1 DEF BreaksOK, Working
  <2> QED BY <2>2, <2>5, <2>6 DEF BreaksLast
<1>3. CASE DispatchBreaks
  <2>1. main = "dispatch" /\ q' = q \o Breaks /\ UNCHANGED worker
    BY <1>3 DEF DispatchBreaks
  <2>2. BreaksIn(q) = {}
    BY <1>1, <2>1 DEF BreaksOK
  <2>3. /\ n \in Nat /\ Len(q') \in Nat
        /\ \A i \in 1 .. n : q'[i] = q[i]
        /\ \A i \in n + 1 .. Len(q') : q'[i] = Break
    <3>1. Cardinality(Workers) \in Nat
      BY RunnerAssumption, FS_CardinalityType
    <3>2. /\ n \in Nat /\ Len(q \o Breaks) = n + Cardinality(Workers)
          /\ \A i \in 1 .. n : (q \o Breaks)[i] = q[i]
          /\ \A i \in n + 1 .. Len(q \o Breaks) : (q \o Breaks)[i] = Break
      BY <1>1, <2>2, Types, BreaksAfterDispatch
    <3>3. Len(q') = n + Cardinality(Workers)
      BY <2>1, <3>2
    <3>4. n \in Nat /\ Len(q') \in Nat
      BY <3>1, <3>2, <3>3
    <3> QED BY <2>1, <3>2, <3>4
  <2>4. \A i \in 1 .. n : q[i] # Break
    BY <2>2 DEF BreaksIn
  <2>5. \A i, k \in 1 .. Len(q') : i < k /\ q'[i] = Break => q'[k] = Break
    <3> SUFFICES ASSUME NEW i \in 1 .. Len(q'), NEW k \in 1 .. Len(q'), i < k, q'[i] = Break
                 PROVE  q'[k] = Break
      OBVIOUS
    <3>1. i \notin 1 .. n
      BY <2>3, <2>4
    <3>2. k \in n + 1 .. Len(q')
      BY <2>3, <3>1
    <3> QED BY <2>3, <3>2
  <2>6. \A w \in Workers : worker'[w].at # "gone"
    BY <1>1, <2>1 DEF BreaksOK, Working
  <2> QED BY <2>5, <2>6 DEF BreaksLast
<1>4. ASSUME NEW w \in Workers, Get(w) PROVE BreaksLast'
  <2> PICK h : h = Head(q)
    OBVIOUS
  <2>1. /\ q # <<>> /\ q' = Tail(q)
        /\ worker' = [worker EXCEPT ![w] = [at |-> IF h = Break THEN "gone" ELSE "check", job |-> h]]
    BY <1>4 DEF Get
  <2>2. /\ n \in Nat \ {0} /\ Len(q') = n - 1 /\ h = q[1]
        /\ \A i \in 1 .. n - 1 : q'[i] = q[i + 1]
    BY <1>1, <2>1, Types, AfterGet
  <2>3. Inputs' = Inputs \ {h}
    BY <1>1, <1>4, GetPlaces
  <2>4. \A i, k \in 1 .. n - 1 : i < k /\ q'[i] = Break => q'[k] = Break
    <3> SUFFICES ASSUME NEW i \in 1 .. n - 1, NEW k \in 1 .. n - 1, i < k, q'[i] = Break
                 PROVE  q'[k] = Break
      OBVIOUS
    <3>1. i + 1 \in 1 .. n /\ k + 1 \in 1 .. n /\ i + 1 < k + 1
      BY <2>2
    <3> QED BY <2>2, <3>1 DEF BreaksLast
  <2>5. CASE h = Break
    <3>1. \A i \in 1 .. n : q[i] = Break
      <4>1. 1 \in 1 .. n /\ \A i \in 1 .. n : i = 1 \/ 1 < i
        BY <2>2
      <4> QED BY <2>2, <2>5, <4>1 DEF BreaksLast
    <3>2. Inputs = {}
      BY <1>1, <3>1 DEF Inputs
    <3> QED BY <2>2, <2>3, <2>4, <3>2 DEF BreaksLast
  <2>6. CASE h # Break
    <3>1. \A v \in Workers : worker'[v].at = "gone" => worker[v].at = "gone"
      BY <1>1, <2>1, <2>6, Types
    <3> QED BY <2>2, <2>3, <2>4, <3>1 DEF BreaksLast
  <2> QED BY <2>5, <2>6
<1>5. CASE UNCHANGED input_queue /\ \A v \in Workers : worker'[v].at = "gone" => worker[v].at = "gone"
  BY <1>5 DEF BreaksLast, Inputs
<1>6. ASSUME NEW w \in Workers, Check(w) \/ RunJob(w) \/ SpawnFailed(w) PROVE BreaksLast'
  <2>1. UNCHANGED input_queue
    BY <1>6 DEF Check, RunJob, SpawnFailed
  <2>2. \A v \in Workers : worker'[v].at = "gone" => worker[v].at = "gone"
    <3>1. \E a \in {"get", "run", "died"} : \E j :
            worker' = [worker EXCEPT ![w] = [at |-> a, job |-> j]]
      <4>1. worker[w] = [at |-> worker[w].at, job |-> worker[w].job]
        BY <1>1 DEF TypeOK
      <4>2. \A a : [worker[w] EXCEPT !.at = a] = [at |-> a, job |-> worker[w].job]
        BY <4>1
      <4>3. CASE \E said : Report(w, said)
        BY <4>3 DEF Report
      <4>4. CASE \E a \in {"run", "died"} : worker' = [worker EXCEPT ![w].at = a]
        BY <4>2, <4>4
      <4> QED BY <1>6, <4>3, <4>4 DEF Check, RunJob, SpawnFailed
    <3> QED BY <1>1, <3>1, Types
  <2> QED BY <1>5, <2>1, <2>2
<1>7. CASE Collect \/ JoinAll \/ Interrupt \/ UNCHANGED vars
  BY <1>5, <1>7 DEF Collect, JoinAll, Interrupt, vars
<1> QED BY <1>2, <1>3, <1>4, <1>6, <1>7
        DEF Next, MainStep, WorkerStep, DispatchSuite, DispatchExample, DispatchPyExample

\* The safety part of Ends, in two theorems.  Each step leaves fewer steps to
\* take, so a run has finitely many: no job goes round in circles, between
\* whatever threads and with whatever interrupts.
THEOREM RunsAreFinite == Spec => [][Cardinality(ToDo') < Cardinality(ToDo)]_vars
<1>1. ASSUME IInv, Next PROVE Cardinality(ToDo') < Cardinality(ToDo)
  <2>1. Less
    BY <1>1, MainLess, GetLess, WorkerLess, InterruptLess DEF Next, WorkerStep
  <2>2. IsFiniteSet(ToDo) /\ Cardinality(ToDo) \in Nat /\ Cardinality(ToDo') \in Nat
    <3>1. ToDo' \in SUBSET ToDo
      BY <2>1 DEF Less
    <3> QED BY <3>1, ToDoIsFinite, FS_Subset, FS_CardinalityType
  <2>3. Cardinality(ToDo') <= Cardinality(ToDo) /\ Cardinality(ToDo') # Cardinality(ToDo)
    <3>1. ToDo' \in SUBSET ToDo /\ ToDo' # ToDo
      BY <2>1 DEF Less
    <3> QED BY <2>2, <3>1, FS_Subset
  <2> QED BY <2>2, <2>3
<1>2. IInv /\ [Next]_vars => [Cardinality(ToDo') < Cardinality(ToDo)]_vars
  BY <1>1
<1> QED BY <1>2, Invariance, PTL DEF Spec

\* And until run_tests returns or raises, or a worker dies with its job, some
\* thread can go on: the main thread and the workers never all wait.  There
\* has to be a worker: test.py starts one per processor, and at least one.
THEOREM NeverStuck ==
  ASSUME Workers # {}
  PROVE  Spec => []((main \in {"dispatch", "collect"} /\ \A w \in Workers : worker[w].at # "died")
                      => SomebodyMoves)
<1>1. ASSUME IInv, BreaksLast, main = "collect", \A w \in Workers : worker[w].at # "died"
      PROVE  SomebodyMoves
  <2> SUFFICES ASSUME \A w \in Workers : worker[w].at \notin {"check", "run"},
                      input_queue = <<>> \/ \A w \in Workers : worker[w].at # "get",
                      left = 0 \/ output_queue = <<>>
               PROVE  left = 0 /\ \A w \in Workers : worker[w].at = "gone"
    <3>1. left \in Nat
      BY <1>1, LiveIsFinite DEF IInv, LeftOK
    <3> QED BY <3>1 DEF SomebodyMoves
  <2>1. \A w \in Workers : worker[w].at \in {"get", "gone"}
    BY <1>1 DEF IInv, TypeOK
  <2>2. \A w \in Workers : worker[w].at = "gone"
    <3>1. CASE input_queue = <<>>
      <4>1. BreaksIn(input_queue) = {}
        BY <3>1, EmptySeq DEF BreaksIn
      <4>2. Cardinality(Working) = 0
        BY <1>1, <4>1, FS_EmptySet DEF IInv, BreaksOK
      <4>3. IsFiniteSet(Working)
        BY RunnerAssumption, FS_Subset DEF Working
      <4>4. Working = {}
        BY <4>2, <4>3, FS_EmptySet
      <4> QED BY <4>4 DEF Working
    <3> QED BY <2>1, <3>1
  <2>3. CASE output_queue = <<>>
    <3>1. Held = {} /\ Inputs = {}
      BY <1>1, <2>2 DEF IInv, WorkersOK, Held, BreaksLast
    <3>2. Outputs = {}
      BY <2>3, EmptySeq DEF Outputs
    <3>3. Live = {}
      BY <3>1, <3>2 DEF Live
    <3> QED BY <1>1, <2>2, <3>3, FS_EmptySet DEF IInv, LeftOK
  <2> QED BY <2>2, <2>3
<1>2. IInv /\ BreaksLast =>
        ((main \in {"dispatch", "collect"} /\ \A w \in Workers : worker[w].at # "died") => SomebodyMoves)
  BY <1>1 DEF SomebodyMoves
<1>3. Init => BreaksLast
  <2>1. Init => input_queue = <<>> /\ \A w \in Workers : worker[w].at # "gone"
    BY DEF Init
  <2> QED BY <2>1, EmptySeq DEF BreaksLast
<1> QED BY <1>2, <1>3, Invariance, BreaksStayLast, PTL DEF Spec
=============================================================================
