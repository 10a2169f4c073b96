----------------------------- MODULE ParallelJobs ------------------------------
(***************************************************************************)
(* How parallel-perf.py runs its jobs (scripts/python/parallel-perf.py,    *)
(* lines 39-260): a job is a perf command, its producer, whose output may  *)
(* be piped to a second process, its consumer.  DoRunWork starts up to     *)
(* nrJobs of them at a time, polls them, and kills what is left when one   *)
(* fails.                                                                  *)
(*                                                                         *)
(* Processes are external.  A process is killed asynchronously: "dying"    *)
(* becomes "killed" by a step of the kernel.  This program keeps the read  *)
(* end of the pipe open, so a producer whose consumer has gone gets no     *)
(* SIGPIPE: it may block for good.                                         *)
(*                                                                         *)
(* A definition named X_Y is a deliberately wrong variant of X, kept to    *)
(* see which property notices.                                             *)
(***************************************************************************)
EXTENDS Integers, Sequences, FiniteSets, SequencesExt

CONSTANTS
  StartFaults,   \* may Popen raise?
  Interrupts     \* may KeyboardInterrupt be raised?

ASSUME JobsAssumption == StartFaults \in BOOLEAN /\ Interrupts \in BOOLEAN

VARIABLES
  nrWork,      \* length of worklist; a job is its index in it
  nrJobs,      \* most jobs to run at the same time
  pipeTo,      \* is there a command to pipe to?
  producer, consumer,   \* the processes of each job
  errFile,     \* err.txt of each job
  pc,          \* control of DoRunWork and RunWork
  notStarted, running, notFinished, finished, done,   \* its lists
  polled,      \* what Poll has seen of the producer it is polling
  result,      \* "none", "true", "false" or "raised"
  failed       \* history: the job whose failure ended the run; 0: none

procVars == <<producer, consumer, errFile>>
lists == <<notStarted, running, notFinished, finished, done>>
fixed == <<nrWork, nrJobs, pipeTo>>
jobVars == <<fixed, procVars, pc, lists, polled, result, failed>>

Work == 1..nrWork
Dead == {"ok", "fail", "killed"}
ProcStates == {"none", "alive", "dying"} \cup Dead
AliveProc(p) == p \in {"alive", "dying"}
Gone(w) == producer[w] \in Dead /\ consumer[w] \in Dead \cup {"none"}
Started(w) == producer[w] # "none"
Returned == result # "none"

JobsInit ==
  /\ nrWork = 0 /\ nrJobs = 0 /\ pipeTo = FALSE
  /\ producer = <<>> /\ consumer = <<>> /\ errFile = <<>>
  /\ pc = "idle"
  /\ notStarted = <<>> /\ running = <<>> /\ notFinished = <<>>
  /\ finished = <<>> /\ done = <<>>
  /\ polled = "none"
  /\ result = "none" /\ failed = 0

\* RunWork is called with n jobs, of which at most j are to run at a time.
CallRunWork(n, j, pipe) ==
  /\ pc = "idle" /\ pc' = "loop"
  /\ nrWork' = n /\ nrJobs' = j /\ pipeTo' = pipe
  /\ producer' = [w \in 1..n |-> "none"]
  /\ consumer' = [w \in 1..n |-> "none"]
  /\ errFile' = [w \in 1..n |-> "absent"]
  /\ notStarted' = [i \in 1..n |-> i]
  /\ UNCHANGED <<running, notFinished, finished, done, polled, result, failed>>
-----------------------------------------------------------------------------
(* Work.Start and the lists of DoRunWork.                                  *)

MayStart == Len(running) < nrJobs /\ notStarted # <<>>

\* The job is in running before Start is called.
StartFrom(newProducer, newConsumer, next) ==
  /\ pc = "loop"
  /\ Len(done) < nrWork
  /\ MayStart
  /\ LET w == Head(notStarted) IN
       /\ notStarted' = Tail(notStarted)
       /\ running' = Append(running, w)
       /\ producer' = [producer EXCEPT ![w] = newProducer]
       /\ consumer' = [consumer EXCEPT ![w] = newConsumer]
       /\ errFile' = [errFile EXCEPT ![w] = "empty"]
  /\ pc' = next
  /\ UNCHANGED <<fixed, notFinished, finished, done, polled, result, failed>>

StartJob == StartFrom("alive", IF pipeTo THEN "alive" ELSE "none", "loop")

\* Popen raises: for the producer, or for the consumer of one that runs.
StartRaises ==
  /\ StartFaults
  /\ \/ StartFrom("none", "none", "except")
     \/ pipeTo /\ StartFrom("alive", "none", "except")

\* time.sleep(0.1), and on to the polls
BeginPolls ==
  /\ pc = "loop"
  /\ Len(done) < nrWork
  /\ ~MayStart
  /\ pc' = "poll"
  /\ notFinished' = <<>> /\ finished' = <<>>
  /\ UNCHANGED <<fixed, procVars, notStarted, running, done, polled, result,
                 failed>>

\* Poll reads the state of the producer first.
PollProducer ==
  /\ pc = "poll" /\ running # <<>>
  /\ polled' = producer[Head(running)]
  /\ pc' = "poll2"
  /\ UNCHANGED <<fixed, procVars, lists, result, failed>>

\* Then that of the consumer, and what the job's result is: "none" while it
\* runs, otherwise the state of the process that decides it.
JobResult(seen, own) ==
  IF own = "none" THEN IF AliveProc(seen) THEN "none" ELSE seen
  ELSE IF AliveProc(own) THEN "none"
  ELSE IF AliveProc(seen) THEN "none"
  ELSE IF own = "ok" THEN seen ELSE own

\* A producer that outlives its consumer is killed.  A process that has ended
\* meanwhile is not signalled any more.
ProducerAfterPoll_LeftAlone(w) == producer
ProducerAfterPoll(w) ==
  IF AliveProc(polled) /\ consumer[w] \in Dead /\ producer[w] = "alive"
  THEN [producer EXCEPT ![w] = "dying"] ELSE producer

ErrAfterPoll(w, r) ==
  IF r # "none" /\ errFile[w] = "empty" THEN [errFile EXCEPT ![w] = "removed"]
  ELSE errFile

FailNow_ForgetsRest(w, rest) ==
  /\ pc' = "kill"
  /\ running' = <<>>
  /\ failed' = w
FailNow(w, rest) ==
  /\ pc' = "kill"
  /\ running' = rest
  /\ failed' = w

PollJob ==
  /\ pc = "poll2"
  /\ LET w == Head(running)
         r == JobResult(polled, consumer[w])
     IN  /\ producer' = ProducerAfterPoll(w)
         /\ errFile' = ErrAfterPoll(w, r)
         /\ \/ /\ r = "none"
               /\ notFinished' = Append(notFinished, w)
               /\ running' = Tail(running) /\ pc' = "poll"
               /\ UNCHANGED <<finished, failed>>
            \/ /\ r = "ok"
               /\ finished' = Append(finished, w)
               /\ running' = Tail(running) /\ pc' = "poll"
               /\ UNCHANGED <<notFinished, failed>>
            \/ /\ r \in {"fail", "killed"}
               /\ FailNow(w, Tail(running))
               /\ UNCHANGED <<notFinished, finished>>
  /\ polled' = "none"
  /\ UNCHANGED <<fixed, consumer, notStarted, done, result>>

EndPolls ==
  /\ pc = "poll" /\ running = <<>>
  /\ running' = notFinished
  /\ done' = done \o finished
  /\ pc' = "loop"
  /\ UNCHANGED <<fixed, procVars, notStarted, notFinished, finished, polled,
                 result, failed>>

\* All done; the names of non-empty err.txt files are printed.
AllDone ==
  /\ pc = "loop"
  /\ Len(done) = nrWork
  /\ pc' = "end" /\ result' = "true"
  /\ UNCHANGED <<fixed, procVars, lists, polled, failed>>
-----------------------------------------------------------------------------
(* KillWork, for notFinished and then for running; RunWork's except.       *)

KillAll(ws) ==
  /\ producer' = [w \in Work |->
       IF w \in ws /\ producer[w] = "alive" THEN "dying" ELSE producer[w]]
  /\ consumer' = [w \in Work |->
       IF w \in ws /\ consumer[w] = "alive" THEN "dying" ELSE consumer[w]]

KillNotFinished ==
  /\ pc = "kill"
  /\ KillAll(Range(notFinished))
  /\ pc' = "reap"
  /\ UNCHANGED <<fixed, errFile, lists, polled, result, failed>>

\* Wait waits for the producer and then for the consumer, and tidies up.
Reap(at, w) ==
  /\ pc = at
  /\ Gone(w)
  /\ errFile' = ErrAfterPoll(w, "killed")

ReapNotFinished ==
  /\ notFinished # <<>> /\ Reap("reap", Head(notFinished))
  /\ notFinished' = Tail(notFinished)
  /\ UNCHANGED <<fixed, producer, consumer, pc, notStarted, running, finished,
                 done, polled, result, failed>>

KillRunning ==
  /\ pc = "reap" /\ notFinished = <<>>
  /\ KillAll(Range(running))
  /\ pc' = "reap2"
  /\ UNCHANGED <<fixed, errFile, lists, polled, result, failed>>

ReapRunning ==
  /\ running # <<>> /\ Reap("reap2", Head(running))
  /\ running' = Tail(running)
  /\ UNCHANGED <<fixed, producer, consumer, pc, notStarted, notFinished,
                 finished, done, polled, result, failed>>

ReturnFalse ==
  /\ pc = "reap2" /\ running = <<>>
  /\ pc' = "end" /\ result' = "false"
  /\ UNCHANGED <<fixed, procVars, lists, polled, failed>>

\* Ctrl-C, between two statements
Interrupt ==
  /\ Interrupts
  /\ pc \notin {"idle", "except", "end"}
  /\ pc' = "except"
  /\ UNCHANGED <<fixed, procVars, lists, polled, result, failed>>

\* Everything is killed, nothing is waited for, and the exception goes on.
KillAndRaise ==
  /\ pc = "except"
  /\ KillAll(Work)
  /\ pc' = "end" /\ result' = "raised"
  /\ UNCHANGED <<fixed, errFile, lists, polled, failed>>
-----------------------------------------------------------------------------
(* The processes.                                                          *)

ProducerExits(w) ==
  /\ producer[w] = "alive"
  /\ \E rc \in {"ok", "fail"} : producer' = [producer EXCEPT ![w] = rc]
  /\ UNCHANGED <<fixed, consumer, errFile, pc, lists, polled, result, failed>>

ConsumerExits(w) ==
  /\ consumer[w] = "alive"
  /\ \E rc \in {"ok", "fail"} : consumer' = [consumer EXCEPT ![w] = rc]
  /\ UNCHANGED <<fixed, producer, errFile, pc, lists, polled, result, failed>>

Die(w) ==
  /\ \/ /\ producer[w] = "dying"
        /\ producer' = [producer EXCEPT ![w] = "killed"] /\ UNCHANGED consumer
     \/ /\ consumer[w] = "dying"
        /\ consumer' = [consumer EXCEPT ![w] = "killed"] /\ UNCHANGED producer
  /\ UNCHANGED <<fixed, errFile, pc, lists, polled, result, failed>>

\* Written after the file is removed, the message is lost.
WriteErr(w) ==
  /\ "alive" \in {producer[w], consumer[w]}
  /\ errFile' = [errFile EXCEPT ![w] = IF @ = "empty" THEN "text"
                                       ELSE IF @ = "removed" THEN "lost" ELSE @]
  /\ errFile' # errFile
  /\ UNCHANGED <<fixed, producer, consumer, pc, lists, polled, result, failed>>
-----------------------------------------------------------------------------
MainStep ==
  \/ StartJob \/ BeginPolls \/ PollProducer \/ PollJob \/ EndPolls \/ AllDone
  \/ KillNotFinished \/ ReapNotFinished \/ KillRunning \/ ReapRunning
  \/ ReturnFalse \/ KillAndRaise

Process(w) == ProducerExits(w) \/ ConsumerExits(w) \/ Die(w) \/ WriteErr(w)

JobsNext ==
  \/ MainStep \/ StartRaises \/ Interrupt
  \/ \E w \in Work : Process(w)

\* A perf command ends unless nobody reads what it writes, a consumer ends
\* once its input does, and a killed process dies.
ProducerEnds(w) == ProducerExits(w) /\ consumer[w] \in {"none", "alive"}
ConsumerEnds(w) == ConsumerExits(w) /\ producer[w] \in Dead
-----------------------------------------------------------------------------
\* The variables have their types; while jobs are polled each one is in
\* exactly one of the lists.
JobsTypeOK ==
  /\ producer \in [Work -> ProcStates] /\ consumer \in [Work -> ProcStates]
  /\ errFile \in [Work -> {"absent", "empty", "text", "removed", "lost"}]
  /\ polled \in ProcStates
  /\ result \in {"none", "true", "false", "raised"}
  /\ failed \in 0..nrWork
  /\ \A l \in {notStarted, running, notFinished, finished, done} :
       l \in Seq(Work) /\ IsInjective(l)
  /\ pc = "poll" =>
       LET all == notStarted \o running \o notFinished \o finished \o done
       IN  Len(all) = nrWork /\ IsInjective(all)

\* The option --jobs: at no time do more than nrJobs jobs have a process (line
\* 951), the ones that are being killed included.
AtMostJobs == Cardinality({w \in Work : Started(w) /\ ~Gone(w)}) <= nrJobs

\* "All jobs finished successfully" (line 250) is printed only when every job
\* was run and both its processes ended with 0.
SuccessIsReal ==
  result = "true" =>
    \A w \in Work : producer[w] = "ok" /\ consumer[w] \in {"ok", "none"}

\* A run is called a failure (line 233) only for a process that failed by
\* itself, or for a consumer that left before its producer was done.
FailureHasCause ==
  failed # 0 =>
    \/ producer[failed] = "fail" \/ consumer[failed] = "fail"
    \/ producer[failed] = "killed" /\ consumer[failed] = "ok"

\* When the run has ended by itself no process of it is left, and when it was
\* interrupted every process has been killed (lines 237-238 and 257-258).
NothingLeftRunning ==
  /\ result \in {"true", "false"} => \A w \in Work : Started(w) => Gone(w)
  /\ result = "raised" =>
       \A w \in Work : producer[w] # "alive" /\ consumer[w] # "alive"

\* "After processing, err.txt files are removed if they are empty" (lines
\* 891-892), and no message is lost with one.
ErrFilesKept ==
  /\ \A w \in Work : errFile[w] # "lost"
  /\ result \in {"true", "false"} => \A w \in Work : errFile[w] # "empty"
=============================================================================
