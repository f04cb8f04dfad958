--------------------------- MODULE AgentLifecycle ---------------------------
(***************************************************************************)
(* Start and stop of the scanner agent (main.rs): the order in which main  *)
(* spawns its tasks, the three outcomes of loading eBPF, the two execution *)
(* modes, and what a signal does. What the tasks do with events is module  *)
(* EventPipeline; here a task is running, or how it ended matters.         *)
(*                                                                         *)
(* main creates TWO shutdown channels. The consumer subscribes to the      *)
(* first, the analysis task to the second, and by the time main sends,     *)
(* the name shutdown_tx means the second. Nobody writes the first, so the  *)
(* model has a variable for the second only, and no step in which the      *)
(* consumer sees a request to stop.                                        *)
(***************************************************************************)
EXTENDS Naturals

VARIABLES
  main,      (* where main is, see Steps                                     *)
  cli,       (* the command line: [mode, once]                               *)
  task,      (* what became of each spawned task                             *)
  told,      (* the value in the second shutdown channel                     *)
  inRound,   (* the analysis task is in the middle of a round                *)
  attached   (* the eBPF programs are attached                               *)

vars == <<main, cli, task, told, inRound, attached>>

Tasks == {"server", "intel", "engine", "consumer", "analysis"}

(* Endings: a task that returned, that panicked, or that was dropped at an  *)
(* await by abort or by the end of the runtime.                             *)
Endings == {"finished", "panicked", "cancelled"}

Steps == {"start", "intel", "k8s", "engine", "bpf", "attach", "degraded",
          "pipeline", "spawned", "wait", "signalled", "analysis", "consumer", "cleanup",
          "done", "failed", "killed"}

Ended == {"done", "failed", "killed"}

Running(t) == task[t] = "running"

Become(t, what) == task' = [task EXCEPT ![t] = what]

(* The end of the runtime drops every task that still runs.                 *)
CancelAll ==
  task' = [t \in Tasks |-> IF Running(t) THEN "cancelled" ELSE task[t]]

Go(from, to) == main = from /\ main' = to
-----------------------------------------------------------------------------
Init ==
  /\ main = "start"
  /\ cli \in [mode : {"batch", "stream"}, once : BOOLEAN]
  /\ task = [t \in Tasks |-> "none"]
  /\ told = FALSE
  /\ inRound = FALSE
  /\ attached = FALSE
-----------------------------------------------------------------------------
(* main, from top to bottom.                                                *)
StartServer ==
  /\ Go("start", "intel")
  /\ Become("server", "running")
  /\ UNCHANGED <<cli, told, inRound, attached>>

(* The first refresh is awaited, its error only logged; --once leaves out   *)
(* the refresh loop.                                                        *)
StartIntel ==
  /\ Go("intel", "k8s")
  /\ IF cli.once THEN UNCHANGED task ELSE Become("intel", "running")
  /\ UNCHANGED <<cli, told, inRound, attached>>

(* Without a kubernetes client main goes on; with one, a failing first      *)
(* refresh of the pod cache is main's own error.                            *)
FillPodCache ==
  /\ Go("k8s", "engine")
  /\ UNCHANGED <<cli, task, told, inRound, attached>>

PodCacheFails ==
  /\ Go("k8s", "failed")
  /\ CancelAll
  /\ UNCHANGED <<cli, told, inRound, attached>>

StartEngine ==
  /\ Go("engine", "bpf")
  /\ Become("engine", "running")
  /\ UNCHANGED <<cli, told, inRound, attached>>

(* load_and_run_ebpf. Built without the feature it only says so.            *)
NoEbpf ==
  /\ Go("bpf", "pipeline")
  /\ UNCHANGED <<cli, task, told, inRound, attached>>

(* With it, programs are attached one after the other.                      *)
Attach ==
  /\ Go("bpf", "attach")
  /\ attached' = TRUE
  /\ UNCHANGED <<cli, task, told, inRound>>

(* The loader is a local of load_and_run_ebpf: when the function returns,   *)
(* with the consumer spawned or with an error, it is dropped, and dropping  *)
(* an aya Ebpf detaches its programs.                                       *)
StartConsumer ==
  /\ Go("attach", "pipeline")
  /\ Become("consumer", "running")
  /\ attached' = FALSE
  /\ UNCHANGED <<cli, told, inRound>>

EbpfFails ==
  /\ main \in {"bpf", "attach"}
  /\ main' = "degraded"
  /\ attached' = FALSE
  /\ UNCHANGED <<cli, task, told, inRound>>

Degraded ==
  /\ Go("degraded", "pipeline")
  /\ UNCHANGED <<cli, task, told, inRound, attached>>

DegradedFails ==
  /\ Go("degraded", "failed")
  /\ CancelAll
  /\ UNCHANGED <<cli, told, inRound, attached>>

(* Batch mode spawns run_analysis_pipeline, whose first tick is immediate;  *)
(* stream mode spawns a task that awaits the streaming engine.              *)
StartAnalysis ==
  /\ Go("pipeline", "spawned")
  /\ Become("analysis", "running")
  /\ UNCHANGED <<cli, told, inRound, attached>>

(* wait_for_shutdown is polled for the first time. Meanwhile another thread *)
(* of the runtime may have begun a round.                                   *)
InstallHandlers ==
  /\ Go("spawned", "wait")
  /\ UNCHANGED <<cli, task, told, inRound, attached>>

(* Until the handlers are installed a signal kills the process; from then   *)
(* on the first is waited for and a further one is swallowed.               *)
EarlySignal ==
  /\ main \notin Ended \cup {"wait", "signalled", "analysis", "consumer", "cleanup"}
  /\ main' = "killed"
  /\ CancelAll
  /\ attached' = FALSE
  /\ UNCHANGED <<cli, told, inRound>>

Signal ==
  /\ Go("wait", "signalled")
  /\ UNCHANGED <<cli, task, told, inRound, attached>>

(* Faulty: the value goes to the first channel. *)
TellFirstChannel ==
  /\ Go("signalled", "analysis")
  /\ UNCHANGED <<cli, task, told, inRound, attached>>

TellAnalysis ==
  /\ Go("signalled", "analysis")
  /\ told' = TRUE
  /\ UNCHANGED <<cli, task, inRound, attached>>

AwaitAnalysis ==
  /\ Go("analysis", "consumer")
  /\ ~Running("analysis")
  /\ UNCHANGED <<cli, task, told, inRound, attached>>

AwaitConsumer ==
  /\ Go("consumer", "cleanup")
  /\ ~Running("consumer")
  /\ UNCHANGED <<cli, task, told, inRound, attached>>

(* The two aborts, and the return of main, which ends the runtime.          *)
Cleanup ==
  /\ Go("cleanup", "done")
  /\ CancelAll
  /\ UNCHANGED <<cli, told, inRound, attached>>

Main ==
  \/ StartServer \/ StartIntel \/ FillPodCache \/ PodCacheFails \/ StartEngine
  \/ NoEbpf \/ Attach \/ StartConsumer \/ EbpfFails \/ Degraded \/ DegradedFails
  \/ StartAnalysis \/ InstallHandlers \/ TellAnalysis \/ AwaitAnalysis
  \/ AwaitConsumer \/ Cleanup
-----------------------------------------------------------------------------
(* The tasks.                                                               *)

(* The metrics server returns when it cannot bind its address.              *)
ServerEnds ==
  /\ Running("server")
  /\ Become("server", "finished")
  /\ UNCHANGED <<main, cli, told, inRound, attached>>

(* A panic ends a task and nothing else. For the engine, to which nobody    *)
(* sends StreamEvent::Shutdown and which holds a sender of its own bus, and *)
(* for the consumer, whose channel nobody writes, it is the only end but    *)
(* that of the runtime.                                                     *)
Panics(t) ==
  /\ Running(t)
  /\ Become(t, "panicked")
  /\ inRound' = IF t = "analysis" THEN FALSE ELSE inRound
  /\ UNCHANGED <<main, cli, told, attached>>

(* Batch mode: select! over the channel and the ticker, then a round.       *)
BeginRound ==
  /\ Running("analysis")
  /\ cli.mode = "batch"
  /\ ~inRound
  /\ inRound' = TRUE
  /\ UNCHANGED <<main, cli, task, told, attached>>

EndRound ==
  /\ inRound
  /\ Running("analysis")
  /\ inRound' = FALSE
  /\ UNCHANGED <<main, cli, task, told, attached>>

(* Faulty: the channel is looked at in the middle of a round. *)
AnalysisStopsAnywhere ==
  /\ Running("analysis")
  /\ cli.mode = "batch"
  /\ told
  /\ Become("analysis", "finished")
  /\ UNCHANGED <<main, cli, told, inRound, attached>>

AnalysisStops ==
  /\ Running("analysis")
  /\ cli.mode = "batch"
  /\ ~inRound
  /\ told
  /\ Become("analysis", "finished")
  /\ UNCHANGED <<main, cli, told, inRound, attached>>

(* Stream mode: let _ = streaming_handle.await.                             *)
ForwarderEnds ==
  /\ Running("analysis")
  /\ cli.mode = "stream"
  /\ ~Running("engine")
  /\ Become("analysis", "finished")
  /\ UNCHANGED <<main, cli, told, inRound, attached>>

Next ==
  \/ Main
  \/ EarlySignal
  \/ Signal
  \/ ServerEnds
  \/ \E t \in {"engine", "consumer", "analysis"} : Panics(t)
  \/ BeginRound
  \/ EndRound
  \/ AnalysisStops
  \/ ForwarderEnds

(* main and its tasks are polled; a round ends (scan, export and remediate  *)
(* have timeouts or fail); select! picks among ready branches at random, so *)
(* a shutdown that stays ready is picked. Signals need not come.            *)
Fairness ==
  /\ WF_vars(Main)
  /\ WF_vars(EndRound)
  /\ WF_vars(ForwarderEnds)
  /\ SF_vars(AnalysisStops)

Spec == Init /\ [][Next]_vars /\ Fairness
-----------------------------------------------------------------------------
(* Properties                                                              *)

(* The state is well formed, and the channel holds true only after main has *)
(* seen a signal.                                                           *)
TypeOK ==
  /\ main \in Steps
  /\ cli \in [mode : {"batch", "stream"}, once : BOOLEAN]
  /\ task \in [Tasks -> {"none", "running"} \cup Endings]
  /\ told \in BOOLEAN
  /\ told => main \in {"analysis", "consumer", "cleanup", "done"}
  /\ inRound \in BOOLEAN
  /\ attached \in BOOLEAN

(* A round of the analysis (scan, export, remediate, clear the store) is    *)
(* never cut short by a shutdown: the task ends between rounds. What can    *)
(* cut one is a signal that finds no handler yet, for the first round may   *)
(* have begun before main waits for signals; it kills the process.          *)
RoundsAreWhole == inRound => Running("analysis") \/ main = "killed"

(* When main returns after a signal, the consumer and the analysis task     *)
(* have come to their own end: nothing they held was dropped at an await.   *)
NothingCutShort ==
  main = "done" => /\ task["consumer"] # "cancelled"
                   /\ task["analysis"] # "cancelled"

(* Once main waits for signals no shutdown loses work in hand, neither a     *)
(* round nor what a task held when main returned: main.rs lets a round end   *)
(* and awaits its tasks.                                                     *)
ShutdownKeepsWork == RoundsAreWhole /\ NothingCutShort

(* The health endpoint answers until the agent has drained: main takes the  *)
(* server down only when neither consumer nor analysis runs any more.       *)
ServedUntilDrained ==
  [][Running("server") /\ task'["server"] = "cancelled" /\ main' = "done"
       => ~Running("consumer") /\ ~Running("analysis")]_vars

(* A signal ends an agent in batch mode that has no consumer to wait for    *)
(* (no eBPF, or eBPF failed and the degraded pipeline ran instead).         *)
BatchShutdownCompletes ==
  main = "signalled" /\ cli.mode = "batch" /\ task["consumer"] = "none"
    ~> main = "done"

(* "Shared shutdown channel for graceful pipeline termination", and "it     *)
(* runs until shutdown" of the stream: a signal would end the agent.        *)
ShutdownCompletes == main = "signalled" ~> main = "done"
=============================================================================
