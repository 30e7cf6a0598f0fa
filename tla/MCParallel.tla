------------------------------ MODULE MCParallel ------------------------------
(***************************************************************************)
(* Parallel work for TLC: the loop that gathers the results of transfers,  *)
(* the dispatch of kernels, and reductions in layers.  A behaviour is      *)
(* about one of them; the others stay in an initial state.                 *)
(***************************************************************************)
EXTENDS ResultLoop, ParallelReduce, KernelRun

VARIABLE used

\* Boxes below, at and above what a block, a layer of blocks and the loop
\* without OpenMP hold, on a device of four blocks of two threads in two
\* layers; the empty box.
TwoLayers == <<2, 1, 2>>
SomeBoxes == {<<0>>, <<1>>, <<3>>, <<4>>, <<5>>, <<7>>, <<9>>,
              <<2, 2>>, <<2, 3>>, <<1, 3>>, <<2, 1, 2>>, <<3, 1, 1>>}

ASSUME DeviceAssumption /\ TeamsAssumption /\ SensibleBoxes
ASSUME WordAssumption /\ SensibleCalls

everything == <<vars, used, kernelVars, loopVars>>

InitParallel ==
  /\ used \in {"loop", "kernel", "reduction"}
  /\ InitLoop /\ InitKernel /\ Init
  /\ used # "loop" => n = 0
  /\ used # "kernel" => setup = [build |-> "host", device |-> FALSE, unified |-> FALSE]

LoopStep(step)   == used = "loop" /\ step /\ UNCHANGED <<used, kernelVars, vars>>
KernelStep(step) == used = "kernel" /\ step /\ UNCHANGED <<used, loopVars, vars>>
ReduceStep(step) == used = "reduction" /\ step /\ UNCHANGED <<used, loopVars, kernelVars>>

NextParallel == LoopStep(NextLoop) \/ KernelStep(NextKernel) \/ ReduceStep(Next)

\* The threads of a team, the host and the device go on.
SpecParallel ==
  /\ InitParallel /\ [][NextParallel]_everything
  /\ \A t \in Threads : WF_everything(LoopStep(Thread(t)))
  /\ WF_everything(KernelStep(LaunchKernel))
  /\ WF_everything(KernelStep(Finalize))
  /\ WF_everything(KernelStep(\E l \in lanes : RunIndex(l)))
  /\ WF_everything(ReduceStep(Host))
  /\ WF_everything(ReduceStep(Stream))
-----------------------------------------------------------------------------
\* The loop over the elements, every dispatch and every reduction ends.
CallsEnd == (used = "loop" => Ends) /\ CallsComplete /\ Returns
=============================================================================
