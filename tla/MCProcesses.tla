---------------------------- MODULE MCProcesses ----------------------------
(***************************************************************************)
(* The parts that run native processes: alignment, the session with the    *)
(* analysis sidecar, Acquisition Jobs and the conversation with their      *)
(* extractor.  `which' says which part moves: each is checked for itself,  *)
(* from its own initial state.  Alignment and acquisition share the        *)
(* variables of the gate, as they share the gate in the application.       *)
(***************************************************************************)
EXTENDS Alignment, SidecarSession, Acquisition, AcquisitionSession

VARIABLE which

ASSUME AlignmentAssumption /\ OtherWork = {Other}
ASSUME SidecarAssumption
ASSUME AcquisitionAssumption
ASSUME SessionAssumption

alignVars == <<jobVars, serviceVars, workerVars, boundVars, results>>
acquireVars == <<app, diskVars, jobs, poisoned, acqClosed, startVars, runVars, acqBounds>>
mcVars == <<which, cpuVars, alignVars, sidecarVars, acquireVars, acqSessionVars>>

MCInit ==
    /\ which \in {"alignment", "sidecar", "acquisition", "extractor"}
    /\ Init /\ SidecarInit /\ AcqInit /\ AcqSessionInit
    /\ offline => which = "acquisition"

Aligns ==
    /\ which = "alignment" /\ Next
    /\ UNCHANGED <<sidecarVars, acquireVars, acqSessionVars>>
TalksToSidecar ==
    /\ which = "sidecar" /\ SidecarNext
    /\ UNCHANGED <<cpuVars, alignVars, acquireVars, acqSessionVars>>
Acquires ==
    /\ which = "acquisition" /\ AcqNext
    /\ UNCHANGED <<alignVars, sidecarVars, acqSessionVars>>
TalksToExtractor ==
    /\ which = "extractor" /\ AcqSessionNext
    /\ UNCHANGED <<cpuVars, alignVars, sidecarVars, acquireVars>>

MCNext ==
    /\ UNCHANGED which
    /\ Aligns \/ TalksToSidecar \/ Acquires \/ TalksToExtractor

\* The fairness of the part that moves, if it is one whose ends are checked.
MCFairness ==
    /\ WF_vars(which = "alignment" /\ Served)
    /\ \A k \in Recipes : SF_vars(which = "alignment" /\ Run(k))
    /\ SF_vars(which = "alignment" /\ OtherEnds(Other))
    /\ WF_sidecarVars(which = "sidecar" /\ Host)

MCSpec == MCInit /\ [][MCNext]_mcVars /\ MCFairness

-----------------------------------------------------------------------------
MCTypeOK ==
    /\ which = "alignment" => TypeOK
    /\ which = "acquisition" => AcqTypeOK
    /\ which = "sidecar" => SidecarTypeOK
    /\ which = "extractor" => AcqSessionTypeOK

\* Every alignment run and every sidecar session ends, whatever is cancelled,
\* slept through or never answered.
Busy == running # NoRecipe \/ entered
RunsEnd == Busy ~> ~Busy
=============================================================================
