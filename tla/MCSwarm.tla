-------------------------------- MODULE MCSwarm --------------------------------
(***************************************************************************)
(* The three parts of the swarm for TLC.  They share no state, so that an  *)
(* interleaving of two shows nothing that each does not show alone: a      *)
(* behaviour is one of Octopus, of RepairSearch or of SwarmPipeline, with  *)
(* the others in their initial states.                                     *)
(***************************************************************************)
EXTENDS Octopus, RepairSearch, SwarmPipeline

\* Four tries of the first model, three at once; two of the second, one at a time.
MCTries == <<4, 2>>
MCAtOnce == <<3, 1>>

\* The stages that decide.
MCRoute == <<"Coder", "SecurityGuard", "QALead">>

VARIABLE part   \* the part that the behaviour is of

swarmVars == <<part, octopusVars, searchVars, pipelineVars>>

SwarmInit ==
  /\ part \in {"missions", "search", "pipeline"}
  /\ OctopusInit /\ SearchInit /\ PipelineInit

MissionsGoOn ==
  /\ part = "missions" /\ OctopusNext
  /\ UNCHANGED <<part, searchVars, pipelineVars>>

SearchGoesOn ==
  /\ part = "search" /\ SearchNext
  /\ UNCHANGED <<part, octopusVars, pipelineVars>>

PipelineGoesOn ==
  /\ part = "pipeline" /\ PipelineNext
  /\ UNCHANGED <<part, octopusVars, searchVars>>

SwarmNext == MissionsGoOn \/ SearchGoesOn \/ PipelineGoesOn

\* An id is executed again only when the call before is over: where two overlap, the
\* second does what one that resumes an unfinished execution does.
Bounded == reused => apart

\* The fairness of OctopusSpec.
SwarmSpec ==
  /\ SwarmInit /\ [][SwarmNext]_swarmVars
  /\ \A m \in Missions : WF_octopusVars(part = "missions" /\ MissionStep(m))
================================================================================
