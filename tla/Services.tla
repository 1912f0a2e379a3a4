-------------------------------- MODULE Services --------------------------------
(***************************************************************************)
(* The services of ServerServices, and beside them two pure algorithms: the  *)
(* runner of the pipeline's phases and the resolution of inherited methods.  *)
(* They share no state, so a behaviour follows one of them, chosen by its    *)
(* initial state.                                                            *)
(***************************************************************************)
EXTENDS ServerServices, PhaseRunner, MethodResolution

servicesVars == <<serverVars, phaseVars, mroVars>>

NoPhases ==
  /\ list = <<>> /\ degree = <<>> /\ queue = <<>> /\ sorted = <<>> /\ at = "done"
  /\ ran = 0 /\ remaining = <<>> /\ cleared = {} /\ cycle = <<>>
  /\ search = [stack |-> <<>>, visited |-> {}, tried |-> {}]

NoClasses ==
  /\ strategy = "bfs" /\ parents = [c \in Class |-> <<>>] /\ MroIdle

ServicesInit ==
  \/ ServerInit /\ NoPhases /\ NoClasses
  \/ service = "phases" /\ AllIdle /\ RunnerInit /\ NoClasses
  \/ service = "methods" /\ AllIdle /\ NoPhases /\ MroInit

PhaseStep ==
  /\ service = "phases" /\ RunnerNext
  /\ UNCHANGED <<serverVars, mroVars>>

MethodStep ==
  /\ service = "methods" /\ MroNext
  /\ UNCHANGED <<serverVars, phaseVars>>

ServicesNext ==
  \/ ServerNext /\ UNCHANGED <<phaseVars, mroVars>>
  \/ PhaseStep \/ MethodStep

ServicesSpec == ServicesInit /\ [][ServicesNext]_servicesVars

-----------------------------------------------------------------------------
(* Properties *)

\* The variables of every service keep their types.
ServicesTypeOK == ServerTypeOK /\ RunnerTypeOK /\ MroTypeOK
=============================================================================
