----------------------------- MODULE FrameworkFiles ----------------------------
(***************************************************************************)
(* The names of the files that a user model reads and writes from each of  *)
(* its sections (FrameworkBase, ParticleFilterModel).  A file is named by  *)
(* its time step, by "map" for a name with suffix .map, or it has no name, *)
(* which leaves the path of the directory.                                 *)
(***************************************************************************)
EXTENDS Naturals

Map    == "map"
NoName == "none"

\* FrameworkBase._reportNew.
ReportName(section, currentStep) ==
  CASE section \in {"premcloop", "postmcloop", "initial"} -> Map
    [] section \in {"dynamic", "updateWeight"} -> currentStep
    [] OTHER -> NoName

\* FrameworkBase._readmapNew.
ReadName(section, currentStep, firstStep) ==
  CASE section = "resume" -> firstStep - 1
    [] OTHER -> ReportName(section, currentStep)

\* ParticleFilterModel.reportState and readState, for names without extension.
ReportStateName(currentStep) == currentStep

\* The state of the time step before the first.
ReadStateName(firstStep) == firstStep - 1
================================================================================
