---------------------------- MODULE FilterContext ----------------------------
(***************************************************************************)
(* The calls of one context, as test.cpp makes them: filters are chosen,   *)
(* maybe by both functions in turn, and the space is filtered with them,   *)
(* and unfiltered.  FilterChooser and VoxelFilter are two views of one     *)
(* context: `filters` and `lineFilters` are the same array, ctx::filters,  *)
(* and the space holds `image` when filters are chosen.                    *)
(***************************************************************************)
EXTENDS VoxelFilter, FilterChooser

contextVars == <<filterVars, vars>>

ContextInit == FilterInit /\ Init /\ filters = lineFilters

(* A call to choose filters.  It is made while the data is not filtered:   *)
(* what was filtered can only be unfiltered with the same filters.         *)
Choose(m) ==
  /\ Call(m)
  /\ pc = "idle" /\ level = 0 /\ data = image
  /\ hist' = [k \in {0} |-> data] /\ cur' = First
  /\ UNCHANGED <<data, lineFilters, pc, level>>


ChooseStep ==
  /\ StartLine \/ AddVoxel \/ AddByte \/ Compare \/ Assign
  /\ lineFilters' = filters'
  /\ UNCHANGED <<data, pc, cur, level, hist>>

(* FilterSpace and UnfilterSpace.                                          *)
WalkStep == phase = "idle" /\ FilterNext /\ UNCHANGED vars

ContextNext ==
  \/ \E m \in Methods : Choose(m)
  \/ ChooseStep
  \/ WalkStep

(* Each function is one sequential loop nest: once called, it goes on.     *)
ContextFairness == WF_filterVars(FilterStep) /\ WF_filterVars(UnfilterStep)

ContextSpec == ContextInit /\ [][ContextNext]_contextVars /\ ContextFairness

-----------------------------------------------------------------------------
==============================================================================
