----------------------------- MODULE MCCollector ------------------------------
(* Small instances of Mapper and CollectorOutput for TLC.  They share no     *)
(* state: a behaviour exercises one of them while the other stays in its     *)
(* initial state.  The fairness is that of MapperSpec and OutputSpec.        *)
EXTENDS Mapper, CollectorOutput, TLC

CONSTANTS i1, i2, u1, u2

VARIABLE component   \* the one this behaviour exercises

allVars == <<component, mapperVars, outputVars>>

InMapper(action) == component = "mapper" /\ action /\ UNCHANGED <<component, outputVars>>
InOutput(action) == component = "output" /\ action /\ UNCHANGED <<component, mapperVars>>

CollectorInit == MapperInit /\ OutputInit /\ component \in {"mapper", "output"}
CollectorNext == InMapper(MapperNext) \/ InOutput(OutputNext)

CollectorSpec ==
    /\ CollectorInit /\ [][CollectorNext]_allVars
    /\ WF_allVars(InMapper(Collector)) /\ WF_allVars(InMapper(Expire))
    /\ WF_allVars(InOutput(EmitStep))
=============================================================================
