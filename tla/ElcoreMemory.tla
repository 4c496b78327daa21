------------------------------ MODULE ElcoreMemory ------------------------------
(* The driver of Elcore with the memory of its cores laid out as DspMemory     *)
(* says: the parts that jobs hold, in bytes.                                   *)
EXTENDS Elcore, DspMemory

ASSUME DivisionAssumption == \A c \in Cores : JobsMax[c] \in Divisions

CodeOf(j, g) == Code(JobsMax[coreOf[j]], part[j], g)
DataOf(j, g) == Data(JobsMax[coreOf[j]], part[j], g)

\* The jobs in the memory of core c, and what each of them may have brought.
Loaded(c) == {j \in known : coreOf[j] = c /\ part[j] # 0}
Fitting(c) == {g \in Programs : Fits(JobsMax[c], g)}

\* Two jobs in the memory of one core never have a byte in common, neither code
\* with code, nor data with data, nor the code of one with the data of the other,
\* and no job reaches the stack: elcore_dmasend would go on from the program
\* memory into the data memory without complaint, and nothing checks the end of
\* the last part.
BytesExclusive ==
    \A c \in Cores : \A j, k \in Loaded(c), g, h \in Fitting(c) :
        /\ CodeOf(j, g) \subseteq Pram
        /\ CodeOf(j, g) \cap DataOf(k, h) = {}
        /\ DataOf(j, g) \cap Stack = {}
        /\ j # k => /\ CodeOf(j, g) \cap CodeOf(k, h) = {}
                    /\ DataOf(j, g) \cap DataOf(k, h) = {}
=================================================================================
