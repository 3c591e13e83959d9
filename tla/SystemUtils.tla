----------------------------- MODULE SystemUtils -----------------------------
(***************************************************************************)
(* The core masks of SystemUtils.cpp of PcapPlusPlus, which say on which   *)
(* processors its threads may run: a word of which bit i is core i, and    *)
(* back.  A word is the set of the positions of its 1 bits, so that | is   *)
(* the union.  MaxCores is MAX_NUM_OF_CORES and the width of a CoreMask,   *)
(* 32 both.                                                                *)
(***************************************************************************)
EXTENDS Integers, Sequences, SequencesExt

CONSTANTS
    MaxCores,
    MaxVector        \* bound: cores in a vector

ASSUME CoresAssumption == MaxCores \in Nat \ {0} /\ MaxVector \in Nat

VARIABLE cores       \* a vector of cores an application puts together

CoreIds == 0..MaxCores - 1

\* SystemCores::IdToSystemCore, a core by its number.
IdToSystemCore == [i \in CoreIds |-> [Mask |-> {i}, Id |-> i]]

AllCores == {IdToSystemCore[i] : i \in CoreIds}

\* result = 0, and then result |= mask for each of the masks.
Or(masks) == FoldLeft(LAMBDA result, mask : result \union mask, {}, masks)

\* On a machine with n cores.
GetCoreMaskForAllMachineCores(n) ==
    Or([i \in 1..(IF n < MaxCores THEN n ELSE MaxCores) |-> IdToSystemCore[i - 1].Mask])

\* Faulty variant of CreateCoreMaskFromCoreVector: = in place of |=.
CreateCoreMaskOfLast(vector) ==
    FoldLeft(LAMBDA result, c : c.Mask, {}, vector)

CreateCoreMaskFromCoreVector(vector) == Or([i \in DOMAIN vector |-> vector[i].Mask])

CreateCoreMaskFromCoreIds(ids) == Or([i \in DOMAIN ids |-> IdToSystemCore[ids[i]].Mask])

\* The loop looks at bit 0 of the mask, shifted by as many as it has looked at;
\* that it ends once no bit is left makes no difference to what it finds.
CreateCoreVectorFromCoreMask(mask) ==
    FoldLeft(LAMBDA resultVec, i : IF i \in mask THEN Append(resultVec, IdToSystemCore[i])
                                   ELSE resultVec,
             << >>, [k \in 1..MaxCores |-> k - 1])

CoresInit == cores = << >>

AddCore ==
    /\ Len(cores) < MaxVector
    /\ \E c \in AllCores : cores' = Append(cores, c)

CoresSpec == CoresInit /\ [][AddCore]_cores

\* Of the three ways to build a mask, each is undone by the way back, whatever
\* the order and however often a core is named: the vector made of the mask has
\* each core once, by number.
MasksAgree ==
    LET mask == CreateCoreMaskFromCoreVector(cores)
        back == CreateCoreVectorFromCoreMask(mask)
    IN
    /\ CreateCoreMaskFromCoreIds([i \in DOMAIN cores |-> cores[i].Id]) = mask
    /\ ToSet(back) = ToSet(cores)
    /\ \A i, j \in 1..Len(back) : i < j => back[i].Id < back[j].Id
    /\ CreateCoreMaskFromCoreVector(back) = mask
    /\ \A n \in 0..MaxCores + 1 :
           mask = GetCoreMaskForAllMachineCores(n)
               <=> ToSet(cores) = {IdToSystemCore[i] : i \in {k \in CoreIds : k < n}}
==============================================================================
