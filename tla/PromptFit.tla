------------------------------ MODULE PromptFit ------------------------------
(***************************************************************************)
(* fit() of review/context.py: which hunks go into the prompt, and in      *)
(* which of their renderings.  A block is its renderings' costs in tokens, *)
(* richest first (block_variants of review/prompts.py); one step is one    *)
(* turn of either loop.                                                    *)
(***************************************************************************)
EXTENDS Integers, Sequences, FiniteSetsExt

CONSTANTS
  MaxBlocks,  \* blocks of one call
  MaxCost,    \* tokens of a rendering
  MaxBudget   \* tokens of the call

ASSUME FitAssumption == MaxBlocks \in Nat /\ MaxCost \in Nat /\ MaxBudget \in Nat

VARIABLES
  blocks,    \* the hunks in rank order
  budget,
  pass,      \* 1, 2, and 3 when fit() has returned
  position,
  chosen,    \* the rendering of each hunk that is shown: an index, 0 for none
  spent

fitVars == <<blocks, budget, pass, position, chosen, spent>>

(* A window and past comments only ever add to the bare hunk.              *)
Block ==
  {b \in UNION {[1 .. n -> 1 .. MaxCost] : n \in 1 .. 3} :
     \A i \in 1 .. Len(b) - 1 : b[i] >= b[i + 1]}

FitTypeOK ==
  /\ blocks \in Seq(Block) /\ Len(blocks) <= MaxBlocks
  /\ budget \in 0 .. MaxBudget
  /\ pass \in 1 .. 3
  /\ position \in 1 .. Len(blocks) + 1
  /\ chosen \in [1 .. Len(blocks) -> 0 .. 3]
  /\ spent \in Nat

FitInit ==
  /\ blocks \in UNION {[1 .. n -> Block] : n \in 0 .. MaxBlocks}
  /\ budget \in 0 .. MaxBudget
  /\ pass = 1
  /\ position = 1
  /\ chosen = [i \in 1 .. Len(blocks) |-> 0]
  /\ spent = 0

-----------------------------------------------------------------------------
Cost(i) == IF chosen[i] = 0 THEN 0 ELSE blocks[i][chosen[i]]

(* The block in hand is shown as variant v, or as it was.                  *)
Show(v) ==
  /\ chosen' = [chosen EXCEPT ![position] = v]
  /\ spent' = spent - Cost(position) + blocks[position][v]

Fits(v) == spent - Cost(position) + blocks[position][v] <= budget

(* Mutant: each hunk at once as rich as it fits.                           *)
TakeRichest ==
  /\ pass = 1 /\ position <= Len(blocks)
  /\ LET fitting == {v \in 1 .. Len(blocks[position]) : Fits(v)}
     IN  IF fitting # {} THEN Show(Min(fitting)) ELSE UNCHANGED <<chosen, spent>>
  /\ position' = position + 1
  /\ UNCHANGED <<blocks, budget, pass>>

TakeCheapest ==
  /\ pass = 1 /\ position <= Len(blocks)
  /\ LET cheapest == Len(blocks[position])
     IN  IF Fits(cheapest) THEN Show(cheapest) ELSE UNCHANGED <<chosen, spent>>
  /\ position' = position + 1
  /\ UNCHANGED <<blocks, budget, pass>>

(* The richest rendering before the chosen one that fits.                  *)
Upgrade ==
  /\ pass = 2 /\ position <= Len(blocks)
  /\ LET richer == {v \in 1 .. chosen[position] - 1 : Fits(v)}
     IN  IF richer # {} THEN Show(Min(richer)) ELSE UNCHANGED <<chosen, spent>>
  /\ position' = position + 1
  /\ UNCHANGED <<blocks, budget, pass>>

EndPass ==
  /\ pass < 3 /\ position > Len(blocks)
  /\ pass' = pass + 1
  /\ position' = 1
  /\ UNCHANGED <<blocks, budget, chosen, spent>>

FitNext == TakeCheapest \/ Upgrade \/ EndPass

FitSpec == FitInit /\ [][FitNext]_fitVars

-----------------------------------------------------------------------------
Hunks == 1 .. Len(blocks)

CostOf == [i \in Hunks |-> Cost(i)]

BareOf == [i \in Hunks |-> blocks[i][Len(blocks[i])]]

ShownAbove(i) == {j \in 1 .. i - 1 : chosen[j] # 0}

LeftOutForItsSize(i) ==
  chosen[i] = 0 <=> SumFunctionOnSet(BareOf, ShownAbove(i)) + BareOf[i] > budget

AsRichAsFits(i) == \A v \in 1 .. chosen[i] - 1 : spent - Cost(i) + blocks[i][v] > budget

(* "A hunk skipped here is skipped for its own size, not for its rank, and *)
(* the budget it could not use is offered to the next one": the budget     *)
(* holds and is what the renderings cost; a hunk is left out only if its   *)
(* bare form did not fit beside the bare forms of the hunks shown above    *)
(* it, whatever windows those were given; and at the end no hunk could be  *)
(* shown any richer with the tokens left.                                  *)
FitIsFair ==
  /\ spent = SumFunctionOnSet(CostOf, Hunks)
  /\ spent <= budget
  /\ pass = 3 => \A i \in Hunks : LeftOutForItsSize(i) /\ AsRichAsFits(i)
=============================================================================
