----------------------------- MODULE LalrTable -----------------------------
(***************************************************************************)
(* p_creat_descr_s::create_lalr_table (parser_code.cc:4210-4352), and with *)
(* it the second half of parser_s::create_from_rule_string, which calls    *)
(* compute_firsts, compute_follows, compute_kernels and create_lalr_table  *)
(* one after the other (4406-4411).                                        *)
(***************************************************************************)
EXTENDS FollowSets, KernelSets

CONSTANT ReduceBase  (* c_lalr_table_reduce_base, 0x80000000 in the code   *)

ASSUME ReduceBaseAssumption == ReduceBase \in Nat /\ ReduceBase > MaxKernels

NotExist == -1       (* c_idx_not_exist                                    *)

VARIABLES
  table_stage,  (* "wait", "gotos", "reductions", "created" or "failed"    *)
  lalr_table,   (* [kernel -> [symbol -> cell]]                            *)
  lt_k_idx,     (* kernel whose gotos or dots are looked at                *)
  lt_idx,       (* g_idx in the first loop, rd_idx in the second           *)
  create_error  (* error.type of the parser under construction            *)

tableOwnVars == <<table_stage, lalr_table, lt_k_idx, lt_idx, create_error>>
creatorVars == <<firstVars, followOwnVars, kernelOwnVars, tableOwnVars>>
inputsOfTable == <<firstVars, followOwnVars, kernelOwnVars>>

TableInit ==
  /\ table_stage = "wait"
  /\ lalr_table = <<>>
  /\ lt_k_idx = 1 /\ lt_idx = 1
  /\ create_error = "NONE"

Fail(error) ==
  /\ create_error' = error
  /\ table_stage' = "failed"
  /\ UNCHANGED <<lalr_table, lt_k_idx, lt_idx>>

CreateTable ==
  /\ KernelsDone
  /\ table_stage = "wait"
  /\ table_stage' = "gotos"
  /\ lalr_table' = [k \in DOMAIN kernels |-> [s \in Symbols |-> NotExist]]
  /\ UNCHANGED <<inputsOfTable, lt_k_idx, lt_idx, create_error>>

-----------------------------------------------------------------------------
(* First loop: every goto into kernel lt_k_idx becomes a cell. *)

AtGoto ==
  /\ table_stage = "gotos"
  /\ lt_k_idx <= Len(kernels)
  /\ lt_idx <= Len(kernels[lt_k_idx].gotos)

CurrentGoto == kernels[lt_k_idx].gotos[lt_idx]
GotoCell == lalr_table[CurrentGoto.from][CurrentGoto.symbol]

(* Mutant: a cell that holds another kernel is overwritten. *)
WriteAnyGoto ==
  /\ AtGoto
  /\ lalr_table' =
       [lalr_table EXCEPT ![CurrentGoto.from][CurrentGoto.symbol] = lt_k_idx]
  /\ lt_idx' = lt_idx + 1
  /\ UNCHANGED <<inputsOfTable, table_stage, lt_k_idx, create_error>>

(* An empty cell is written; a second goto to the same kernel changes nothing. *)
WriteGoto ==
  /\ AtGoto
  /\ GotoCell \in {NotExist, lt_k_idx}
  /\ lalr_table' =
       [lalr_table EXCEPT ![CurrentGoto.from][CurrentGoto.symbol] = lt_k_idx]
  /\ lt_idx' = lt_idx + 1
  /\ UNCHANGED <<inputsOfTable, table_stage, lt_k_idx, create_error>>

GotoConflict ==
  /\ AtGoto
  /\ GotoCell \notin {NotExist, lt_k_idx}
  /\ Fail("SLR1_PARSE_TABLE_CONFLICT")
  /\ UNCHANGED inputsOfTable

(* Mutant: the first loop leaves out the last kernel. *)
NextGotoKernelEarly ==
  /\ table_stage = "gotos"
  /\ lt_k_idx <= Len(kernels)
  /\ lt_idx > Len(kernels[lt_k_idx].gotos)
  /\ lt_idx' = 1
  /\ IF lt_k_idx < Len(kernels) - 1
       THEN lt_k_idx' = lt_k_idx + 1 /\ UNCHANGED table_stage
       ELSE lt_k_idx' = 1 /\ table_stage' = "reductions"
  /\ UNCHANGED <<inputsOfTable, lalr_table, create_error>>

NextGotoKernel ==
  /\ table_stage = "gotos"
  /\ lt_k_idx <= Len(kernels)
  /\ lt_idx > Len(kernels[lt_k_idx].gotos)
  /\ lt_idx' = 1
  /\ IF lt_k_idx < Len(kernels)
       THEN lt_k_idx' = lt_k_idx + 1 /\ UNCHANGED table_stage
       ELSE lt_k_idx' = 1 /\ table_stage' = "reductions"
  /\ UNCHANGED <<inputsOfTable, lalr_table, create_error>>

-----------------------------------------------------------------------------
(* Second loop: a dot at the end of its rule is a reduction on the terminals
   of FOLLOW of the head, unless a dot of the kernel stands right before that
   terminal.  The code goes through FOLLOW in array order, which the model
   does not keep: any failing terminal may be the one that is reported. *)

AtDot ==
  /\ table_stage = "reductions"
  /\ lt_idx <= Len(kernels[lt_k_idx].dots)

TableDot == kernels[lt_k_idx].dots[lt_idx]

(* Mutant: reduces on every terminal, as an LR(0) table does. *)
ReduceAlways(d) == Terminals

ReduceTerminals(d) == follows[rules[d.rule].head] \cap Terminals

(* Mutant: any open dot of the kernel counts, whatever stands behind it. *)
AnyOpenDot(k, t) ==
  \E i \in DOMAIN kernels[k].dots : ~AtEnd(kernels[k].dots[i])

Shiftable(k, t) ==
  \E i \in DOMAIN kernels[k].dots :
    ~AtEnd(kernels[k].dots[i]) /\ SymbolAfter(kernels[k].dots[i]) = t

(* Cells the dot is to write, and those it must find written. *)
Reducible(k, d) == {t \in ReduceTerminals(d) : ~Shiftable(k, t)}
Premature(k, d) == {t \in ReduceTerminals(d) : Shiftable(k, t)}

Occupied(k, S) == {t \in S : lalr_table[k][t] # NotExist}

ReductionFits ==
  /\ Occupied(lt_k_idx, Reducible(lt_k_idx, TableDot)) = {}
  /\ Occupied(lt_k_idx, Premature(lt_k_idx, TableDot))
       = Premature(lt_k_idx, TableDot)

WriteReduction ==
  /\ AtDot
  /\ AtEnd(TableDot)
  /\ ReductionFits
  /\ lalr_table' =
       [lalr_table EXCEPT ![lt_k_idx] =
          [s \in Symbols |-> IF s \in Reducible(lt_k_idx, TableDot)
                               THEN ReduceBase + TableDot.rule
                               ELSE @[s]]]
  /\ lt_idx' = lt_idx + 1
  /\ UNCHANGED <<inputsOfTable, table_stage, lt_k_idx, create_error>>

ReductionFails ==
  /\ AtDot
  /\ AtEnd(TableDot)
  /\ \E t \in Occupied(lt_k_idx, Reducible(lt_k_idx, TableDot))
             \union (Premature(lt_k_idx, TableDot)
                      \ Occupied(lt_k_idx, Premature(lt_k_idx, TableDot))) :
       Fail(IF Shiftable(lt_k_idx, t)
              THEN "CANNOT_RESOLVE_RULE_HEAD_FOR_SHIFT_ACTION"
              ELSE "SLR1_PARSE_TABLE_CONFLICT")
  /\ UNCHANGED inputsOfTable

SkipOpenDot ==
  /\ AtDot
  /\ ~AtEnd(TableDot)
  /\ lt_idx' = lt_idx + 1
  /\ UNCHANGED <<inputsOfTable, table_stage, lalr_table, lt_k_idx, create_error>>

NextReduceKernel ==
  /\ table_stage = "reductions"
  /\ lt_idx > Len(kernels[lt_k_idx].dots)
  /\ IF lt_k_idx < Len(kernels)
       THEN lt_k_idx' = lt_k_idx + 1 /\ lt_idx' = 1 /\ UNCHANGED table_stage
       ELSE table_stage' = "created" /\ UNCHANGED <<lt_k_idx, lt_idx>>
  /\ UNCHANGED <<inputsOfTable, lalr_table, create_error>>

TableNext ==
  \/ CreateTable
  \/ WriteGoto \/ GotoConflict \/ NextGotoKernel
  \/ WriteReduction \/ ReductionFails \/ SkipOpenDot \/ NextReduceKernel

-----------------------------------------------------------------------------
(* create_from_rule_string: the four steps in their order. *)

CreatorInit == FirstInit /\ FollowInit /\ KernelInit /\ TableInit

CreatorNext ==
  \/ FirstNext /\ UNCHANGED <<followOwnVars, kernelOwnVars, tableOwnVars>>
  \/ FollowNext /\ UNCHANGED <<kernelOwnVars, tableOwnVars>>
  \/ FollowsDone /\ KernelNext /\ UNCHANGED <<followOwnVars, tableOwnVars>>
  \/ TableNext

CreatorSpec ==
  CreatorInit /\ [][CreatorNext]_creatorVars /\ WF_creatorVars(CreatorNext)

-----------------------------------------------------------------------------
Cells == {NotExist} \union 1 .. MaxKernels
           \union {ReduceBase + r : r \in DOMAIN rules}

(* Types of the table and of the indices of create_lalr_table. *)
TableTypeOK ==
  /\ table_stage \in {"wait", "gotos", "reductions", "created", "failed"}
  /\ create_error \in {"NONE", "SLR1_PARSE_TABLE_CONFLICT",
                       "CANNOT_RESOLVE_RULE_HEAD_FOR_SHIFT_ACTION"}
  /\ lt_k_idx \in Nat \ {0} /\ lt_idx \in Nat \ {0}
  /\ table_stage # "wait" =>
       /\ KernelsDone
       /\ lt_k_idx \in DOMAIN kernels
       /\ lalr_table \in [DOMAIN kernels -> [Symbols -> Cells]]

(* A shift that a complete rule dot makes way for is always in the table:
   compute_kernels left no symbol after a dot without a goto, so the error
   CANNOT_RESOLVE_RULE_HEAD_FOR_SHIFT_ACTION is never reported. *)
ShiftsResolved ==
  create_error # "CANNOT_RESOLVE_RULE_HEAD_FOR_SHIFT_ACTION"

(* A cell holds what the kernels say: a state the symbol leads to, or a rule
   that is complete in this kernel and whose head the terminal may follow. *)
CellsJustified ==
  table_stage \in {"gotos", "reductions", "created"} =>
    \A k \in DOMAIN kernels, s \in Symbols :
      LET cell == lalr_table[k][s]
      IN  \/ cell = NotExist
          \/ /\ cell < ReduceBase
             /\ [from |-> k, symbol |-> s] \in ElementsOf(kernels[cell].gotos)
          \/ /\ cell > ReduceBase
             /\ LET r == cell - ReduceBase
                IN  /\ RuleDot(r, Len(rules[r].body))
                         \in ElementsOf(kernels[k].dots)
                    /\ s \in Follow(rules, rules[r].head)
                    /\ ~Shiftable(k, s)

(* A table that is handed to the parser has lost nothing on the way: every
   symbol that may come next in a kernel has its goto cell, and every
   terminal of the computed FOLLOW set has the reduction of a complete rule
   unless the kernel shifts it. *)
CreatedTableComplete ==
  table_stage = "created" =>
    \A k \in DOMAIN kernels : \A rd \in DOMAIN kernels[k].dots :
      LET d == kernels[k].dots[rd]
      IN  IF AtEnd(d)
            THEN \A t \in ReduceTerminals(d) :
                   Shiftable(k, t) \/ lalr_table[k][t] = ReduceBase + d.rule
            ELSE \A i \in DOMAIN FirstAfter(d) :
                   LET cell == lalr_table[k][FirstAfter(d)[i]]
                   IN  /\ cell \in DOMAIN kernels
                       /\ ElementsOf(Group(d, i))
                            \subseteq ElementsOf(kernels[cell].dots)

(* No step of the construction overwrites a cell: a conflict is reported
   instead of being decided by the order of the loops. *)
CellsWrittenOnce ==
  [][(table_stage \in {"gotos", "reductions"}) =>
       \A k \in DOMAIN kernels, s \in Symbols :
         lalr_table[k][s] # NotExist
           => lalr_table'[k][s] = lalr_table[k][s]]_creatorVars

=============================================================================
