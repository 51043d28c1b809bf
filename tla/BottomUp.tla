------------------------------ MODULE BottomUp -----------------------------
(***************************************************************************)
(* What a run of the parser promises, without tables or states: the        *)
(* symbols read so far are a sentential form that is only ever rewritten   *)
(* by running rules of the grammar backwards, and it is accepted when,     *)
(* with the end terminal, it has become the body of the first rule or of a *)
(* rule the first one leads to by bodies of one symbol.                    *)
(***************************************************************************)
EXTENDS Integers, Sequences

CONSTANTS Terms,   (* terminals of the grammar                             *)
          End      (* the terminal whose shift ends the run                *)

VARIABLES
  rules,    (* the grammar                                                 *)
  form,     (* the sentential form, a sequence of symbols                  *)
  verdict   (* "open", "accepted" or "rejected"                            *)

vars == <<rules, form, verdict>>

Open == form = <<>> /\ verdict = "open"

ReadTerminal ==
  /\ verdict = "open"
  /\ \E t \in Terms \ {End} : form' = Append(form, t)
  /\ UNCHANGED <<rules, verdict>>

(* form = before \o body, and the body gives way to the head. *)
UndoRule ==
  /\ verdict = "open"
  /\ \E r \in DOMAIN rules :
       LET keep == Len(form) - Len(rules[r].body)
       IN  /\ keep >= 0
           /\ SubSeq(form, keep + 1, Len(form)) = rules[r].body
           /\ form' = Append(SubSeq(form, 1, keep), rules[r].head)
  /\ UNCHANGED <<rules, verdict>>

(* The start symbol and what it derives by rules with one body symbol. *)
Heads(g) == {g[r].head : r \in DOMAIN g}

OutermostHeads(g) ==
  {h \in Heads(g) : \A S \in SUBSET Heads(g) :
     /\ g[1].head \in S
     /\ \A r \in DOMAIN g :
          g[r].head \in S /\ Len(g[r].body) = 1 /\ g[r].body[1] \in Heads(g)
            => g[r].body[1] \in S
     => h \in S}

AcceptForm ==
  /\ verdict = "open"
  /\ \E r \in DOMAIN rules :
       /\ rules[r].head \in OutermostHeads(rules)
       /\ Append(form, End) = rules[r].body
  /\ verdict' = "accepted"
  /\ UNCHANGED <<rules, form>>

RejectForm ==
  /\ verdict = "open"
  /\ verdict' = "rejected"
  /\ UNCHANGED <<rules, form>>

Steps == ReadTerminal \/ UndoRule \/ AcceptForm \/ RejectForm

DerivationSpec == Open /\ [][Steps]_vars
=============================================================================
