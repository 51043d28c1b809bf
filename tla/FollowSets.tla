----------------------------- MODULE FollowSets ----------------------------
(***************************************************************************)
(* p_creat_descr_s::compute_follows and the recursive                      *)
(* compute_follows_of_nonterminal (parser_code.cc:3865-3993), which run on *)
(* the finished result of compute_firsts.                                  *)
(*                                                                         *)
(* The recursion is an explicit stack of frames.  The array ret_follows a  *)
(* call fills is the entry of "follows" its caller passed by reference, so *)
(* a frame writes follows[nonterm] directly.  A FOLLOW array is read as a  *)
(* set: every push into it is guarded by a membership test, and its order  *)
(* is not observable.                                                      *)
(***************************************************************************)
EXTENDS FirstSets

VARIABLES
  follow_idx,       (* non_idx of compute_follows, the root of a recursion *)
  frames,           (* calls of compute_follows_of_nonterminal, last on top *)
  nonterm_used,     (* heads the current recursion has already been in     *)
  follows_created,  (* nonterminals whose set is known to be complete      *)
  follows

followOwnVars == <<follow_idx, frames, nonterm_used, follows_created, follows>>
followVars == <<firstVars, followOwnVars>>

Frame(n) == [nonterm |-> n, rule |-> 1, pos |-> 1, clean |-> TRUE]

FollowsDone == follow_idx > TermCount + NontermCount - 1

FollowInit ==
  /\ follow_idx = TermCount
  /\ frames = <<>>
  /\ nonterm_used = {}
  /\ follows_created = {}
  /\ follows = [n \in Nonterminals |-> {}]

Top == frames[Len(frames)]

(* The next symbol position of the two nested loops over the rules. *)
Advance(f) ==
  IF f.pos < Len(rules[f.rule].body)
    THEN [f EXCEPT !.pos = @ + 1]
    ELSE [f EXCEPT !.rule = @ + 1, !.pos = 1]

ReplaceTop(f) == [frames EXCEPT ![Len(frames)] = f]

AddFollows(n, set) == [follows EXCEPT ![n] = @ \union set]

-----------------------------------------------------------------------------
(* compute_follows: the loop over all nonterminals. *)

SkipCreated ==
  /\ FirstsDone /\ ~FollowsDone
  /\ frames = <<>>
  /\ follow_idx \in follows_created
  /\ follow_idx' = follow_idx + 1
  /\ UNCHANGED <<firstVars, frames, nonterm_used, follows_created, follows>>

(* The callee begins by emptying the array it was given. *)
CallRoot ==
  /\ FirstsDone /\ ~FollowsDone
  /\ frames = <<>>
  /\ follow_idx \notin follows_created
  /\ nonterm_used' = {follow_idx}
  /\ frames' = <<Frame(follow_idx)>>
  /\ follows' = [follows EXCEPT ![follow_idx] = {}]
  /\ UNCHANGED <<firstVars, follow_idx, follows_created>>

-----------------------------------------------------------------------------
(* compute_follows_of_nonterminal, for the call on top of the stack. *)

Scanning == frames # <<>> /\ Top.rule <= Len(rules)

Body == rules[Top.rule].body
RuleHead == rules[Top.rule].head
Watched == Body[Top.pos] = Top.nonterm

SkipSymbol ==
  /\ Scanning
  /\ ~Watched
  /\ frames' = ReplaceTop(Advance(Top))
  /\ UNCHANGED <<firstVars, follow_idx, nonterm_used, follows_created, follows>>

(* Mutant: takes the watched nonterminal for the symbol behind it. *)
FollowInBodyItself ==
  /\ Scanning /\ Watched
  /\ Top.pos < Len(Body)
  /\ follows' = AddFollows(Top.nonterm, ElementsOf(firsts[Body[Top.pos]]))
  /\ frames' = ReplaceTop(Advance(Top))
  /\ UNCHANGED <<firstVars, follow_idx, nonterm_used, follows_created>>

(* Another symbol stands behind the watched nonterminal. *)
FollowInBody ==
  /\ Scanning /\ Watched
  /\ Top.pos < Len(Body)
  /\ LET element == Body[Top.pos + 1]
     IN follows' = AddFollows(Top.nonterm,
                     IF element \in Terminals THEN {element}
                                              ELSE ElementsOf(firsts[element]))
  /\ frames' = ReplaceTop(Advance(Top))
  /\ UNCHANGED <<firstVars, follow_idx, nonterm_used, follows_created>>

AtBodyEnd == Scanning /\ Watched /\ Top.pos = Len(Body)

(* Mutant: a call that skipped a head still counts as clean. *)
HeadUsedClean ==
  /\ AtBodyEnd
  /\ RuleHead \in nonterm_used
  /\ frames' = ReplaceTop(Advance(Top))
  /\ UNCHANGED <<firstVars, follow_idx, nonterm_used, follows_created, follows>>

(* This recursion has been in the head already: its set is not taken. *)
HeadUsed ==
  /\ AtBodyEnd
  /\ RuleHead \in nonterm_used
  /\ frames' = ReplaceTop(Advance([Top EXCEPT !.clean = FALSE]))
  /\ UNCHANGED <<firstVars, follow_idx, nonterm_used, follows_created, follows>>

(* Mutant: the complete set of the head is not merged. *)
HeadCreatedSkips ==
  /\ AtBodyEnd
  /\ RuleHead \notin nonterm_used
  /\ RuleHead \in follows_created
  /\ frames' = ReplaceTop(Advance(Top))
  /\ UNCHANGED <<firstVars, follow_idx, nonterm_used, follows_created, follows>>

HeadCreated ==
  /\ AtBodyEnd
  /\ RuleHead \notin nonterm_used
  /\ RuleHead \in follows_created
  /\ follows' = AddFollows(Top.nonterm, follows[RuleHead])
  /\ frames' = ReplaceTop(Advance(Top))
  /\ UNCHANGED <<firstVars, follow_idx, nonterm_used, follows_created>>

(* The set of the head is emptied and computed by a nested call. *)
CallHead ==
  /\ AtBodyEnd
  /\ RuleHead \notin nonterm_used
  /\ RuleHead \notin follows_created
  /\ nonterm_used' = nonterm_used \union {RuleHead}
  /\ follows' = [follows EXCEPT ![RuleHead] = {}]
  /\ frames' = Append(frames, Frame(RuleHead))
  /\ UNCHANGED <<firstVars, follow_idx, follows_created>>

Returning == frames # <<>> /\ Top.rule > Len(rules)

Caller == frames[Len(frames) - 1]

(* Mutant: the caller does not take over the set of the call. *)
ReturnWithoutSet ==
  /\ Returning /\ Len(frames) > 1
  /\ follows_created' = IF Top.clean
                          THEN follows_created \union {Top.nonterm}
                          ELSE follows_created
  /\ frames' = Append(SubSeq(frames, 1, Len(frames) - 2),
                      Advance([Caller EXCEPT !.clean = @ /\ Top.clean]))
  /\ UNCHANGED <<firstVars, follow_idx, nonterm_used, follows>>

(* A nested call returns: the caller takes over its set and, if the call
   was clean, records the set as created. *)
ReturnToCaller ==
  /\ Returning /\ Len(frames) > 1
  /\ follows' = AddFollows(Caller.nonterm, follows[Top.nonterm])
  /\ follows_created' = IF Top.clean
                          THEN follows_created \union {Top.nonterm}
                          ELSE follows_created
  /\ frames' = Append(SubSeq(frames, 1, Len(frames) - 2),
                      Advance([Caller EXCEPT !.clean = @ /\ Top.clean]))
  /\ UNCHANGED <<firstVars, follow_idx, nonterm_used>>

(* Mutant: the loop does not go on to the next nonterminal. *)
ReturnToSameRoot ==
  /\ Returning /\ Len(frames) = 1
  /\ frames' = <<>>
  /\ UNCHANGED <<firstVars, follow_idx, nonterm_used, follows_created, follows>>

(* The outermost call returns; compute_follows ignores what it returns. *)
ReturnToRoot ==
  /\ Returning /\ Len(frames) = 1
  /\ frames' = <<>>
  /\ follow_idx' = follow_idx + 1
  /\ UNCHANGED <<firstVars, nonterm_used, follows_created, follows>>

FollowNext ==
  \/ SkipCreated \/ CallRoot
  \/ SkipSymbol \/ FollowInBody
  \/ HeadUsed \/ HeadCreated \/ CallHead
  \/ ReturnToCaller \/ ReturnToRoot

FirstsBeforeFollows == FirstNext /\ UNCHANGED followOwnVars

FollowsInit == FirstInit /\ FollowInit
FollowsSpec ==
  /\ FollowsInit
  /\ [][FirstsBeforeFollows \/ FollowNext]_followVars
  /\ WF_followVars(FirstsBeforeFollows \/ FollowNext)

-----------------------------------------------------------------------------
FrameType == [nonterm : Nonterminals, rule : Nat \ {0}, pos : Nat \ {0},
              clean : BOOLEAN]

(* Types of the stack and of the sets of compute_follows; a frame that is
   not about to return stands at a position inside a rule body. *)
FollowTypeOK ==
  /\ follow_idx \in TermCount .. (TermCount + NontermCount)
  /\ frames \in Seq(FrameType)
  /\ \A i \in DOMAIN frames :
       /\ frames[i].rule <= Len(rules) + 1
       /\ frames[i].rule <= Len(rules) =>
            frames[i].pos <= Len(rules[frames[i].rule].body)
  /\ nonterm_used \subseteq Nonterminals
  /\ follows_created \subseteq Nonterminals
  /\ follows \in [Nonterminals -> SUBSET Symbols]

(* What a FOLLOW array holds, at any moment, may follow its nonterminal. *)
FollowsSound == \A n \in Nonterminals : follows[n] \subseteq Follow(rules, n)

(* A set marked in follows_created is all of FOLLOW: later calls take it as
   it is, without looking at the rules again. *)
CreatedComplete ==
  \A n \in follows_created : Follow(rules, n) \subseteq follows[n]

(* The nonterminal a recursion was started for has its whole FOLLOW set when
   the recursion is over, although inner calls skip the heads in use. *)
RootComplete ==
  [][frames # <<>> /\ frames' = <<>> =>
       follows[follow_idx] = Follow(rules, follow_idx)]_followVars

(* At the end every nonterminal has the whole of its FOLLOW set, which is
   what "compute set follow for nonterminal symbols" (parser_code.h:479)
   promises to create_lalr_table. *)
FollowsComplete ==
  FollowsDone =>
    \A n \in Nonterminals : follows[n] = Follow(rules, n)

(* The mutual recursion over the nonterminals comes to an end. *)
FollowsTerminate == <>FollowsDone
=============================================================================
