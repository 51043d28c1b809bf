---------------------------- MODULE ProgramProofs ---------------------------
(***************************************************************************)
(* Proofs about the program yapgen: what it leaves in the files and what   *)
(* its exit status says is what the command line asks for, whatever the    *)
(* words, the files and the errors are; and every error is shown where it  *)
(* is. Of a report: the lines are found by the new line last before a      *)
(* position and the first one behind it; the print size of a line is a sum *)
(* from its end backwards, and a well-formed line is cut into characters   *)
(* of the lengths that utf8_to_utf32 reads (SizeIsColumns).                *)
(*                                                                         *)
(* And about the loader of rule files, in the second part. Whatever file   *)
(* it is given, what it hands on is a grammar, the one that was written,   *)
(* and its terminals are marked as their names say. The invariant says at  *)
(* every stage which text the tokens read so far are: the terminals and    *)
(* rules that are stored, and the one begun. To store one more adds its    *)
(* text at the end (the lemmas ...Grows), which is a fact about            *)
(* FlattenSeq; what a name is marked as is one about FoldLeft. Both are    *)
(* shown by induction on the length, of a set of numbers.                  *)
(*                                                                         *)
(* main with the loader in it is both of them: every step of Yapgen is one *)
(* of the one and leaves the other as it is.                               *)
(***************************************************************************)
EXTENDS Yapgen, SequenceLemmas, SequenceTheorems, FiniteSetTheorems, TLAPS

Options == 1 .. arg_option_cnt

(* The places in front of word k where option o stands. *)
MentionsBefore(o, k) ==
  {i \in DOMAIN args : i % 2 = 1 /\ i < k /\ args[i] = arg_option_names[o]}

(* For every option the word behind its last mention in front of word k. *)
LastMentions(k) ==
  \A o \in Options :
    IF arg_file_idxs[o] = 0
      THEN MentionsBefore(o, k) = {}
      ELSE /\ arg_file_idxs[o] - 1 \in MentionsBefore(o, k)
           /\ \A j \in MentionsBefore(o, k) : j <= arg_file_idxs[o] - 1

TypeInv ==
  /\ scenario \in Scenarios
  /\ stage \in {"arguments", "options", "exited"}
  /\ a_idx \in Nat \ {0}
  /\ o_idx \in Options
  /\ arg_file_idxs \in [Options -> Nat]
  /\ parser_exist \in BOOLEAN /\ accepted \in BOOLEAN
  /\ return_value \in {0, 1}
  /\ DOMAIN files = DOMAIN scenario.files

(* Nothing was done. *)
Untouched == ~parser_exist /\ ~accepted /\ files = scenario.files

TakingInv ==
  stage = "arguments" =>
    /\ a_idx % 2 = 1 /\ a_idx <= Len(args) + 1
    /\ \A i \in DOMAIN args : i % 2 = 1 /\ i < a_idx => IsOption(args[i])
    /\ LastMentions(a_idx)
    /\ o_idx = 1 /\ return_value = 0
    /\ Untouched

RefusedInv == stage = "exited" /\ ~ArgumentsOK => return_value = 1 /\ Untouched

(* main has begun to look at the options. *)
InMain == stage = "options" \/ (stage = "exited" /\ ArgumentsOK)

Done(o) == stage = "exited" \/ o < o_idx

Succeeded(o) ==
  IF o = 1 THEN parser_exist
  ELSE IF o = arg_option_cnt THEN accepted
  ELSE parser_exist /\ args[arg_file_idxs[o]] \notin scenario.locked

OrderInv ==
  InMain =>
    /\ ArgumentsOK
    /\ LastMentions(Len(args) + 1)
    /\ parser_exist => Done(1)
    /\ accepted => Done(arg_option_cnt)

StatusInv ==
  InMain =>
    (return_value = 0 <=>
       \A o \in Options : Done(o) /\ arg_file_idxs[o] # 0 => Succeeded(o))

(* The languages that were saved in a file, if there is a parser. *)
SavedSoFar(name) ==
  {n \in DOMAIN Languages :
     /\ Done(n + 1) /\ arg_file_idxs[n + 1] # 0
     /\ args[arg_file_idxs[n + 1]] = name /\ name \notin scenario.locked}

FilesInv ==
  InMain =>
    \A name \in DOMAIN files :
      IF parser_exist /\ SavedSoFar(name) # {}
        THEN \E n \in SavedSoFar(name) :
               /\ files[name].maker = Languages[n]
               /\ \A m \in SavedSoFar(name) : m <= n
        ELSE files[name] = scenario.files[name]

ProgramInv ==
  /\ TypeInv /\ TakingInv /\ RefusedInv
  /\ OrderInv /\ StatusInv /\ FilesInv

-----------------------------------------------------------------------------
LEMMA OptionNames ==
  /\ arg_option_cnt = 7 /\ Options = 1 .. 7
  /\ DOMAIN Languages = 1 .. 5
  /\ \A n \in 1 .. 5 : n + 1 \in Options /\ n + 1 # 1 /\ n + 1 # arg_option_cnt
  /\ \A o, p \in Options : arg_option_names[o] = arg_option_names[p] => o = p
<1>1. arg_option_cnt = 7 /\ Options = 1 .. 7
  BY DEF arg_option_cnt, arg_option_names, Options
<1>2. \A o, p \in 1 .. 7 : arg_option_names[o] = arg_option_names[p] => o = p
  BY SMT DEF arg_option_names
<1> QED BY <1>1, <1>2 DEF Languages

LEMMA ArgsTyping ==
  ASSUME scenario \in Scenarios
  PROVE  /\ args \in Seq(DOMAIN scenario.files)
         /\ Len(args) \in Nat /\ DOMAIN args = 1 .. Len(args)
         /\ \A i \in DOMAIN args : args[i] \in DOMAIN scenario.files
BY ProgramAssumption DEF args

-----------------------------------------------------------------------------
(* parse_arguments *)

LEMMA InitInv == Init => ProgramInv
<1> SUFFICES ASSUME Init PROVE ProgramInv OBVIOUS
<1>1. scenario \in Scenarios BY DEF Init
<1>2. TypeInv
  <2>1. 1 \in Options BY OptionNames
  <2>2. arg_file_idxs \in [Options -> Nat] BY DEF Init, Options
  <2>3. parser_exist \in BOOLEAN /\ accepted \in BOOLEAN BY Zenon DEF Init
  <2> QED BY <1>1, <2>1, <2>2, <2>3 DEF Init, TypeInv
<1>3. LastMentions(1)
  BY <1>1, ArgsTyping, OptionNames DEF Init, LastMentions, MentionsBefore
<1>4. TakingInv
  BY <1>1, <1>3, ArgsTyping DEF Init, TakingInv, Untouched
<1> QED
  BY <1>2, <1>4
  DEF Init, ProgramInv, RefusedInv, OrderInv, StatusInv, FilesInv, InMain

(* Taking an option moves over two words, the second of which is not looked
   at. *)
LEMMA TakeOptionInv ==
  ASSUME ProgramInv, TakeOption
  PROVE  ProgramInv'
<1>1. /\ stage = "arguments" /\ stage' = "arguments"
      /\ a_idx < Len(args) /\ a_idx' = a_idx + 2 /\ args' = args
      /\ scenario' = scenario
  BY DEF TakeOption, args
<1>2. /\ a_idx \in Nat \ {0} /\ a_idx % 2 = 1 /\ LastMentions(a_idx)
      /\ arg_file_idxs \in [Options -> Nat]
  BY <1>1 DEF ProgramInv, TypeInv, TakingInv
<1>3. Len(args) \in Nat /\ DOMAIN args = 1 .. Len(args)
  BY ArgsTyping DEF ProgramInv, TypeInv
<1>4. PICK o \in Options :
        /\ arg_option_names[o] = args[a_idx]
        /\ arg_file_idxs' = [arg_file_idxs EXCEPT ![o] = a_idx + 1]
  BY DEF TakeOption, Options
<1>5. TypeInv'
  <2>1. a_idx' \in Nat \ {0} BY <1>1, <1>2
  <2>2. arg_file_idxs' \in [Options -> Nat] BY <1>2, <1>4
  <2> QED BY <2>1, <2>2 DEF ProgramInv, TypeInv, TakeOption
<1>6. \A i \in DOMAIN args : i % 2 = 1 /\ i < a_idx + 2 => i < a_idx \/ i = a_idx
  BY <1>2, <1>3
<1>7. ASSUME NEW p \in Options
      PROVE  MentionsBefore(p, a_idx + 2) =
               MentionsBefore(p, a_idx) \union IF p = o THEN {a_idx} ELSE {}
  <2>1. ASSUME NEW i \in DOMAIN args, i % 2 = 1
        PROVE  i < a_idx + 2 <=> i < a_idx \/ i = a_idx
    BY <1>2, <1>3, <1>6, <2>1
  <2>2. args[a_idx] = arg_option_names[p] <=> p = o
    BY <1>4, OptionNames
  <2>3. a_idx \in DOMAIN args BY <1>1, <1>2, <1>3
  <2> QED BY <1>2, <2>1, <2>2, <2>3, Zenon DEF MentionsBefore
<1>8. LastMentions(a_idx)'
  <2> SUFFICES ASSUME NEW p \in Options
               PROVE  IF arg_file_idxs'[p] = 0
                        THEN MentionsBefore(p, a_idx + 2) = {}
                        ELSE /\ arg_file_idxs'[p] - 1 \in MentionsBefore(p, a_idx + 2)
                             /\ \A j \in MentionsBefore(p, a_idx + 2) :
                                  j <= arg_file_idxs'[p] - 1
    BY <1>1 DEF LastMentions, MentionsBefore
  <2>1. CASE p = o
    <3>1. arg_file_idxs'[p] = a_idx + 1 BY <1>2, <1>4, <2>1
    <3>2. \A j \in MentionsBefore(p, a_idx) : j \in Nat /\ j <= a_idx
      BY <1>2, <1>3 DEF MentionsBefore
    <3> QED BY <1>2, <1>7, <2>1, <3>1, <3>2
  <2>2. CASE p # o
    BY <1>2, <1>4, <1>7, <2>2 DEF LastMentions
  <2> QED BY <2>1, <2>2
<1>9. \A i \in DOMAIN args : i % 2 = 1 /\ i < a_idx + 2 => IsOption(args[i])
  BY <1>1, <1>4, <1>6 DEF ProgramInv, TakingInv, IsOption, Options
<1>10. TakingInv'
  <2>1. (a_idx + 2) % 2 = 1 /\ a_idx + 2 <= Len(args) + 1
    BY <1>1, <1>2, <1>3
  <2>2. o_idx' = 1 /\ return_value' = 0 /\ Untouched'
    BY <1>1 DEF ProgramInv, TakingInv, Untouched, TakeOption
  <2>3. \A i \in DOMAIN args' : i % 2 = 1 /\ i < a_idx' => IsOption(args[i])'
    BY <1>1, <1>9 DEF IsOption
  <2> QED BY <1>1, <1>8, <2>1, <2>2, <2>3 DEF TakingInv
<1> QED
  BY <1>1, <1>5, <1>10
  DEF ProgramInv, RefusedInv, OrderInv, StatusInv, FilesInv, InMain

LEMMA BadArgumentsInv ==
  ASSUME ProgramInv, BadArguments
  PROVE  ProgramInv'
<1>1. /\ args' = args /\ scenario' = scenario /\ stage' = "exited"
      /\ return_value' = 1
  BY DEF BadArguments, args
<1>2. Len(args) \in Nat /\ DOMAIN args = 1 .. Len(args)
  BY ArgsTyping DEF ProgramInv, TypeInv
<1>3. /\ a_idx \in Nat \ {0} /\ a_idx <= Len(args) /\ a_idx % 2 = 1
      /\ ~IsOption(args[a_idx]) \/ a_idx = Len(args)
      /\ Untouched
  BY DEF ProgramInv, TypeInv, TakingInv, BadArguments
<1>4. ~ArgumentsOK
  <2>1. CASE a_idx = Len(args)
    <3>1. Len(args) % 2 # 0 BY <1>3, <2>1
    <3> QED BY <3>1 DEF ArgumentsOK
  <2>2. CASE ~IsOption(args[a_idx])
    <3>1. a_idx \in Nat \ {0} /\ a_idx <= Len(args) BY <1>3
    <3>2. a_idx \in DOMAIN args BY <1>2, <3>1
    <3> QED BY <1>3, <2>2, <3>2 DEF ArgumentsOK
  <2> QED BY <1>3, <2>1, <2>2
<1>5. ~ArgumentsOK'
  BY <1>1, <1>4 DEF ArgumentsOK, IsOption
<1>6. Untouched'
  BY <1>3 DEF Untouched, BadArguments
<1>7. TypeInv'
  BY DEF ProgramInv, TypeInv, BadArguments
<1> QED
  BY <1>1, <1>5, <1>6, <1>7
  DEF ProgramInv, TakingInv, RefusedInv, OrderInv, StatusInv, FilesInv, InMain

LEMMA ArgumentsTakenInv ==
  ASSUME ProgramInv, ArgumentsTaken
  PROVE  ProgramInv'
<1>1. /\ args' = args /\ scenario' = scenario /\ stage' = "options"
      /\ UNCHANGED <<files, o_idx, a_idx, arg_file_idxs, parser_exist, accepted, return_value>>
  BY DEF ArgumentsTaken, args
<1>2. Len(args) \in Nat /\ DOMAIN args = 1 .. Len(args)
  BY ArgsTyping DEF ProgramInv, TypeInv
<1>3. /\ a_idx \in Nat \ {0} /\ a_idx = Len(args) + 1 /\ a_idx % 2 = 1
      /\ LastMentions(a_idx) /\ Untouched /\ o_idx = 1 /\ return_value = 0
      /\ \A i \in DOMAIN args : i % 2 = 1 => IsOption(args[i])
  BY <1>2 DEF ProgramInv, TypeInv, TakingInv, ArgumentsTaken
<1>4. ArgumentsOK'
  BY <1>1, <1>2, <1>3 DEF ArgumentsOK, IsOption
<1>5. LastMentions(Len(args) + 1)'
  BY <1>1, <1>3 DEF LastMentions, MentionsBefore
<1>6. TypeInv'
  BY <1>1 DEF ProgramInv, TypeInv
<1>7. /\ \A o \in Options : ~Done(o)'
      /\ \A n \in DOMAIN Languages : ~Done(n + 1)'
  BY <1>1, <1>3, OptionNames DEF Done
<1>8. (StatusInv /\ FilesInv)'
  BY <1>1, <1>3, <1>7 DEF StatusInv, FilesInv, SavedSoFar, Untouched
<1> QED
  BY <1>1, <1>3, <1>4, <1>5, <1>6, <1>8
  DEF ProgramInv, TakingInv, RefusedInv, OrderInv, Untouched

-----------------------------------------------------------------------------
(* main: one option after the other *)

LEMMA GivenName ==
  ASSUME ProgramInv, InMain, NEW o \in Options, arg_file_idxs[o] # 0
  PROVE  arg_file_idxs[o] \in DOMAIN args
<1>1. /\ Len(args) \in Nat /\ DOMAIN args = 1 .. Len(args)
  BY ArgsTyping DEF ProgramInv, TypeInv
<1>2. /\ arg_file_idxs[o] \in Nat
      /\ arg_file_idxs[o] - 1 \in 1 .. Len(args)
      /\ (arg_file_idxs[o] - 1) % 2 = 1
  BY <1>1 DEF ProgramInv, TypeInv, OrderInv, LastMentions, MentionsBefore
<1>3. Len(args) % 2 = 0
  BY DEF ProgramInv, OrderInv, ArgumentsOK
<1>4. arg_file_idxs[o] \in 1 .. Len(args)
  BY <1>1, <1>2, <1>3
<1> QED BY <1>1, <1>4

(* What main leaves alone while it looks at an option. *)
Looks ==
  /\ stage = "options" /\ NextOption
  /\ UNCHANGED <<scenario, a_idx, arg_file_idxs>>

LEMMA Unread ==
  ASSUME Looks
  PROVE  /\ args' = args /\ (ArgumentsOK' <=> ArgumentsOK)
         /\ \A k : LastMentions(k)' <=> LastMentions(k)
<1>1. args' = args /\ arg_file_idxs' = arg_file_idxs BY DEF Looks, args
<1>2. ArgumentsOK' <=> ArgumentsOK BY <1>1 DEF ArgumentsOK, IsOption
<1>3. \A o, k : MentionsBefore(o, k)' = MentionsBefore(o, k)
  BY <1>1, Zenon DEF MentionsBefore
<1>4. \A k : LastMentions(k)' <=> LastMentions(k)
  BY <1>1, <1>3, Zenon DEF LastMentions
<1> QED BY <1>1, <1>2, <1>4

LEMMA DoneNext ==
  ASSUME TypeInv, Looks
  PROVE  /\ InMain
         /\ o_idx' \in Options
         /\ \A o \in Options : Done(o)' <=> Done(o) \/ o = o_idx
         /\ ~Done(o_idx) /\ ~Done(arg_option_cnt)
<1>1. o_idx \in 1 .. 7 /\ arg_option_cnt = 7 /\ Options = 1 .. 7
  BY OptionNames DEF TypeInv
<1>2. stage = "options" BY DEF Looks
<1>3. CASE o_idx < arg_option_cnt
  <2>1. o_idx' = o_idx + 1 /\ stage' = "options"
    BY <1>3 DEF Looks, NextOption
  <2> QED BY <1>1, <1>2, <1>3, <2>1 DEF Done, InMain
<1>4. CASE ~(o_idx < arg_option_cnt)
  <2>1. o_idx' = o_idx /\ stage' = "exited" /\ o_idx = 7
    BY <1>1, <1>2, <1>4 DEF Looks, NextOption
  <2> QED BY <1>1, <1>2, <2>1 DEF Done, InMain
<1> QED BY <1>3, <1>4

(* The status goes with whether the option at hand succeeded. *)
LEMMA StatusStep ==
  ASSUME ProgramInv, Looks, NEW option, option = o_idx,
         \/ return_value' = 1 /\ Given /\ ~Succeeded(option)'
         \/ return_value' = return_value /\ (Given => Succeeded(option)'),
         \A o \in Options : Done(o) => (Succeeded(o)' <=> Succeeded(o))
  PROVE  StatusInv'
<1>1. TypeInv /\ StatusInv BY DEF ProgramInv
<1>2. /\ \A o \in Options : Done(o)' <=> Done(o) \/ o = o_idx
      /\ InMain /\ o_idx \in Options /\ arg_file_idxs' = arg_file_idxs
  BY <1>1, DoneNext DEF Looks, TypeInv
<1>3. return_value \in {0, 1} BY <1>1 DEF TypeInv
<1> DEFINE AllWell ==
      \A o \in Options : Done(o) /\ arg_file_idxs[o] # 0 => Succeeded(o)
<1>4. AllWell' <=> AllWell /\ (Given => Succeeded(option)')
  <2>1. AllWell' <=>
          \A o \in Options :
            Done(o)' /\ arg_file_idxs'[o] # 0 => Succeeded(o)'
    BY Zenon
  <2>2. AllWell' <=>
          /\ \A o \in Options : Done(o) /\ arg_file_idxs[o] # 0 => Succeeded(o)'
          /\ arg_file_idxs[o_idx] # 0 => Succeeded(option)'
    BY <1>2, <2>1, Zenon
  <2> QED BY <2>2, Zenon DEF Given
<1>5. return_value = 0 <=> AllWell
  BY <1>1, <1>2, Zenon DEF StatusInv
<1>6. return_value' = 0 <=> AllWell'
  BY <1>3, <1>4, <1>5
<1> QED BY <1>6, Zenon DEF StatusInv

LEMMA OrderStep ==
  ASSUME ProgramInv, Looks,
         parser_exist' = parser_exist \/ o_idx = 1,
         accepted' = accepted \/ o_idx = arg_option_cnt
  PROVE  OrderInv'
<1>1. /\ TypeInv /\ OrderInv BY DEF ProgramInv
<1>2. ArgumentsOK /\ LastMentions(Len(args) + 1) /\ (parser_exist => Done(1))
      /\ (accepted => Done(arg_option_cnt))
  BY <1>1, DoneNext DEF OrderInv
<1>3. 1 \in Options /\ arg_option_cnt \in Options BY OptionNames
<1>4. (parser_exist => Done(1))' /\ (accepted => Done(arg_option_cnt))'
  <2>1. /\ parser_exist' => Done(1)'
        /\ accepted' => Done(arg_option_cnt)'
    BY <1>1, <1>2, <1>3, DoneNext
  <2> QED BY <2>1, Zenon
<1>5. LastMentions(Len(args) + 1)'
  BY <1>2, Unread
<1>6. ArgumentsOK' BY <1>2, Unread
<1> QED BY <1>4, <1>5, <1>6 DEF OrderInv

(* An option that writes no file. *)
LEMMA FilesStep ==
  ASSUME ProgramInv, Looks, files' = files,
         \/ parser_exist' = parser_exist
         \/ o_idx = 1 /\ ~parser_exist,
         \/ o_idx \in {1, arg_option_cnt} \/ ~Given \/ ~parser_exist
         \/ args[arg_file_idxs[o_idx]] \in scenario.locked
  PROVE  FilesInv'
<1>1. TypeInv /\ FilesInv BY DEF ProgramInv
<1>2. /\ \A o \in Options : Done(o)' <=> Done(o) \/ o = o_idx
      /\ InMain /\ args' = args
  BY <1>1, DoneNext, Unread
<1>3. scenario' = scenario /\ arg_file_idxs' = arg_file_idxs
  BY DEF Looks
<1>4. CASE ~parser_exist /\ ~parser_exist'
  BY <1>1, <1>2, <1>3, <1>4 DEF FilesInv
<1>5. CASE o_idx = 1 /\ ~parser_exist /\ parser_exist'
  <2>1. \A n \in DOMAIN Languages : ~Done(n + 1)'
    <3>1. TAKE n \in DOMAIN Languages
    <3>2. n \in 1 .. 5 /\ n + 1 \in Options /\ n + 1 # 1
      BY OptionNames
    <3>3. stage = "options" BY DEF Looks
    <3>4. ~Done(n + 1) BY <1>5, <3>2, <3>3 DEF Done
    <3> QED BY <1>2, <1>5, <3>2, <3>4
  <2>2. \A name : SavedSoFar(name)' = {}
    BY <2>1 DEF SavedSoFar
  <2> QED BY <1>1, <1>2, <1>3, <1>5, <2>2 DEF FilesInv
<1>6. CASE parser_exist /\ parser_exist'
  <2>1. \A name : SavedSoFar(name)' = SavedSoFar(name)
    BY <1>2, <1>3, <1>6, OptionNames DEF SavedSoFar, Given
  <2> QED BY <1>1, <1>2, <1>3, <1>6, <2>1 DEF FilesInv
<1> QED BY <1>1, <1>4, <1>5, <1>6 DEF TypeInv

(* The option at hand is written into a file: its number is the greatest so
   far. *)
LEMMA SaveFilesStep ==
  ASSUME ProgramInv, Looks, Save
  PROVE  FilesInv'
<1>1. /\ TypeInv /\ FilesInv /\ InMain
      /\ stage = "options" /\ parser_exist /\ parser_exist'
  BY DoneNext DEF ProgramInv, Save, Looks
<1>2. /\ \A o \in Options : Done(o)' <=> Done(o) \/ o = o_idx
      /\ args' = args /\ scenario' = scenario
      /\ arg_file_idxs' = arg_file_idxs
  BY <1>1, DoneNext, Unread DEF Looks
<1>3. PICK l \in 1 .. 5 : o_idx = l + 1
  <2>1. o_idx \in 2 .. 6 BY <1>1, OptionNames DEF Save, Saving, TypeInv
  <2>2. o_idx - 1 \in 1 .. 5 /\ o_idx = (o_idx - 1) + 1 BY <2>1
  <2> QED BY <2>2
<1>4. /\ Given /\ Name \notin scenario.locked
      /\ Name = args[arg_file_idxs[l + 1]]
      /\ files' = [files EXCEPT ![Name] = [maker |-> Languages[l],
                                          text |-> EmittedText]]
  <2>1. o_idx - 1 = l BY <1>3
  <2> QED BY <1>3, <2>1 DEF Save, Saving, Name
<1>5. Name \in DOMAIN files
  BY <1>1, <1>4, GivenName, ArgsTyping DEF TypeInv, Given, Name
<1>6. \A n \in 1 .. 5 : (Done(n + 1) => n < l) /\ (Done(n + 1)' <=> Done(n + 1) \/ n = l)
  <2> SUFFICES ASSUME NEW n \in 1 .. 5
               PROVE (Done(n + 1) => n < l) /\ (Done(n + 1)' <=> Done(n + 1) \/ n = l)
    OBVIOUS
  <2>1. n + 1 \in Options /\ (n + 1 = l + 1 <=> n = l)
    BY <1>3, OptionNames
  <2>2. Done(n + 1) => n < l
    BY <1>1, <1>3 DEF Done
  <2>3. Done(n + 1)' <=> Done(n + 1) \/ n + 1 = o_idx
    BY <1>2, <2>1
  <2> QED BY <1>3, <2>1, <2>2, <2>3
<1>7. ASSUME NEW name \in DOMAIN files'
      PROVE  IF SavedSoFar(name)' # {}
               THEN \E n \in SavedSoFar(name)' :
                      /\ files'[name].maker = Languages[n]
                      /\ \A m \in SavedSoFar(name)' : m <= n
               ELSE files'[name] = scenario'.files[name]
  <2>1. DOMAIN files' = DOMAIN files BY <1>4
  <2>2. DOMAIN Languages = 1 .. 5 BY OptionNames
  <2>3. CASE name = Name
    <3>1. l \in SavedSoFar(name)'
      BY <1>2, <1>3, <1>4, <1>6, <2>2, <2>3 DEF SavedSoFar, Given
    <3>2. \A m \in SavedSoFar(name)' : m <= l
      BY <1>6, <2>2 DEF SavedSoFar
    <3>3. files'[name].maker = Languages[l]
      BY <1>4, <1>5, <2>3
    <3> QED BY <3>1, <3>2, <3>3
  <2>4. CASE name # Name
    <3>1. SavedSoFar(name)' = SavedSoFar(name)
      BY <1>2, <1>4, <1>6, <2>2, <2>4 DEF SavedSoFar
    <3>2. files'[name] = files[name] BY <1>4, <2>1, <2>4
    <3> QED BY <1>1, <1>2, <2>1, <3>1, <3>2 DEF FilesInv
  <2> QED BY <2>3, <2>4
<1> QED BY <1>1, <1>7, Zenon DEF FilesInv

LEMMA MainInv ==
  ASSUME ProgramInv,
         \/ NotGiven \/ CannotLoad \/ ParserNotCreated \/ ParserCreated
         \/ CannotSave \/ Save
         \/ NoParserForSource \/ SourceRefused \/ SourceAccepted
  PROVE  ProgramInv'
<1>1. Looks
  BY DEF Looks, NotGiven, CannotLoad, ParserNotCreated, ParserCreated,
         CannotSave, Save, NoParserForSource, SourceRefused, SourceAccepted,
         Fails, AtOption, Saving
<1>2. TypeInv /\ OrderInv /\ InMain /\ o_idx \in Options
  BY <1>1, DoneNext DEF ProgramInv, TypeInv
<1>3. /\ parser_exist => o_idx # 1
      /\ ~accepted
  BY <1>1, <1>2, DoneNext DEF OrderInv
<1>4. PICK option \in Options : option = o_idx BY <1>2
<1>5. /\ arg_option_cnt = 7 /\ scenario' = scenario /\ args' = args
      /\ arg_file_idxs' = arg_file_idxs
  BY <1>1, OptionNames, Unread DEF Looks
<1>6. TypeInv'
  <2>1. return_value' \in {0, 1} /\ DOMAIN files' = DOMAIN files
    BY <1>2
    DEF TypeInv, NotGiven, CannotLoad, ParserNotCreated, ParserCreated,
        CannotSave, Save, NoParserForSource, SourceRefused, SourceAccepted,
        Fails
  <2>2. parser_exist' \in BOOLEAN /\ accepted' \in BOOLEAN
    BY <1>2, Zenon
    DEF TypeInv, NotGiven, CannotLoad, ParserNotCreated, ParserCreated,
        CannotSave, Save, NoParserForSource, SourceRefused, SourceAccepted,
        Fails
  <2>3. a_idx' = a_idx /\ stage' \in {"arguments", "options", "exited"}
    BY <1>1, <1>2 DEF Looks, NextOption
  <2>4. o_idx' \in Options BY <1>1, <1>2, DoneNext
  <2> QED BY <1>2, <1>5, <2>1, <2>2, <2>3, <2>4 DEF TypeInv
<1>7. OrderInv'
  <2>1. /\ parser_exist' = parser_exist \/ o_idx = 1
        /\ accepted' = accepted \/ o_idx = arg_option_cnt
    BY Zenon
    DEF NotGiven, CannotLoad, ParserNotCreated, ParserCreated,
        CannotSave, Save, NoParserForSource, SourceRefused, SourceAccepted,
        Fails, AtOption
  <2> QED BY <1>1, <2>1, OrderStep
<1>8. \A o \in Options : Done(o) => (Succeeded(o)' <=> Succeeded(o))
  <2> SUFFICES ASSUME NEW o \in Options, Done(o)
               PROVE  Succeeded(o)' <=> Succeeded(o)
    OBVIOUS
  <2>1. o # o_idx /\ o # arg_option_cnt /\ o_idx # 1
    <3>1. ~Done(o_idx) /\ ~Done(arg_option_cnt)
      BY <1>1, <1>2, DoneNext
    <3>2. o < o_idx /\ o \in 1 .. 7
      BY <1>1, <1>2, OptionNames DEF Done, Looks
    <3> QED BY <1>2, <3>1, <3>2
  <2>2. parser_exist' = parser_exist
    BY <2>1, Zenon
    DEF NotGiven, CannotLoad, ParserNotCreated, ParserCreated,
        CannotSave, Save, NoParserForSource, SourceRefused, SourceAccepted,
        Fails, AtOption
  <2> QED BY <1>5, <2>1, <2>2, Zenon DEF Succeeded
<1>9. \/ return_value' = 1 /\ Given /\ ~Succeeded(option)'
      \/ return_value' = return_value /\ (Given => Succeeded(option)')
  <2>1. CASE NotGiven
    BY <2>1 DEF NotGiven
  <2>2. CASE CannotLoad \/ ParserNotCreated \/ NoParserForSource \/ SourceRefused
    <3>1. /\ return_value' = 1 /\ Given
          /\ parser_exist' = parser_exist /\ accepted' = accepted
          /\ option = 1 \/ option = arg_option_cnt
      BY <1>4, <2>2, Zenon
      DEF CannotLoad, ParserNotCreated, NoParserForSource, SourceRefused,
          Fails, AtOption
    <3>2. option = 1 => ~parser_exist BY <1>3, <1>4
    <3>3. ~Succeeded(option)'
      BY <1>3, <3>1, <3>2, Zenon DEF Succeeded
    <3> QED BY <3>1, <3>3
  <2>3. CASE ParserCreated
    BY <1>4, <2>3, Zenon DEF ParserCreated, AtOption, Succeeded
  <2>4. CASE CannotSave \/ Save
    <3>1. option # 1 /\ option # arg_option_cnt
      BY <1>4, <1>5, <2>4 DEF CannotSave, Save, Saving
    <3>2. Given /\ Name = args'[arg_file_idxs'[option]]
      BY <1>4, <1>5, <2>4 DEF CannotSave, Save, Saving, Name
    <3>3. CASE CannotSave
      BY <1>5, <3>1, <3>2, <3>3, Zenon DEF CannotSave, Fails, Succeeded
    <3>4. CASE Save
      BY <1>5, <3>1, <3>2, <3>4, Zenon DEF Save, Succeeded
    <3> QED BY <2>4, <3>3, <3>4
  <2>5. CASE SourceAccepted
    <3>1. option # 1 BY <1>4, <1>5, <2>5 DEF SourceAccepted, AtOption
    <3> QED
      BY <1>4, <2>5, <3>1, Zenon DEF SourceAccepted, AtOption, Succeeded
  <2> QED BY <2>1, <2>2, <2>3, <2>4, <2>5
<1>10. StatusInv'
  BY <1>1, <1>4, <1>8, <1>9, StatusStep
<1>11. FilesInv'
  <2>1. CASE Save BY <1>1, <2>1, SaveFilesStep
  <2>2. CASE ~Save
    <3>1. /\ files' = files
          /\ \/ parser_exist' = parser_exist
             \/ o_idx = 1
          /\ \/ o_idx = 1 \/ o_idx = arg_option_cnt \/ ~Given \/ ~parser_exist
             \/ args[arg_file_idxs[o_idx]] \in scenario.locked
      BY <2>2, Zenon
      DEF NotGiven, CannotLoad, ParserNotCreated, ParserCreated,
          CannotSave, NoParserForSource, SourceRefused, SourceAccepted,
          Fails, AtOption, Name
    <3> QED BY <1>1, <1>3, <3>1, FilesStep
  <2> QED BY <2>1, <2>2
<1>12. stage' = "options" \/ InMain'
  <2>1. stage' \in {"options", "exited"} BY <1>1 DEF Looks, NextOption
  <2>2. ArgumentsOK' BY <1>1, <1>2, Unread DEF OrderInv
  <2> QED BY <2>1, <2>2 DEF InMain
<1>13. TakingInv' /\ RefusedInv'
  BY <1>12 DEF TakingInv, RefusedInv, InMain
<1> QED BY <1>6, <1>7, <1>10, <1>11, <1>13 DEF ProgramInv

-----------------------------------------------------------------------------
(* In every state of every run of the program what was taken from the
   arguments, done and noted is consistent with the words read so far. *)
THEOREM ProgramInvariant == ProgramSpec => []ProgramInv
<1>1. Init => ProgramInv BY InitInv
<1>2. ProgramInv /\ [Next]_vars => ProgramInv'
  <2> SUFFICES ASSUME ProgramInv, [Next]_vars PROVE ProgramInv'
    OBVIOUS
  <2>1. CASE TakeOption BY <2>1, TakeOptionInv
  <2>2. CASE BadArguments BY <2>2, BadArgumentsInv
  <2>3. CASE ArgumentsTaken BY <2>3, ArgumentsTakenInv
  <2>4. CASE \/ NotGiven \/ CannotLoad \/ ParserNotCreated \/ ParserCreated
             \/ CannotSave \/ Save
             \/ NoParserForSource \/ SourceRefused \/ SourceAccepted
    BY <2>4, MainInv
  <2>5. CASE UNCHANGED vars
    <3>1. /\ UNCHANGED <<scenario, files, stage, a_idx, o_idx, arg_file_idxs,
                        parser_exist, return_value, accepted>>
          /\ args' = args
      BY <2>5 DEF vars, args
    <3>2. /\ ArgumentsOK' <=> ArgumentsOK
          /\ \A k : LastMentions(k)' <=> LastMentions(k)
      BY <3>1, Zenon DEF ArgumentsOK, IsOption, LastMentions, MentionsBefore
    <3>3. /\ InMain' <=> InMain
          /\ \A o : Done(o)' <=> Done(o)
          /\ \A o : Succeeded(o)' <=> Succeeded(o)
          /\ \A name : SavedSoFar(name)' = SavedSoFar(name)
      BY <3>1, <3>2, Zenon DEF InMain, Done, Succeeded, SavedSoFar
    <3>4. TypeInv' /\ TakingInv' /\ RefusedInv'
      <4>1. TypeInv' BY <3>1, Zenon DEF ProgramInv, TypeInv
      <4>2. RefusedInv'
        BY <3>1, <3>2, Zenon DEF ProgramInv, RefusedInv, Untouched
      <4>3. LastMentions(a_idx) => LastMentions(a_idx)'
        BY <3>1, Zenon DEF LastMentions, MentionsBefore
      <4>4. TakingInv'
        BY <3>1, <4>3, Zenon DEF ProgramInv, TakingInv, Untouched, IsOption
      <4> QED BY <4>1, <4>2, <4>4
    <3>5. OrderInv'
      BY <3>1, <3>2, <3>3, Zenon
      DEF ProgramInv, OrderInv, LastMentions, MentionsBefore
    <3>6. StatusInv' /\ FilesInv'
      BY <3>1, <3>3, Zenon DEF ProgramInv, StatusInv, FilesInv
    <3> QED BY <3>4, <3>5, <3>6 DEF ProgramInv
  <2> QED BY <2>1, <2>2, <2>3, <2>4, <2>5 DEF Next
<1> QED BY <1>1, <1>2, PTL DEF ProgramSpec

(* The words of main are those that Mentions reads. *)
LEMMA ExitedTables ==
  ASSUME ProgramInv, Exited, ArgumentsOK
  PROVE  /\ InMain /\ \A o \in Options : Done(o)
         /\ \A o \in Options :
              /\ AskedFor(arg_option_names[o]) <=> arg_file_idxs[o] # 0
              /\ arg_file_idxs[o] # 0 =>
                   FileFor(arg_option_names[o]) = args[arg_file_idxs[o]]
<1>1. InMain /\ \A o \in Options : Done(o)
  BY DEF Exited, InMain, Done
<1>2. /\ Len(args) \in Nat /\ DOMAIN args = 1 .. Len(args)
  BY ArgsTyping DEF ProgramInv, TypeInv
<1> SUFFICES ASSUME NEW o \in Options
             PROVE  /\ AskedFor(arg_option_names[o]) <=> arg_file_idxs[o] # 0
                    /\ arg_file_idxs[o] # 0 =>
                         FileFor(arg_option_names[o]) = args[arg_file_idxs[o]]
  BY <1>1
<1>3. Mentions(arg_option_names[o]) = MentionsBefore(o, Len(args) + 1)
  BY <1>2 DEF Mentions, MentionsBefore
<1>4. /\ LastMentions(Len(args) + 1) /\ arg_file_idxs[o] \in Nat
  BY <1>1 DEF ProgramInv, TypeInv, OrderInv
<1>5. CASE arg_file_idxs[o] = 0
  BY <1>3, <1>4, <1>5 DEF LastMentions, AskedFor
<1>6. CASE arg_file_idxs[o] # 0
  <2> DEFINE M == Mentions(arg_option_names[o])
             last == arg_file_idxs[o] - 1
             L == CHOOSE i \in M : \A j \in M : j <= i
  <2>1. last \in M /\ \A j \in M : j <= last
    BY <1>3, <1>4, <1>6 DEF LastMentions
  <2>2. L \in M /\ \A j \in M : j <= L
    BY <2>1
  <2>3. \A i \in M : i \in Nat BY <1>2 DEF Mentions
  <2>4. L = last BY <2>1, <2>2, <2>3
  <2>5. FileFor(arg_option_names[o]) = args[1 + L] BY DEF FileFor
  <2> HIDE DEF L
  <2>6. 1 + L = arg_file_idxs[o] BY <1>4, <2>4
  <2> QED BY <1>6, <2>1, <2>5, <2>6 DEF AskedFor
<1> QED BY <1>5, <1>6

(* The exit status tells the truth, whatever the arguments, the files and the
   errors: it is zero exactly if all that was asked for was done. *)
THEOREM ExitStatusTrue == ProgramSpec => []ExitStatus
<1>1. ProgramInv => ExitStatus
  <2> SUFFICES ASSUME ProgramInv, Exited PROVE ExitStatus
    BY DEF ExitStatus
  <2>1. CASE ~ArgumentsOK
    <3>1. return_value = 1 BY <2>1 DEF ProgramInv, RefusedInv, Exited
    <3> QED BY <2>1, <3>1 DEF ExitStatus
  <2>2. CASE ArgumentsOK
    <3>1. /\ InMain /\ \A o \in Options : Done(o)
          /\ \A o \in Options :
               /\ AskedFor(arg_option_names[o]) <=> arg_file_idxs[o] # 0
               /\ arg_file_idxs[o] # 0 =>
                    FileFor(arg_option_names[o]) = args[arg_file_idxs[o]]
      BY <2>2, ExitedTables
    <3>2. /\ arg_option_cnt = 7 /\ Options = 1 .. 7 /\ DOMAIN Languages = 1 .. 5
      BY OptionNames
    <3>3. return_value = 0 <=>
            \A o \in Options : AskedFor(arg_option_names[o]) => Succeeded(o)
      BY <3>1, Zenon DEF ProgramInv, StatusInv
    <3>4. /\ arg_option_names[1] = "--parser_descr"
          /\ arg_option_names[7] = "--source"
      BY DEF arg_option_names
    <3>5. /\ 1 \in Options /\ 7 \in Options
          /\ Succeeded(1) <=> parser_exist
          /\ Succeeded(7) <=> accepted
      BY <3>2 DEF Succeeded
    <3>6. ASSUME NEW n \in DOMAIN Languages
          PROVE  /\ n + 1 \in Options /\ Saved(n) = arg_option_names[n + 1]
                 /\ AskedFor(Saved(n)) =>
                      (Succeeded(n + 1) <=>
                         parser_exist /\ FileFor(Saved(n)) \notin scenario.locked)
      <4>1. n + 1 \in Options /\ n + 1 # 1 /\ n + 1 # arg_option_cnt
        BY <3>2, <3>6, OptionNames
      <4> QED BY <3>1, <4>1, Zenon DEF Saved, Succeeded
    <3>7. \A o \in Options : o = 1 \/ o = 7 \/ \E n \in DOMAIN Languages : o = n + 1
      <4> SUFFICES ASSUME NEW o \in Options, o # 1, o # 7
                   PROVE  \E n \in DOMAIN Languages : o = n + 1
        OBVIOUS
      <4>1. o - 1 \in DOMAIN Languages /\ o = (o - 1) + 1 BY <3>2
      <4> QED BY <4>1
    <3>8. (\A o \in Options : AskedFor(arg_option_names[o]) => Succeeded(o)) <=>
            /\ AskedFor("--parser_descr") => parser_exist
            /\ \A n \in DOMAIN Languages :
                 AskedFor(Saved(n)) =>
                   parser_exist /\ FileFor(Saved(n)) \notin scenario.locked
            /\ AskedFor("--source") => accepted
      <4> DEFINE Good(o) == AskedFor(arg_option_names[o]) => Succeeded(o)
      <4>1. Good(1) <=> (AskedFor("--parser_descr") => parser_exist)
        BY <3>4, <3>5
      <4>2. Good(7) <=> (AskedFor("--source") => accepted)
        BY <3>4, <3>5
      <4>3. ASSUME NEW n \in DOMAIN Languages
            PROVE  Good(n + 1) <=>
                     (AskedFor(Saved(n)) =>
                        parser_exist /\ FileFor(Saved(n)) \notin scenario.locked)
        BY <3>6
      <4>4. (\A o \in Options : Good(o)) <=>
              Good(1) /\ Good(7) /\ \A n \in DOMAIN Languages : Good(n + 1)
        <5> HIDE DEF Good
        <5> QED BY <3>5, <3>6, <3>7
      <4> QED BY <4>1, <4>2, <4>3, <4>4
    <3> QED BY <2>2, <3>3, <3>8, Zenon DEF ExitStatus
  <2> QED BY <2>1, <2>2
<1> QED BY <1>1, ProgramInvariant, PTL

(* Every file holds what it has to hold in the end, whatever the order of the
   words and however many of them name it. *)
THEOREM FilesAreExact == ProgramSpec => []FilesExact
<1>1. ProgramInv => FilesExact
  <2> SUFFICES ASSUME ProgramInv, Exited, NEW name \in DOMAIN files
               PROVE  IF parser_exist /\ SavedIn(name) # {}
                        THEN files[name].maker =
                               Languages[CHOOSE n \in SavedIn(name) :
                                           \A m \in SavedIn(name) : m <= n]
                        ELSE files[name] = scenario.files[name]
    BY DEF FilesExact
  <2>1. CASE ~ArgumentsOK
    BY <2>1, Zenon DEF ProgramInv, RefusedInv, Exited, Untouched
  <2>2. CASE ArgumentsOK
    <3>1. InMain /\ SavedSoFar(name) = SavedIn(name)
      <4>1. \A n \in DOMAIN Languages : n + 1 \in Options BY OptionNames
      <4> QED BY <2>2, <4>1, ExitedTables, Zenon DEF SavedSoFar, SavedIn, Saved
    <3>2. CASE parser_exist /\ SavedIn(name) # {}
      <4> DEFINE S == SavedIn(name)
                 G == CHOOSE n \in S : \A m \in S : m <= n
      <4>1. PICK n \in S : /\ files[name].maker = Languages[n]
                           /\ \A m \in S : m <= n
        BY <3>1, <3>2, Zenon DEF ProgramInv, FilesInv
      <4>2. G \in S /\ \A m \in S : m <= G BY <4>1
      <4>3. \A m \in S : m \in 1 .. 5 BY OptionNames DEF SavedIn
      <4>4. G = n BY <4>1, <4>2, <4>3
      <4> QED BY <3>2, <4>1, <4>4
    <3>3. CASE ~(parser_exist /\ SavedIn(name) # {})
      BY <3>1, <3>3, Zenon DEF ProgramInv, FilesInv
    <3> QED BY <3>2, <3>3
  <2> QED BY <2>1, <2>2
<1> QED BY <1>1, ProgramInvariant, PTL

-----------------------------------------------------------------------------
(* Where an error is shown. *)

Text == Seq(1 .. 255)

LEMMA ShiftsAre ==
  /\ DOMAIN Shifts = 1 .. 7
  /\ Shifts[1] = 4 /\ Shifts[2] = 8 /\ Shifts[3] = 16 /\ Shifts[7] = 256
BY DEF Shifts

(* A lead of a well-formed character is read with as many bytes as it says. *)
LEMMA TrailingIs ==
  ASSUME NEW b \in 128 .. 255
  PROVE  /\ Trailing(b) \in 1 .. 7
         /\ LeadLength(b) > 0 => LeadLength(b) = 1 + Trailing(b)
<1> DEFINE K == {k \in 1 .. 7 : ShiftedOut(b, k)}
<1>1. 7 \in K
  BY ShiftsAre DEF ShiftedOut
<1>2. PICK k \in K : \A j \in K : k <= j
  BY <1>1, LeastNat
<1>3. /\ Trailing(b) \in 1 .. 7
      /\ ShiftedOut(b, Trailing(b))
      /\ \A j \in 1 .. Trailing(b) - 1 : ~ShiftedOut(b, j)
  <2>1. \A j \in 1 .. k - 1 : ~ShiftedOut(b, j)
    BY <1>2
  <2> QED
    BY <1>2, <2>1, ShiftsAre DEF Trailing
<1>4. PICK t : t = Trailing(b)
  OBVIOUS
<1>5. CASE b \in 192 .. 223
  <2>1. ShiftedOut(b, 1)
    BY <1>5, ShiftsAre DEF ShiftedOut
  <2>2. LeadLength(b) = 2
    BY <1>5 DEF LeadLength
  <2> QED
    BY <1>3, <2>1, <2>2
<1>6. CASE b \in 224 .. 239
  <2>1. ~ShiftedOut(b, 1) /\ ShiftedOut(b, 2)
    BY <1>6, ShiftsAre DEF ShiftedOut
  <2>2. LeadLength(b) = 3
    BY <1>6 DEF LeadLength
  <2> QED
    BY <1>3, <2>1, <2>2
<1>7. CASE b \in 240 .. 247
  <2>1. ~ShiftedOut(b, 1) /\ ~ShiftedOut(b, 2) /\ ShiftedOut(b, 3)
    BY <1>7, ShiftsAre DEF ShiftedOut
  <2>2. LeadLength(b) = 4
    BY <1>7 DEF LeadLength
  <2> QED
    BY <1>3, <2>1, <2>2
<1>8. CASE b \in (128 .. 191) \union (248 .. 255)
  <2>1. LeadLength(b) = 0
    BY <1>8 DEF LeadLength
  <2> QED
    BY <1>3, <2>1
<1> QED
  BY <1>5, <1>6, <1>7, <1>8

LEMMA SeqElements ==
  ASSUME NEW S, NEW s \in Seq(S)
  PROVE  Len(s) \in Nat /\ DOMAIN s = 1 .. Len(s) /\ \A i \in 1 .. Len(s) : s[i] \in S
OBVIOUS

LEMMA BytesRead ==
  ASSUME NEW text \in Text, NEW i \in Nat
  PROVE  /\ Byte(text, i) \in 0 .. 255
         /\ BytesOf(text, i) \in 1 .. 8
         /\ LeadLength(Byte(text, i)) > 0 =>
              LeadLength(Byte(text, i)) = BytesOf(text, i)
<1>1. Byte(text, i) \in 0 .. 255
  <2>1. Len(text) \in Nat /\ \A j \in 1 .. Len(text) : text[j] \in 1 .. 255
    BY SeqElements DEF Text
  <2>2. i < Len(text) => i + 1 \in 1 .. Len(text)
    BY <2>1
  <2>3. i < Len(text) => text[i + 1] \in 0 .. 255
    BY <2>1, <2>2
  <2> QED
    BY <2>3 DEF Byte
<1>2. PICK b : b = Byte(text, i)
  OBVIOUS
<1>3. CASE b <= 127
  BY <1>1, <1>2, <1>3 DEF BytesOf, LeadLength
<1>4. CASE b \in 128 .. 255
  <2>1. BytesOf(text, i) = 1 + Trailing(b)
    BY <1>2, <1>4 DEF BytesOf
  <2> QED
    BY <1>1, <1>2, <1>4, <2>1, TrailingIs
<1> QED
  BY <1>1, <1>2, <1>3, <1>4

(* The sizes from every place on: what PrintSizes says of itself. *)
SizeStep(text, n, g, i) ==
  IF i >= n THEN 0
  ELSE LET rest == g[i + BytesOf(text, i)]
       IN  IF ~Decodable(text, i) \/ rest = Undecodable THEN Undecodable
           ELSE rest + IF Byte(text, i) = Tab THEN c_tabulator_size ELSE 1

Sizes(g, text, n) == g = [i \in 0 .. n + 8 |-> SizeStep(text, n, g, i)]

LEMMA SizesExist ==
  ASSUME NEW text \in Text, NEW n \in Nat
  PROVE  \E g : Sizes(g, text, n)
<1> DEFINE D == 0 .. n + 8
           IsFrom(g, k) ==
             /\ g = [i \in D |-> g[i]]
             /\ \A i \in D : i + k >= n => g[i] = SizeStep(text, n, g, i)
           P == {k \in Nat : \E g : IsFrom(g, k)}
<1>1. 0 \in P
  <2> DEFINE g == [i \in D |-> 0]
  <2>1. \A i \in D : i + 0 >= n => g[i] = SizeStep(text, n, g, i)
    BY DEF SizeStep
  <2>2. IsFrom(g, 0)
    BY <2>1
  <2> HIDE DEF IsFrom
  <2> QED
    BY <2>2
<1>2. ASSUME NEW k \in Nat, k \in P
      PROVE  k + 1 \in P
  <2>1. PICK g : IsFrom(g, k)
    BY <1>2
  <2>2. CASE k >= n
    <3>1. IsFrom(g, k + 1)
      BY <2>1, <2>2
    <3> HIDE DEF IsFrom
    <3> QED
      BY <3>1
  <2>3. CASE k < n
    <3>1. PICK m : m = n - (k + 1)
      OBVIOUS
    <3>2. m \in D /\ m \in Nat /\ m < n
      BY <2>3, <3>1
    <3> DEFINE h == [i \in D |-> IF i = m THEN SizeStep(text, n, g, m) ELSE g[i]]
    <3>3. ASSUME NEW i \in D, i + (k + 1) >= n
          PROVE  h[i] = SizeStep(text, n, h, i)
      <4>1. i \in Nat /\ i >= m
        BY <3>1, <3>3
      <4>2. PICK c : c = BytesOf(text, i)
        OBVIOUS
      <4>3. c \in 1 .. 8
        BY <4>1, <4>2, BytesRead
      <4>4. i < n => i + c \in D /\ i + c # m
        BY <3>1, <3>2, <4>1, <4>3
      <4>5. i < n => h[i + c] = g[i + c]
        BY <4>4
      <4>6. SizeStep(text, n, h, i) = SizeStep(text, n, g, i)
        BY <4>1, <4>2, <4>5 DEF SizeStep
      <4>7. CASE i = m
        BY <3>2, <4>6, <4>7
      <4>8. CASE i # m
        <5>1. i + k >= n
          BY <3>1, <3>2, <4>1, <4>8
        <5> QED
          BY <2>1, <4>6, <4>8, <5>1
      <4> QED
        BY <4>7, <4>8
    <3>4. IsFrom(h, k + 1)
      BY <3>3
    <3> HIDE DEF IsFrom, h
    <3> QED
      BY <3>4
  <2> QED
    BY <2>2, <2>3
<1>3. \A k \in Nat : k \in P
  <2> HIDE DEF P
  <2> QED
    BY <1>1, <1>2, SetInduction
<1>4. PICK g : IsFrom(g, n)
  BY <1>3
<1>5. \A i \in D : g[i] = SizeStep(text, n, g, i)
  BY <1>4
<1>6. g = [i \in D |-> SizeStep(text, n, g, i)]
  BY <1>4, <1>5
<1> QED
  BY <1>6 DEF Sizes

LEMMA SizesAre ==
  ASSUME NEW text \in Text, NEW n \in Nat, NEW i \in 0 .. n + 8
  PROVE  PrintSizes(text, n)[i] = SizeStep(text, n, PrintSizes(text, n), i)
<1> DEFINE g == CHOOSE g : Sizes(g, text, n)
<1>1. Sizes(g, text, n)
  BY SizesExist
<1>2. PrintSizes(text, n) = g
  BY DEF PrintSizes, Sizes, SizeStep
<1> HIDE DEF g
<1>3. PICK p : p = PrintSizes(text, n)
  OBVIOUS
<1>4. p = [j \in 0 .. n + 8 |-> SizeStep(text, n, p, j)]
  BY <1>1, <1>2, <1>3 DEF Sizes
<1>5. [j \in 0 .. n + 8 |-> SizeStep(text, n, p, j)][i] = SizeStep(text, n, p, i)
  OBVIOUS
<1> QED
  BY <1>3, <1>4, <1>5

(* The characters and the tabulators of s from place i on. *)
CharsFrom(s, i) == {j \in DOMAIN s : i <= j /\ ~IsContinuation(s[j])}
TabsFrom(s, i) == {j \in DOMAIN s : i <= j /\ s[j] = Tab}

ColumnsFrom(s, i) ==
  Cardinality(CharsFrom(s, i)) + (c_tabulator_size - 1) * Cardinality(TabsFrom(s, i))

LEMMA FromFinite ==
  ASSUME NEW s \in Text, NEW i \in Nat
  PROVE  /\ IsFiniteSet(CharsFrom(s, i)) /\ Cardinality(CharsFrom(s, i)) \in Nat
         /\ IsFiniteSet(TabsFrom(s, i)) /\ Cardinality(TabsFrom(s, i)) \in Nat
         /\ ColumnsFrom(s, i) \in Nat
<1>1. Len(s) \in Nat /\ DOMAIN s = 1 .. Len(s)
  BY DEF Text
<1>2. IsFiniteSet(1 .. Len(s))
  BY <1>1, FS_Interval
<1>3. CharsFrom(s, i) \in SUBSET (1 .. Len(s)) /\ TabsFrom(s, i) \in SUBSET (1 .. Len(s))
  BY <1>1 DEF CharsFrom, TabsFrom
<1>4. IsFiniteSet(CharsFrom(s, i)) /\ IsFiniteSet(TabsFrom(s, i))
  BY <1>2, <1>3, FS_Subset
<1>5. Cardinality(CharsFrom(s, i)) \in Nat /\ Cardinality(TabsFrom(s, i)) \in Nat
  BY <1>4, FS_CardinalityType
<1>6. ColumnsFrom(s, i) \in Nat
  BY <1>5 DEF ColumnsFrom, c_tabulator_size
<1> QED
  BY <1>4, <1>5, <1>6

LEMMA ColumnsFromOne ==
  ASSUME NEW s \in Text
  PROVE  Columns(s) = ColumnsFrom(s, 1)
<1>1. Len(s) \in Nat /\ DOMAIN s = 1 .. Len(s)
  BY DEF Text
<1>2. CharsFrom(s, 1) = {i \in DOMAIN s : ~IsContinuation(s[i])}
  BY <1>1 DEF CharsFrom
<1>3. TabsFrom(s, 1) = {i \in DOMAIN s : s[i] = Tab}
  BY <1>1 DEF TabsFrom
<1> QED
  BY <1>2, <1>3 DEF Columns, ColumnsFrom

(* One character of c bytes. *)
LEMMA OneCharacter ==
  ASSUME NEW s \in Text, NEW i \in DOMAIN s, NEW c \in 1 .. 8,
         ~IsContinuation(s[i]),
         \A j \in i + 1 .. i + c - 1 : j \in DOMAIN s /\ IsContinuation(s[j])
  PROVE  ColumnsFrom(s, i) = ColumnsFrom(s, i + c) +
                             IF s[i] = Tab THEN c_tabulator_size ELSE 1
<1>1. Len(s) \in Nat /\ DOMAIN s = 1 .. Len(s) /\ i \in Nat /\ i + c \in Nat
  BY DEF Text
<1>2. ~IsContinuation(Tab)
  BY DEF IsContinuation, Tab
<1>3. CharsFrom(s, i) = CharsFrom(s, i + c) \union {i} /\ i \notin CharsFrom(s, i + c)
  BY <1>1 DEF CharsFrom
<1>4. /\ s[i] = Tab => TabsFrom(s, i) = TabsFrom(s, i + c) \union {i}
      /\ s[i] # Tab => TabsFrom(s, i) = TabsFrom(s, i + c)
      /\ i \notin TabsFrom(s, i + c)
  BY <1>1, <1>2 DEF TabsFrom
<1>5. Cardinality(CharsFrom(s, i)) = Cardinality(CharsFrom(s, i + c)) + 1
  BY <1>1, <1>3, FromFinite, FS_AddElement
<1>6. /\ s[i] = Tab => Cardinality(TabsFrom(s, i)) = Cardinality(TabsFrom(s, i + c)) + 1
      /\ s[i] # Tab => Cardinality(TabsFrom(s, i)) = Cardinality(TabsFrom(s, i + c))
  BY <1>1, <1>4, FromFinite, FS_AddElement
<1>7. /\ Cardinality(CharsFrom(s, i + c)) \in Nat
      /\ Cardinality(TabsFrom(s, i + c)) \in Nat
  BY <1>1, FromFinite
<1> QED
  BY <1>5, <1>6, <1>7 DEF ColumnsFrom, c_tabulator_size

(* A well-formed text is cut into characters. *)
CutAt(s, starts) ==
  \A i \in DOMAIN s :
    IF IsContinuation(s[i])
      THEN \E k \in starts : k < i /\ i < k + LeadLength(s[k]) /\ i \notin starts
      ELSE /\ i \in starts /\ LeadLength(s[i]) > 0
           /\ \A j \in i + 1 .. i + LeadLength(s[i]) - 1 :
                j \in DOMAIN s /\ IsContinuation(s[j])

(* Behind a character there is the next one. *)
LEMMA NextStart ==
  ASSUME NEW s \in Text, NEW starts \in SUBSET DOMAIN s, CutAt(s, starts),
         NEW i \in starts
  PROVE  /\ ~IsContinuation(s[i]) /\ LeadLength(s[i]) \in 1 .. 4
         /\ \A j \in i + 1 .. i + LeadLength(s[i]) - 1 :
              j \in DOMAIN s /\ IsContinuation(s[j])
         /\ i + LeadLength(s[i]) <= Len(s) + 1
         /\ i + LeadLength(s[i]) = Len(s) + 1 \/ i + LeadLength(s[i]) \in starts
<1>1. Len(s) \in Nat /\ DOMAIN s = 1 .. Len(s) /\ i \in DOMAIN s
  BY DEF Text
<1>2. ~IsContinuation(s[i]) /\ LeadLength(s[i]) > 0
      /\ \A j \in i + 1 .. i + LeadLength(s[i]) - 1 :
           j \in DOMAIN s /\ IsContinuation(s[j])
  BY <1>1 DEF CutAt
<1>3. PICK c : c = LeadLength(s[i])
  OBVIOUS
<1>4. c \in 1 .. 4
  BY <1>2, <1>3 DEF LeadLength
<1>5. i + c <= Len(s) + 1
  BY <1>1, <1>2, <1>3, <1>4
<1>6. ASSUME i + c \in DOMAIN s, IsContinuation(s[i + c])
      PROVE  FALSE
  <2>1. PICK k \in starts : k < i + c /\ i + c < k + LeadLength(s[k])
    BY <1>6 DEF CutAt
  <2>2. k \in DOMAIN s /\ ~IsContinuation(s[k])
    BY <1>1 DEF CutAt
  <2>3. \A j \in k + 1 .. k + LeadLength(s[k]) - 1 : IsContinuation(s[j])
    BY <2>2 DEF CutAt
  <2>4. k # i
    BY <1>1, <1>3, <1>4, <2>1
  <2>5. ~(i < k)
    BY <1>1, <1>2, <1>3, <1>4, <2>1, <2>2
  <2>6. PICK d : d = LeadLength(s[k])
    OBVIOUS
  <2>7. d \in 0 .. 4
    BY <2>6 DEF LeadLength
  <2>8. i \in k + 1 .. k + d - 1
    BY <1>1, <1>4, <2>1, <2>2, <2>4, <2>5, <2>6, <2>7
  <2> QED
    BY <1>2, <2>3, <2>6, <2>8
<1>7. i + c \in DOMAIN s => i + c \in starts
  BY <1>6 DEF CutAt
<1> QED
  BY <1>1, <1>2, <1>3, <1>4, <1>5, <1>7

(* The print size of a well-formed text that begins behind b bytes. *)
LEMMA SizeIsColumns ==
  ASSUME NEW text \in Text, NEW b \in Nat, NEW n \in Nat, b <= n, n <= Len(text),
         WellFormed(SubSeq(text, b + 1, n))
  PROVE  PrintSizes(text, n)[b] = Columns(SubSeq(text, b + 1, n))
<1>1. PICK s, m : s = SubSeq(text, b + 1, n) /\ m = n - b
  OBVIOUS
<1>2. /\ m \in Nat /\ n = b + m /\ s \in Text /\ Len(s) = m /\ DOMAIN s = 1 .. m
      /\ Len(text) \in Nat
      /\ \A i \in 1 .. m : s[i] = Byte(text, b + i - 1)
  <2>1. m \in Nat /\ n = b + m /\ Len(text) \in Nat
    BY <1>1 DEF Text
  <2>2. /\ s \in Seq(1 .. 255) /\ Len(s) = m /\ DOMAIN s = 1 .. m
        /\ \A i \in 1 .. m : s[i] = text[b + i]
    <3>1. text \in Seq(1 .. 255) /\ b + 1 \in 1 .. Len(text) + 1 /\ n \in 0 .. Len(text)
      BY <2>1 DEF Text
    <3>2. \A i \in b + 1 .. n : i \in 1 .. Len(text)
      BY <2>1
    <3>3. s \in Seq(1 .. 255)
      <4>1. \A i \in b + 1 .. n : text[i] \in 1 .. 255
        BY <3>1, <3>2, SeqElements
      <4> QED
        BY <1>1, <4>1, SubSeqProperties
    <3>4. Len(s) = m /\ \A i \in 1 .. m : s[i] = text[b + i]
      BY <1>1, <2>1, <3>1
    <3> QED
      BY <2>1, <3>3, <3>4
  <2>4. \A i \in 1 .. m : Byte(text, b + i - 1) = text[b + i]
    BY <2>1 DEF Byte
  <2> QED
    BY <2>1, <2>2, <2>4 DEF Text
<1>3. PICK starts \in SUBSET DOMAIN s : CutAt(s, starts)
  BY <1>1 DEF WellFormed, CutAt
<1>4. PICK size : size = PrintSizes(text, n)
  OBVIOUS
<1>5. \A i \in 0 .. n + 8 : size[i] = SizeStep(text, n, size, i)
  BY <1>2, <1>4, SizesAre
<1>6. 1 \in starts \/ m = 0
  BY <1>2, <1>3 DEF CutAt
<1> DEFINE Good(i) == size[b + i - 1] = ColumnsFrom(s, i)
           P == {k \in Nat : \A i \in 1 .. m + 1 :
                   m + 1 - i <= k /\ (i = m + 1 \/ i \in starts) => Good(i)}
<1>7. Good(m + 1)
  <2>1. CharsFrom(s, m + 1) = {} /\ TabsFrom(s, m + 1) = {}
    BY <1>2 DEF CharsFrom, TabsFrom
  <2>2. ColumnsFrom(s, m + 1) = 0
    <3>1. Cardinality(CharsFrom(s, m + 1)) = 0 /\ Cardinality(TabsFrom(s, m + 1)) = 0
      BY <2>1, FS_EmptySet
    <3> QED
      BY <3>1 DEF ColumnsFrom, c_tabulator_size
  <2>3. size[n] = 0
    BY <1>2, <1>5 DEF SizeStep
  <2> QED
    BY <1>2, <2>2, <2>3
<1>8. 0 \in P
  <2> HIDE DEF Good
  <2> QED
    BY <1>2, <1>7
<1>9. ASSUME NEW k \in Nat, k \in P
      PROVE  k + 1 \in P
  <2>1. ASSUME NEW i \in starts, m + 1 - i <= k + 1
        PROVE  Good(i)
    <3>1. PICK c : c = LeadLength(s[i])
      OBVIOUS
    <3>2. /\ i \in 1 .. m /\ ~IsContinuation(s[i]) /\ c \in 1 .. 4
          /\ \A j \in i + 1 .. i + c - 1 : j \in DOMAIN s /\ IsContinuation(s[j])
          /\ i + c <= m + 1 /\ (i + c = m + 1 \/ i + c \in starts)
      BY <1>2, <1>3, <3>1, NextStart
    <3>3. Good(i + c)
      <4> HIDE DEF Good
      <4> QED
        BY <1>2, <1>9, <2>1, <3>2
    <3>4. PICK p : p = b + i - 1
      OBVIOUS
    <3>5. p \in Nat /\ p < n /\ p \in 0 .. n + 8 /\ p + c = b + (i + c) - 1
      BY <1>2, <3>2, <3>4
    <3>6. Byte(text, p) = s[i]
      BY <1>2, <3>2, <3>4
    <3>7. BytesOf(text, p) = c
      BY <3>1, <3>2, <3>5, <3>6, BytesRead
    <3>8. Decodable(text, p)
      <4>1. ASSUME NEW j \in p + 2 .. p + c - 1
            PROVE  IsContinuation(Byte(text, j))
        <5>1. PICK q : q = j - b + 1
          OBVIOUS
        <5>2. q \in i + 1 .. i + c - 1 /\ b + q - 1 = j
          BY <3>2, <3>4, <5>1
        <5>3. q \in 1 .. m /\ IsContinuation(s[q])
          BY <1>2, <3>2, <5>2
        <5> QED
          BY <1>2, <5>2, <5>3
      <4> QED
        BY <3>7, <4>1 DEF Decodable
    <3>9. size[p + c] = ColumnsFrom(s, i + c) /\ ColumnsFrom(s, i + c) \in Nat
      <4>1. i + c \in Nat
        BY <3>2
      <4> QED
        BY <1>2, <3>3, <3>5, <4>1, FromFinite
    <3>10. size[p] = ColumnsFrom(s, i + c) + IF s[i] = Tab THEN c_tabulator_size ELSE 1
      <4>1. size[p + c] # Undecodable
        BY <3>9 DEF Undecodable
      <4>2. size[p] = SizeStep(text, n, size, p)
        BY <1>5, <3>5
      <4>3. SizeStep(text, n, size, p) =
              size[p + c] + IF Byte(text, p) = Tab THEN c_tabulator_size ELSE 1
        BY <3>5, <3>7, <3>8, <4>1 DEF SizeStep
      <4> QED
        BY <3>6, <3>9, <4>2, <4>3
    <3>11. ColumnsFrom(s, i) = ColumnsFrom(s, i + c) +
                               IF s[i] = Tab THEN c_tabulator_size ELSE 1
      <4>1. i \in DOMAIN s /\ c \in 1 .. 8
        BY <1>2, <3>2
      <4> QED
        BY <1>2, <3>2, <4>1, OneCharacter
    <3> QED
      BY <3>4, <3>10, <3>11
  <2> HIDE DEF Good
  <2> QED
    BY <1>7, <2>1
<1>10. \A k \in Nat : k \in P
  <2> HIDE DEF P
  <2> QED
    BY <1>8, <1>9, SetInduction
<1>11. Good(1)
  <2>1. m \in P
    BY <1>2, <1>10
  <2> HIDE DEF Good
  <2> QED
    BY <1>2, <1>6, <2>1
<1>12. Columns(s) = ColumnsFrom(s, 1)
  BY <1>2, ColumnsFromOne
<1> QED
  BY <1>1, <1>2, <1>4, <1>11, <1>12

(* The greatest of some of the numbers up to n. *)
LEMMA GreatestUpTo ==
  ASSUME NEW n \in Nat, NEW S \in SUBSET (0 .. n), S # {}
  PROVE  \E x \in S : \A y \in S : y <= x
<1> DEFINE D == {n - x : x \in S}
<1>1. D \in SUBSET Nat /\ D # {}
  <2>1. \A x \in S : x \in 0 .. n
    OBVIOUS
  <2>2. \A x \in S : n - x \in Nat
    BY <2>1
  <2> QED
    BY <2>2
<1>2. PICK d \in D : \A e \in D : d <= e
  <2> HIDE DEF D
  <2> QED
    BY <1>1, LeastNat
<1>3. PICK x \in S : d = n - x
  OBVIOUS
<1>4. \A y \in S : n - y \in D
  OBVIOUS
<1> HIDE DEF D
<1> QED
  BY <1>2, <1>3, <1>4

(* The line around a position that is no new line. *)
LEMMA BeginOfLine ==
  ASSUME NEW text \in Text, NEW pos \in 0 .. Len(text), Byte(text, pos) # NewLine,
         NEW b, b = get_character_line_begin(text, pos)
  PROVE  /\ b \in 0 .. pos
         /\ b = 0 \/ Byte(text, b - 1) = NewLine
         /\ \A i \in b .. pos : Byte(text, i) # NewLine
<1> DEFINE before == NewLinesIn(text, 0, pos)
           last == CHOOSE i \in before : \A j \in before : j <= i
<1>1. /\ pos \in Nat
      /\ before \in SUBSET (0 .. pos) /\ pos \notin before
      /\ \A i \in 0 .. pos : Byte(text, i) = NewLine <=> i \in before
  BY DEF NewLinesIn, Text
<1>2. CASE before = {}
  <2>1. b = 0
    BY <1>2 DEF get_character_line_begin
  <2> QED
    BY <1>1, <1>2, <2>1
<1>3. CASE before # {}
  <2>1. \E x \in before : \A y \in before : y <= x
    <3> HIDE DEF before
    <3> QED
      BY <1>1, <1>3, GreatestUpTo
  <2>2. last \in before /\ \A y \in before : y <= last
    <3> HIDE DEF before
    <3> QED
      BY <2>1
  <2>3. b = 1 + last
    BY <1>3 DEF get_character_line_begin
  <2> HIDE DEF before, last
  <2>4. last \in 0 .. pos - 1
    BY <1>1, <2>2
  <2>5. \A i \in b .. pos : i \notin before
    BY <2>2, <2>3, <2>4
  <2>6. b - 1 = last
    BY <2>3, <2>4
  <2>7. Byte(text, last) = NewLine
    BY <1>1, <2>2
  <2> QED
    BY <1>1, <2>3, <2>4, <2>5, <2>6, <2>7
<1> QED
  BY <1>2, <1>3

LEMMA EndOfLine ==
  ASSUME NEW text \in Text, NEW pos \in 0 .. Len(text),
         NEW e, e = get_character_line_end(text, pos)
  PROVE  /\ e \in pos .. Len(text)
         /\ e = Len(text) \/ Byte(text, e) = NewLine
         /\ \A i \in pos .. e - 1 : Byte(text, i) # NewLine
<1>1. Len(text) \in Nat /\ pos \in Nat
  BY DEF Text
<1> DEFINE Ends == {i \in pos .. Len(text) : i = Len(text) \/ Byte(text, i) = NewLine}
           Is(x) == /\ x = Len(text) \/ Byte(text, x) = NewLine
                    /\ NewLinesIn(text, pos, x - 1) = {}
<1>2. Ends \in SUBSET Nat /\ Len(text) \in Ends
  BY <1>1
<1>3. PICK x \in Ends : \A y \in Ends : x <= y
  <2> HIDE DEF Ends
  <2> QED
    BY <1>2, LeastNat
<1>4. x \in pos .. Len(text) /\ Is(x)
  <2>1. \A i \in pos .. x - 1 : i \notin Ends /\ i \in pos .. Len(text)
    BY <1>1, <1>3
  <2>2. NewLinesIn(text, pos, x - 1) = {}
    BY <2>1 DEF NewLinesIn
  <2> QED
    BY <1>3, <2>2
<1>5. e \in pos .. Len(text) /\ Is(e)
  <2>1. e = CHOOSE z \in pos .. Len(text) : Is(z)
    BY DEF get_character_line_end
  <2> HIDE DEF Is
  <2> QED
    BY <1>4, <2>1
<1> QED
  BY <1>5 DEF NewLinesIn

(* As many new lines stand in front of a place, whether counted from zero or
   from one. *)
LEMMA NewLinesBefore ==
  ASSUME NEW text \in Text, NEW b \in Nat, NEW n \in Nat, b <= n, n <= Len(text),
         \A i \in b .. n : Byte(text, i) # NewLine
  PROVE  Cardinality(NewLinesIn(text, 0, IF n = 0 THEN 0 ELSE n - 1)) =
           Cardinality({i \in 1 .. b : text[i] = NewLine})
<1> DEFINE S == {i \in 1 .. b : text[i] = NewLine}
           T == NewLinesIn(text, 0, IF n = 0 THEN 0 ELSE n - 1)
           f == [i \in S |-> i - 1]
<1>1. Len(text) \in Nat
  BY DEF Text
<1>2. \A i \in Nat : i < Len(text) => Byte(text, i) = text[i + 1]
  BY DEF Byte
<1>3. T = {i \in 0 .. b - 1 : text[i + 1] = NewLine}
  <2>1. ASSUME NEW i \in T
        PROVE  i \in 0 .. b - 1 /\ text[i + 1] = NewLine
    <3>1. i \in Nat /\ i <= n /\ Byte(text, i) = NewLine
      BY <2>1 DEF NewLinesIn
    <3>2. i < b
      BY <3>1
    <3> QED
      BY <1>1, <1>2, <3>1, <3>2
  <2>2. ASSUME NEW i \in 0 .. b - 1, text[i + 1] = NewLine
        PROVE  i \in T
    <3>1. Byte(text, i) = NewLine
      BY <1>1, <1>2, <2>2
    <3> QED
      BY <3>1 DEF NewLinesIn
  <2> QED
    BY <2>1, <2>2
<1>4. IsFiniteSet(S)
  <2>1. IsFiniteSet(1 .. b)
    BY FS_Interval
  <2> QED
    BY <2>1, FS_Subset
<1>5. f \in Bijection(S, T)
  <2>1. \A i \in S : i - 1 \in T
    BY <1>3
  <2>2. \A i, j \in S : i - 1 = j - 1 => i = j
    OBVIOUS
  <2>3. \A t \in T : t + 1 \in S /\ (t + 1) - 1 = t
    BY <1>3
  <2> HIDE DEF S, T
  <2>4. f \in [S -> T]
    BY <2>1
  <2>5. f \in Injection(S, T)
    BY <2>2, <2>4 DEF Injection, IsInjective
  <2>6. f \in Surjection(S, T)
    BY <2>3, <2>4 DEF Surjection
  <2> QED
    BY <2>5, <2>6 DEF Bijection
<1>6. ExistsBijection(S, T)
  BY <1>5 DEF ExistsBijection
<1> HIDE DEF S, T, f
<1>7. Cardinality(T) = Cardinality(S)
  BY <1>4, <1>6, FS_Bijection
<1> QED
  BY <1>7 DEF S, T

(* Both kinds of report show the position they are made of. *)
LEMMA ReportShows ==
  ASSUME NEW text \in Text, NEW pos \in 0 .. Len(text), Byte(text, pos) # NewLine,
         NEW report \in {print_error_show_line(text, pos), print_error_line(text, pos)}
  PROVE  ShowsPosition(report, text, pos)
<1>1. PICK b, e : /\ b = get_character_line_begin(text, pos)
                  /\ e = get_character_line_end(text, pos)
  OBVIOUS
<1>2. /\ b \in 0 .. pos /\ (b = 0 \/ Byte(text, b - 1) = NewLine)
      /\ \A i \in b .. pos : Byte(text, i) # NewLine
  BY <1>1, BeginOfLine
<1>3. /\ e \in pos .. Len(text) /\ (e = Len(text) \/ Byte(text, e) = NewLine)
      /\ \A i \in pos .. e - 1 : Byte(text, i) # NewLine
  BY <1>1, EndOfLine
<1>4. Len(text) \in Nat /\ pos \in Nat /\ b \in Nat /\ e \in Nat
  BY <1>2, <1>3 DEF Text
<1>5. \A i \in 1 .. Len(text) : text[i] = Byte(text, i - 1)
  BY <1>4 DEF Byte
<1>6. IsLine(text, b + 1, e)
  <2>1. b = 0 \/ text[b] = NewLine
    BY <1>2, <1>4, <1>5
  <2>2. e = Len(text) \/ text[e + 1] = NewLine
    BY <1>3, <1>4, <1>5
  <2>3. ASSUME NEW i \in b + 1 .. e
        PROVE  text[i] # NewLine
    <3>1. i \in 1 .. Len(text) /\ (i - 1 \in b .. pos \/ i - 1 \in pos .. e - 1)
      BY <1>2, <1>3, <1>4
    <3> QED
      BY <1>2, <1>3, <1>5, <3>1
  <2> QED
    BY <1>4, <2>1, <2>2, <2>3 DEF IsLine
<1>7. report.number = 1 + Cardinality({i \in 1 .. b : text[i] = NewLine})
  <2>1. ~(SizeOf(text) <= pos)
    BY <1>4 DEF SizeOf
  <2>2. get_character_line(text, pos) =
          1 + Cardinality(NewLinesIn(text, 0, IF pos = 0 THEN 0 ELSE pos - 1))
    BY <2>1 DEF get_character_line
  <2>3. Cardinality(NewLinesIn(text, 0, IF pos = 0 THEN 0 ELSE pos - 1)) =
          Cardinality({i \in 1 .. b : text[i] = NewLine})
    BY <1>2, <1>4, NewLinesBefore
  <2>4. report.number = get_character_line(text, pos)
    BY DEF print_error_show_line, print_error_line
  <2> QED
    BY <2>2, <2>3, <2>4
<1>8. report.line = SubSeq(text, b + 1, e)
  <2>1. ErrorLine(text, pos) = SubSeq(text, b + 1, e)
    BY <1>1, <1>2, <1>3, <1>4 DEF ErrorLine
  <2>2. report.line = ErrorLine(text, pos)
    BY DEF print_error_show_line, print_error_line
  <2> QED
    BY <2>1, <2>2
<1>9. ASSUME report.caret # NoCaret, WellFormed(SubSeq(text, b + 1, pos))
      PROVE  report.caret = Columns(SubSeq(text, b + 1, pos))
  <2>1. report.caret = get_print_size_between(text, b, pos)
    BY <1>1, <1>9 DEF print_error_show_line, print_error_line
  <2>2. PrintSizes(text, pos)[b] = Columns(SubSeq(text, b + 1, pos))
    BY <1>2, <1>4, <1>9, SizeIsColumns
  <2>3. CASE b < pos
    <3>1. PrintSizes(text, pos)[b] # Undecodable
      <4>1. SubSeq(text, b + 1, pos) \in Text
        <5>1. \A i \in b + 1 .. pos : i \in 1 .. Len(text)
          BY <1>4
        <5>2. \A i \in b + 1 .. pos : text[i] \in 1 .. 255
          BY <5>1, SeqElements DEF Text
        <5> QED
          BY <1>4, <5>2, SubSeqProperties DEF Text
      <4>2. Columns(SubSeq(text, b + 1, pos)) = ColumnsFrom(SubSeq(text, b + 1, pos), 1)
        BY <4>1, ColumnsFromOne
      <4>3. ColumnsFrom(SubSeq(text, b + 1, pos), 1) \in Nat
        BY <4>1, FromFinite
      <4> QED
        BY <2>2, <4>2, <4>3 DEF Undecodable
    <3>2. get_print_size_between(text, b, pos) = PrintSizes(text, pos)[b]
      BY <1>4, <2>3, <3>1 DEF get_print_size_between
    <3> QED
      BY <2>1, <2>2, <3>2
  <2>4. CASE b = pos
    <3>1. PrintSizes(text, pos)[b] = 0
      <4>1. pos \in 0 .. pos + 8
        BY <1>4
      <4>2. PrintSizes(text, pos)[pos] = SizeStep(text, pos, PrintSizes(text, pos), pos)
        BY <1>4, <4>1, SizesAre
      <4> QED
        BY <1>4, <2>4, <4>2 DEF SizeStep
    <3>2. get_print_size_between(text, b, pos) = 0
      BY <1>4, <2>4 DEF get_print_size_between
    <3> QED
      BY <2>1, <2>2, <3>1, <3>2
  <2> QED
    BY <1>2, <1>4, <2>3, <2>4
<1>10. (b + 1) - 1 = b /\ b + 1 \in 1 .. pos + 1 /\ e \in pos .. Len(text)
  BY <1>2, <1>3, <1>4
<1> QED
  BY <1>6, <1>7, <1>8, <1>9, <1>10 DEF ShowsPosition

-----------------------------------------------------------------------------
(* What is told of errors. *)

(* Files are texts, and what was told is made of a text and a position. *)
FileTexts == \A name \in DOMAIN files : files[name].text \in Text

ToldRight(t) ==
  /\ t.text \in Text /\ t.pos \in 0 .. Len(t.text)
  /\ t.report \in {print_error_show_line(t.text, t.pos), print_error_line(t.text, t.pos)}

ReportInv == FileTexts /\ \A t \in shown : ToldRight(t)

LEMMA NamedFile ==
  ASSUME ProgramInv, stage = "options", Given
  PROVE  Name \in DOMAIN files
<1>1. InMain
  BY DEF InMain
<1>2. /\ o_idx \in Options /\ arg_file_idxs[o_idx] # 0 /\ scenario \in Scenarios
      /\ DOMAIN files = DOMAIN scenario.files
  BY DEF ProgramInv, TypeInv, Given
<1>3. arg_file_idxs[o_idx] \in DOMAIN args
  BY <1>1, <1>2, GivenName
<1>4. args[arg_file_idxs[o_idx]] \in DOMAIN scenario.files
  BY <1>2, <1>3, ArgsTyping
<1> QED
  BY <1>2, <1>4 DEF Name

(* What is told of the text of the file at hand. *)
LEMMA TellingKeeps ==
  ASSUME ReportInv, File.text \in Text, files' = files,
         RuleErrorShown \/ RunErrorShown
  PROVE  ReportInv'
<1>1. FileTexts'
  BY DEF ReportInv, FileTexts
<1>2. \A pos \in 0 .. Len(File.text) :
        \A report \in {print_error_show_line(File.text, pos),
                       print_error_line(File.text, pos)} :
          ToldRight(Told(report, pos))
  BY DEF ToldRight, Told
<1>3. \A t \in shown : ToldRight(t)
  BY DEF ReportInv
<1>4. CASE shown' = shown
  BY <1>1, <1>3, <1>4 DEF ReportInv
<1>5. ASSUME NEW pos \in 0 .. Len(File.text),
             NEW report \in {print_error_show_line(File.text, pos),
                             print_error_line(File.text, pos)},
             shown' = shown \union {Told(report, pos)}
      PROVE  \A t \in shown' : ToldRight(t)
  BY <1>2, <1>3, <1>5
<1>6. \A t \in shown' : ToldRight(t)
  BY <1>3, <1>5 DEF RuleErrorShown, RunErrorShown
<1> QED
  BY <1>1, <1>6 DEF ReportInv

LEMMA ReportStep ==
  ASSUME ProgramInv, ReportInv, [Next]_vars
  PROVE  ReportInv'
<1>1. FileTexts /\ \A t \in shown : ToldRight(t)
  BY DEF ReportInv
<1>2. CASE ParserNotCreated \/ SourceRefused
  <2>1. /\ stage = "options" /\ Given /\ files' = files
        /\ RuleErrorShown \/ RunErrorShown
    BY <1>2 DEF ParserNotCreated, SourceRefused, AtOption, Fails
  <2>2. File.text \in Text
    BY <1>1, <2>1, NamedFile DEF File, FileTexts
  <2> QED
    BY <2>1, <2>2, TellingKeeps
<1>3. CASE Save
  <2>1. /\ shown' = shown
        /\ files' = [files EXCEPT ![Name] = [maker |-> Languages[o_idx - 1],
                                             text |-> EmittedText]]
    BY <1>3 DEF Save
  <2>2. EmittedText \in Text
    BY ProgramAssumption DEF Text
  <2>3. \A name \in DOMAIN files' : files'[name].text \in Text
    BY <1>1, <2>1, <2>2 DEF FileTexts
  <2> QED
    BY <1>1, <2>1, <2>3 DEF ReportInv, FileTexts
<1>4. CASE \/ UNCHANGED vars
           \/ TakeOption \/ BadArguments \/ ArgumentsTaken
           \/ NotGiven \/ CannotLoad \/ ParserCreated
           \/ CannotSave \/ NoParserForSource \/ SourceAccepted
  <2>1. shown' = shown /\ files' = files
    BY <1>4 DEF vars, TakeOption, BadArguments, ArgumentsTaken, NotGiven, CannotLoad,
                ParserCreated, CannotSave, NoParserForSource, SourceAccepted, Fails
  <2> QED
    BY <1>1, <2>1 DEF ReportInv, FileTexts
<1> QED
  BY <1>2, <1>3, <1>4 DEF Next

(* Every error is shown where it is, for every text and position: the line and
   its number, and the caret below the character as long as the line is
   well-formed up to it (print_error_show_line, print_error_line,
   parser_code.cc:4625-4666, over string_s, ucl_string.cc:46-349). *)
THEOREM ReportsAreRight == ProgramSpec => []ReportsShowPosition
<1>1. Init => ReportInv
  <2> SUFFICES ASSUME Init
               PROVE  ReportInv
    OBVIOUS
  <2>1. scenario \in Scenarios /\ files = scenario.files /\ shown = {}
    BY DEF Init
  <2>2. \A name \in DOMAIN files : files[name].text \in Text
    BY <2>1, ProgramAssumption DEF IsFile, Text
  <2> QED
    BY <2>1, <2>2 DEF ReportInv, FileTexts
<1>2. ProgramInv /\ ReportInv /\ [Next]_vars => ReportInv'
  BY ReportStep
<1>3. ReportInv => ReportsShowPosition
  BY ReportShows DEF ReportInv, ToldRight, ReportsShowPosition
<1> QED
  BY <1>1, <1>2, <1>3, ProgramInvariant, PTL DEF ProgramSpec

-----------------------------------------------------------------------------
(* The loader of rule files. *)

(* The index of a name that is in a list. *)
LEMMA IndexOfKnown ==
  ASSUME NEW T, NEW s \in Seq(T), NEW name, Known(s, name)
  PROVE  IndexOf(s, name) \in 1 .. Len(s) /\ s[IndexOf(s, name)] = name
<1> DEFINE I == {i \in 1 .. Len(s) : s[i] = name}
<1>1. I \in SUBSET Nat /\ I # {}
  BY DEF Known, ToSet
<1>2. PICK x \in I : \A y \in I : x <= y
  BY <1>1, LeastNat
<1>3. Min(I) \in I
  <2> HIDE DEF I
  <2> QED
    BY <1>1, <1>2 DEF Min
<1>4. IndexOf(s, name) = Min(I)
  BY <1>1 DEF IndexOf, SelectInSeq
<1> QED
  BY <1>3, <1>4

-----------------------------------------------------------------------------
(* KeyOf folds over a name: one step of key_terminals_fa for each piece. *)
KeyStep(at, piece) ==
  IF at.left \/ KeyMove(at.state, piece) = "none"
    THEN [at EXCEPT !.left = TRUE]
    ELSE [at EXCEPT !.state = KeyMove(at.state, piece)]

AtStart == [state |-> "start", left |-> FALSE]

Folding(f, name, n) ==
  f = [s \in SUBSET (1 .. n) |->
         IF s = {} THEN AtStart ELSE KeyStep(f[s \ {Max(s)}], name[Max(s)])]

LEMMA FoldingStep ==
  ASSUME NEW name, NEW n \in Nat, NEW f, Folding(f, name, n),
         NEW s \in SUBSET (1 .. n)
  PROVE  f[s] = IF s = {} THEN AtStart ELSE KeyStep(f[s \ {Max(s)}], name[Max(s)])
<1> DEFINE F(g) == [t \in SUBSET (1 .. n) |->
                      IF t = {} THEN AtStart
                      ELSE KeyStep(g[t \ {Max(t)}], name[Max(t)])]
<1>1. f = F(f)
  BY DEF Folding
<1>2. F(f)[s] = IF s = {} THEN AtStart ELSE KeyStep(f[s \ {Max(s)}], name[Max(s)])
  OBVIOUS
<1> HIDE DEF F
<1> QED
  BY <1>1, <1>2

LEMMA MaxOfInterval ==
  ASSUME NEW n \in Nat, NEW s \in SUBSET (1 .. n + 1), n + 1 \in s
  PROVE  Max(s) = n + 1
<1>1. \E x \in s : \A y \in s : x >= y
  OBVIOUS
<1>2. Max(s) \in s /\ \A y \in s : Max(s) >= y
  BY <1>1 DEF Max
<1>3. Max(s) \in 1 .. n + 1 /\ Max(s) >= n + 1
  BY <1>2
<1> QED
  BY <1>3

LEMMA FoldingExists ==
  ASSUME NEW name, NEW n \in Nat
  PROVE  \E f : Folding(f, name, n)
<1> DEFINE S == {k \in Nat : \E f : Folding(f, name, k)}
<1>1. 0 \in S
  <2> DEFINE g == [s \in SUBSET (1 .. 0) |-> AtStart]
  <2>1. g = [s \in SUBSET (1 .. 0) |->
               IF s = {} THEN AtStart ELSE KeyStep(g[s \ {Max(s)}], name[Max(s)])]
    OBVIOUS
  <2> QED
    BY <2>1 DEF Folding
<1>2. ASSUME NEW k \in Nat, k \in S
      PROVE  k + 1 \in S
  <2>1. PICK f : Folding(f, name, k)
    BY <1>2
  <2> DEFINE g == [s \in SUBSET (1 .. k + 1) |->
                     IF s = {} THEN AtStart
                     ELSE IF k + 1 \in s THEN KeyStep(f[s \ {k + 1}], name[k + 1])
                     ELSE f[s]]
  <2>2. ASSUME NEW s \in SUBSET (1 .. k)
        PROVE  s \in SUBSET (1 .. k + 1) /\ k + 1 \notin s /\ g[s] = f[s]
    <3>1. s = {} => f[s] = AtStart
      BY <2>1, FoldingStep
    <3>2. s \in SUBSET (1 .. k + 1) /\ k + 1 \notin s
      OBVIOUS
    <3> QED
      BY <3>1, <3>2
  <2>3. ASSUME NEW s \in SUBSET (1 .. k + 1)
        PROVE  g[s] = IF s = {} THEN AtStart
                      ELSE KeyStep(g[s \ {Max(s)}], name[Max(s)])
    <3>1. CASE s = {}
      BY <3>1
    <3>2. CASE k + 1 \in s
      <4>1. Max(s) = k + 1
        BY <3>2, MaxOfInterval
      <4>2. s \ {k + 1} \in SUBSET (1 .. k)
        OBVIOUS
      <4>3. g[s \ {k + 1}] = f[s \ {k + 1}]
        BY <2>2, <4>2
      <4>4. g[s] = KeyStep(f[s \ {k + 1}], name[k + 1])
        BY <3>2
      <4> HIDE DEF g
      <4> QED
        BY <3>2, <4>1, <4>3, <4>4
    <3>3. CASE s # {} /\ k + 1 \notin s
      <4>0. \A i \in s : i \in 1 .. k
        <5> TAKE i \in s
        <5>1. i \in 1 .. k + 1 /\ i # k + 1
          BY <3>3
        <5> QED
          BY <5>1
      <4>1. s \in SUBSET (1 .. k) /\ s \ {Max(s)} \in SUBSET (1 .. k)
        BY <4>0
      <4>2. g[s] = f[s] /\ g[s \ {Max(s)}] = f[s \ {Max(s)}]
        BY <2>2, <4>1
      <4>3. f[s] = KeyStep(f[s \ {Max(s)}], name[Max(s)])
        BY <2>1, <3>3, <4>1, FoldingStep
      <4> HIDE DEF g
      <4> QED
        BY <3>3, <4>2, <4>3
    <3> QED
      BY <3>1, <3>2, <3>3
  <2>4. Folding(g, name, k + 1)
    <3> DEFINE h == [s \in SUBSET (1 .. k + 1) |->
                       IF s = {} THEN AtStart
                       ELSE KeyStep(g[s \ {Max(s)}], name[Max(s)])]
    <3>1. \A s \in SUBSET (1 .. k + 1) : g[s] = h[s]
      <4> HIDE DEF g
      <4> QED
        BY <2>3
    <3>2. g = h
      <4>1. g = [s \in SUBSET (1 .. k + 1) |-> g[s]]
        OBVIOUS
      <4>2. h = [s \in SUBSET (1 .. k + 1) |-> h[s]]
        <5> HIDE DEF g
        <5> QED OBVIOUS
      <4> HIDE DEF g, h
      <4> QED
        BY <3>1, <4>1, <4>2
    <3> HIDE DEF g
    <3> QED
      BY <3>2 DEF Folding
  <2> QED
    BY <2>4
<1> HIDE DEF S
<1>3. \A k \in Nat : k \in S
  BY <1>1, <1>2, SetInduction
<1> QED
  BY <1>3 DEF S

LEMMA KeyOfFolds ==
  ASSUME NEW name, Len(name) \in Nat, DOMAIN name = 1 .. Len(name)
  PROVE  \E f : Folding(f, name, Len(name)) /\ KeyOf(name) = f[1 .. Len(name)].state
<1> DEFINE f == CHOOSE f : Folding(f, name, Len(name))
<1>1. Folding(f, name, Len(name))
  BY FoldingExists
<1>2. KeyOf(name) = f[1 .. Len(name)].state
  BY DEF KeyOf, FoldLeft, MapThenFoldSet, Folding, KeyStep, AtStart
<1> QED
  BY <1>1, <1>2

(* Where key_terminals_fa is behind the first k pieces of a name. *)
IsBar(piece) == piece = "_"
IsSkip(piece) == piece = "SKIP"
IsEnd(piece) == piece = "END"

Blank(name, n) == \A i \in 1 .. n : IsBar(name[i])
SkipMark(name, n) == Blank(name, n - 1) /\ IsSkip(name[n])
EndBegun(name) == IsBar(name[1]) /\ IsEnd(name[2])

KeyStates == {"start", "one", "more", "almost", "skip", "end"}
KeyAt == [state : KeyStates, left : BOOLEAN]

KeyPlace(at, name, k) ==
  \/ at.state = "start" /\ at.left = FALSE /\ k = 0
  \/ at.state = "one" /\ at.left = FALSE /\ k = 1 /\ IsBar(name[1])
  \/ at.state = "more" /\ at.left = FALSE /\ k >= 2 /\ Blank(name, k)
  \/ at.state = "almost" /\ at.left = FALSE /\ k = 2 /\ EndBegun(name)
  \/ /\ at.state = "start" /\ at.left = TRUE /\ k >= 1
     /\ ~IsBar(name[1]) /\ ~IsSkip(name[1])
  \/ /\ at.state = "one" /\ at.left = TRUE /\ k >= 2 /\ IsBar(name[1])
     /\ ~IsBar(name[2]) /\ ~IsSkip(name[2]) /\ ~IsEnd(name[2])
  \/ /\ at.state = "more" /\ at.left = TRUE
     /\ \E i \in 3 .. k : Blank(name, i - 1) /\ ~IsBar(name[i]) /\ ~IsSkip(name[i])
  \/ at.state = "almost" /\ at.left = TRUE /\ k >= 3 /\ EndBegun(name) /\ ~IsBar(name[3])
  \/ at.state = "skip" /\ \E i \in 1 .. k : SkipMark(name, i)
  \/ at.state = "end" /\ k >= 3 /\ EndBegun(name) /\ IsBar(name[3])

LEMMA PiecesDiffer ==
  ASSUME NEW piece
  PROVE  /\ IsBar(piece) => ~IsSkip(piece) /\ ~IsEnd(piece)
         /\ IsSkip(piece) => ~IsEnd(piece)
BY DEF IsBar, IsSkip, IsEnd

LEMMA KeyMoves ==
  ASSUME NEW piece
  PROVE  /\ KeyMove("start", piece) =
              IF IsBar(piece) THEN "one" ELSE IF IsSkip(piece) THEN "skip" ELSE "none"
         /\ KeyMove("one", piece) =
              IF IsBar(piece) THEN "more" ELSE IF IsSkip(piece) THEN "skip"
              ELSE IF IsEnd(piece) THEN "almost" ELSE "none"
         /\ KeyMove("more", piece) =
              IF IsBar(piece) THEN "more" ELSE IF IsSkip(piece) THEN "skip" ELSE "none"
         /\ KeyMove("almost", piece) = IF IsBar(piece) THEN "end" ELSE "none"
         /\ KeyMove("skip", piece) = IF IsBar(piece) THEN "skip" ELSE "none"
         /\ KeyMove("end", piece) = "none"
BY DEF KeyMove, IsBar, IsSkip, IsEnd

LEMMA KeyPlaceStep ==
  ASSUME NEW at \in KeyAt, NEW name, NEW k \in Nat, KeyPlace(at, name, k)
  PROVE  /\ KeyStep(at, name[k + 1]) \in KeyAt
         /\ KeyPlace(KeyStep(at, name[k + 1]), name, k + 1)
<1>1. PICK next : next = KeyStep(at, name[k + 1])
  OBVIOUS
<1>2. PICK piece, st, move :
        piece = name[k + 1] /\ st = at.state /\ move = KeyMove(st, piece)
  OBVIOUS
<1>3. st \in KeyStates /\ (move # "none" => move \in KeyStates)
  BY <1>2, KeyMoves DEF KeyStates, KeyAt
<1>4. /\ next \in KeyAt
      /\ \/ /\ next.state = st /\ next.left = TRUE
            /\ at.left = TRUE \/ move = "none"
         \/ next.state = move /\ next.left = FALSE /\ at.left = FALSE /\ move # "none"
  BY <1>1, <1>2, <1>3 DEF KeyStep, KeyAt
<1>5. /\ IsBar(piece) => ~IsSkip(piece) /\ ~IsEnd(piece)
      /\ IsSkip(piece) => ~IsEnd(piece)
  BY PiecesDiffer
<1>6. \A i \in 1 .. k : Blank(name, k) => IsBar(name[i])
  BY DEF Blank
<1>7. Blank(name, k) /\ IsBar(piece) => Blank(name, k + 1)
  BY <1>2 DEF Blank
<1>8. Blank(name, k) /\ IsSkip(piece) => SkipMark(name, k + 1)
  BY <1>2 DEF SkipMark
<1>9. k = 0 => Blank(name, k)
  BY DEF Blank
<1>10. k = 1 /\ IsBar(name[1]) => Blank(name, k)
  BY DEF Blank
<1>11. KeyPlace(next, name, k + 1)
  <2>1. CASE st = "start"
    BY <1>2, <1>4, <1>5, <1>8, <1>9, <2>1, KeyMoves DEF KeyPlace
  <2>2. CASE st = "one"
    BY <1>2, <1>4, <1>5, <1>7, <1>8, <1>10, <2>2, KeyMoves DEF KeyPlace, EndBegun
  <2>3. CASE st = "more"
    BY <1>2, <1>4, <1>5, <1>7, <1>8, <2>3, KeyMoves DEF KeyPlace
  <2>4. CASE st = "almost"
    BY <1>2, <1>4, <1>5, <2>4, KeyMoves DEF KeyPlace
  <2>5. CASE st = "skip"
    BY <1>2, <1>4, <1>5, <2>5, KeyMoves DEF KeyPlace
  <2>6. CASE st = "end"
    BY <1>2, <1>4, <1>5, <2>6, KeyMoves DEF KeyPlace
  <2> QED
    BY <1>3, <2>1, <2>2, <2>3, <2>4, <2>5, <2>6 DEF KeyStates
<1> QED
  BY <1>1, <1>4, <1>11

LEMMA WholeSubSeq ==
  ASSUME NEW S, NEW s \in Seq(S)
  PROVE  SubSeq(s, 1, Len(s)) = s
OBVIOUS

(* What find_key_terminals learns of a name. *)
LEMMA KeyOfName ==
  ASSUME NEW T, NEW name \in Seq(T)
  PROVE  /\ KeyOf(name) = "skip" <=> BeginsWith(name, "SKIP")
         /\ KeyOf(name) = "end" <=> IsPrefix(<<"_", "END", "_">>, name)
<1> DEFINE n == Len(name)
<1>1. PICK f : Folding(f, name, n) /\ KeyOf(name) = f[1 .. n].state
  BY KeyOfFolds
<1> DEFINE S == {k \in Nat : k <= n => f[1 .. k] \in KeyAt /\ KeyPlace(f[1 .. k], name, k)}
<1>2. 0 \in S
  <2>1. f[1 .. 0] = AtStart
    <3>1. PICK none, m : none = 1 .. 0 /\ m = n
      OBVIOUS
    <3>2. none = {} /\ none \in SUBSET (1 .. m) /\ m \in Nat
      BY <3>1
    <3>3. f[none] = AtStart
      BY ONLY <1>1, <3>1, <3>2, FoldingStep
    <3> QED
      BY <3>1, <3>3
  <2>2. AtStart \in KeyAt /\ KeyPlace(AtStart, name, 0)
    BY DEF AtStart, KeyPlace, KeyAt, KeyStates
  <2> QED
    BY <2>1, <2>2
<1>3. ASSUME NEW k \in Nat, k \in S
      PROVE  k + 1 \in S
  <2> SUFFICES ASSUME k + 1 <= n
               PROVE  f[1 .. k + 1] \in KeyAt /\ KeyPlace(f[1 .. k + 1], name, k + 1)
    OBVIOUS
  <2>1. f[1 .. k] \in KeyAt /\ KeyPlace(f[1 .. k], name, k)
    BY <1>3
  <2>2. 1 .. k + 1 \in SUBSET (1 .. n) /\ k + 1 \in 1 .. k + 1
    OBVIOUS
  <2>3. Max(1 .. k + 1) = k + 1
    BY <2>2, MaxOfInterval
  <2>4. (1 .. k + 1) \ {k + 1} = 1 .. k
    OBVIOUS
  <2>5. f[1 .. k + 1] = KeyStep(f[1 .. k], name[k + 1])
    <3> HIDE DEF n
    <3>1. n \in Nat
      BY DEF n
    <3>2. f[1 .. k + 1] =
            KeyStep(f[(1 .. k + 1) \ {Max(1 .. k + 1)}], name[Max(1 .. k + 1)])
      BY <1>1, <2>2, <3>1, FoldingStep
    <3> QED
      BY <2>3, <2>4, <3>2
  <2>6. PICK at \in KeyAt : at = f[1 .. k]
    BY <2>1
  <2>7. /\ KeyStep(at, name[k + 1]) \in KeyAt
        /\ KeyPlace(KeyStep(at, name[k + 1]), name, k + 1)
    BY <2>1, <2>6, KeyPlaceStep
  <2> QED
    BY <2>5, <2>6, <2>7
<1> HIDE DEF S
<1>4. n \in S
  BY <1>2, <1>3, SetInduction
<1>5. PICK at \in KeyAt : KeyPlace(at, name, n) /\ KeyOf(name) = at.state
  BY <1>1, <1>4 DEF S
<1>6. BeginsWith(name, "SKIP") <=> \E i \in 1 .. n : SkipMark(name, i)
  <2>1. DOMAIN name = 1 .. n
    OBVIOUS
  <2> QED
    BY <2>1, Zenon DEF BeginsWith, SkipMark, Blank, IsBar, IsSkip
<1>7. IsPrefix(<<"_", "END", "_">>, name)
        <=> n >= 3 /\ EndBegun(name) /\ IsBar(name[3])
  <2> DEFINE mark == <<"_", "END", "_">>
  <2>1. /\ Len(mark) = 3 /\ SubSeq(mark, 1, 3) = mark
        /\ mark[1] = "_" /\ mark[2] = "END" /\ mark[3] = "_"
    <3>1. mark \in Seq({"_", "END"}) /\ Len(mark) = 3
      OBVIOUS
    <3>2. PICK T1 : T1 = {"_", "END"}
      OBVIOUS
    <3>3. mark[1] = "_" /\ mark[2] = "END" /\ mark[3] = "_"
      OBVIOUS
    <3> HIDE DEF mark
    <3>4. SubSeq(mark, 1, Len(mark)) = mark
      BY <3>1, <3>2, WholeSubSeq
    <3> QED
      BY <3>1, <3>3, <3>4
  <2>2. ASSUME n >= 3
        PROVE  /\ Len(SubSeq(name, 1, 3)) = 3
               /\ SubSeq(name, 1, 3)[1] = name[1]
               /\ SubSeq(name, 1, 3)[2] = name[2]
               /\ SubSeq(name, 1, 3)[3] = name[3]
               /\ SubSeq(name, 1, 3) = <<name[1], name[2], name[3]>>
    <3>1. PICK s : s = SubSeq(name, 1, 3)
      OBVIOUS
    <3>2. s \in Seq(T) /\ Len(s) = 3 /\ \A i \in 1 .. 3 : s[i] = name[i]
      BY <2>2, <3>1
    <3>3. s = <<s[1], s[2], s[3]>>
      BY <3>2
    <3>4. s[1] = name[1] /\ s[2] = name[2] /\ s[3] = name[3]
      BY <3>2
    <3> QED
      BY <3>1, <3>2, <3>3, <3>4
  <2>3. IsPrefix(mark, name) <=> 3 <= n /\ mark = SubSeq(name, 1, 3)
    BY <2>1 DEF IsPrefix
  <2>4. EndBegun(name) /\ IsBar(name[3])
          <=> name[1] = "_" /\ name[2] = "END" /\ name[3] = "_"
    BY DEF EndBegun, IsBar, IsEnd
  <2>5. CASE n >= 3
    <3>1. mark = SubSeq(name, 1, 3)
            <=> name[1] = "_" /\ name[2] = "END" /\ name[3] = "_"
      <4>1. ASSUME mark = SubSeq(name, 1, 3)
            PROVE  name[1] = "_" /\ name[2] = "END" /\ name[3] = "_"
        BY <2>1, <2>2, <2>5, <4>1, Zenon
      <4>2. ASSUME name[1] = "_", name[2] = "END", name[3] = "_"
            PROVE  mark = SubSeq(name, 1, 3)
        BY <2>2, <2>5, <4>2, Zenon
      <4> QED
        BY <4>1, <4>2
    <3> QED
      BY <2>3, <2>4, <2>5, <3>1
  <2>6. CASE ~(n >= 3)
    BY <2>3, <2>6
  <2> QED
    BY <2>5, <2>6
<1>8. \A i \in 1 .. n : /\ ~(IsBar(name[i]) /\ IsSkip(name[i]))
                        /\ ~(IsBar(name[i]) /\ IsEnd(name[i]))
                        /\ ~(IsSkip(name[i]) /\ IsEnd(name[i]))
  BY PiecesDiffer
<1>9. ASSUME NEW i \in 1 .. n, SkipMark(name, i)
      PROVE  at.state = "skip"
  BY <1>5, <1>8, <1>9 DEF KeyPlace, SkipMark, Blank, EndBegun
<1>10. ASSUME n >= 3, EndBegun(name), IsBar(name[3])
       PROVE  at.state = "end"
  BY <1>5, <1>8, <1>10 DEF KeyPlace, SkipMark, Blank, EndBegun
<1>11. /\ at.state = "skip" => \E i \in 1 .. n : SkipMark(name, i)
       /\ at.state = "end" => n >= 3 /\ EndBegun(name) /\ IsBar(name[3])
  BY <1>5 DEF KeyPlace
<1> QED
  BY <1>5, <1>6, <1>7, <1>9, <1>10, <1>11

-----------------------------------------------------------------------------
(* The invariant of the loader.  Opening: no declaration was read yet. *)
Opening == {"init_flag", "init_code", "terminals_flag"}
Stages == Opening \union {"terminals", "nonterminals", "rules",
                          "keys", "tables", "created", "failed"}
RuleType == [head : Int, body : Seq(Int)]

LoaderTypes ==
  /\ load_stage \in Stages
  /\ file \in Seq(Token)
  /\ terminal_state \in {0, 1}
  /\ terminals \in Seq(TerminalNames) /\ nonterminals \in Seq(NonterminalNames)
  /\ rule_state \in 0 .. 3
  /\ new_rule \in RuleType /\ rules \in Seq(RuleType) /\ rule_codes \in Nat
  /\ t_idx \in Nat \ {0} /\ end_terminal \in Int /\ skip_terminals \in Seq(Int)

(* What a loop fills is empty in front of it. *)
FreshInv ==
  /\ load_stage \in Opening => terminals = <<>> /\ terminal_state = 0
  /\ load_stage \in Opening \union {"terminals"} => nonterminals = <<>>
  /\ load_stage \in Opening \union {"terminals", "nonterminals"} =>
       rules = <<>> /\ rule_codes = 0 /\ rule_state = 0
  /\ load_stage \in Opening \union {"terminals", "nonterminals", "rules"} =>
       t_idx = 1 /\ end_terminal = NotExist /\ skip_terminals = <<>>

NamesInv ==
  load_stage # "failed" =>
    /\ IsInjective(terminals) /\ IsInjective(nonterminals)
    /\ terminal_state = 1 =>
         new_terminal \in TerminalNames /\ ~Known(terminals, new_terminal)
    /\ load_stage \notin Opening \union {"terminals"} => terminals # <<>>
    /\ load_stage \notin Opening \union {"terminals", "nonterminals"} =>
         nonterminals # <<>>

(* Rule r is one over ts terminals and ns nonterminals. *)
IsRule(r, ts, ns) ==
  /\ r.head \in ts .. (ts + ns - 1)
  /\ r.body # <<>>
  /\ \A i \in 1 .. Len(r.body) : r.body[i] \in 0 .. (ts + ns - 1)

RulesInv ==
  load_stage # "failed" =>
    /\ IsInjective(rules) /\ rule_codes = Len(rules)
    /\ \A n \in 1 .. Len(rules) : IsRule(rules[n], Len(terminals), Len(nonterminals))
    /\ rule_state # 0 => new_rule.head \in Heads
    /\ rule_state \in {2, 3} =>
         \A i \in 1 .. Len(new_rule.body) : new_rule.body[i] \in Symbols
    /\ rule_state = 3 => new_rule.body # <<>>
    /\ Loaded => rules # <<>>

(* The text of what was loaded, as far as it goes. *)
TerminalToken(name) == <<[term |-> "identifier", name |-> name]>>
NonterminalToken(name) == <<[term |-> "nonterm_id", name |-> name]>>
SymbolOf(ts, ns, x) ==
  IF x < Len(ts) THEN TerminalToken(ts[x + 1])
                 ELSE NonterminalToken(ns[x - Len(ts) + 1])

TerminalPiece(name) == TerminalToken(name) \o Mark("code")
TerminalsOf(ts) == [i \in 1 .. Len(ts) |-> TerminalPiece(ts[i])]
NonterminalsOf(ns) == [i \in 1 .. Len(ns) |-> NonterminalToken(ns[i])]
BodyOf(ts, ns, body) == [i \in 1 .. Len(body) |-> SymbolOf(ts, ns, body[i])]
BegunRule(ts, ns, r) ==
  SymbolOf(ts, ns, r.head) \o Mark("div_0") \o FlattenSeq(BodyOf(ts, ns, r.body))
RuleOf(ts, ns, r) == BegunRule(ts, ns, r) \o Mark("div_1") \o Mark("code")
RulesOf(ts, ns, rs) == [i \in 1 .. Len(rs) |-> RuleOf(ts, ns, rs[i])]

OpeningText == Mark("init_code") \o Mark("code") \o Mark("terminals")
TerminalsText(ts) == OpeningText \o FlattenSeq(TerminalsOf(ts))
NonterminalsText(ts, ns) ==
  TerminalsText(ts) \o Mark("nonterminals") \o FlattenSeq(NonterminalsOf(ns))
RulesText(ts, ns, rs) ==
  NonterminalsText(ts, ns) \o Mark("rules") \o FlattenSeq(RulesOf(ts, ns, rs))

RuleSoFar(ts, ns, state, r) ==
  CASE state = 0 -> <<>>
    [] state = 1 -> SymbolOf(ts, ns, r.head)
    [] state = 2 -> BegunRule(ts, ns, r)
    [] state = 3 -> BegunRule(ts, ns, r) \o Mark("div_1")

TextInv ==
  /\ load_stage = "init_flag" => file = <<>>
  /\ load_stage = "init_code" => file = Mark("init_code")
  /\ load_stage = "terminals_flag" => file = Mark("init_code") \o Mark("code")
  /\ load_stage = "terminals" =>
       file = TerminalsText(terminals)
                \o (IF terminal_state = 0 THEN <<>> ELSE TerminalToken(new_terminal))
  /\ load_stage = "nonterminals" /\ terminal_state = 0 =>
       file = NonterminalsText(terminals, nonterminals)
  /\ load_stage = "rules" /\ terminal_state = 0 =>
       file = RulesText(terminals, nonterminals, rules)
                \o RuleSoFar(terminals, nonterminals, rule_state, new_rule)
  /\ Loaded /\ terminal_state = 0 /\ rule_state = 0 =>
       file = RulesText(terminals, nonterminals, rules) \o Mark("input_end")

(* The names in front of t_idx are marked. *)
Skips(name) == KeyOf(name) = "skip"
Ends(name) == KeyOf(name) = "end"

KeysInv ==
  load_stage \in {"keys", "tables", "created"} =>
    /\ t_idx \in 1 .. Len(terminals) + 1
    /\ load_stage # "keys" => t_idx = Len(terminals) + 1
    /\ ToSet(skip_terminals) =
         {i - 1 : i \in {i \in 1 .. t_idx - 1 : Skips(terminals[i])}}
    /\ {i - 1 : i \in {i \in 1 .. t_idx - 1 : Ends(terminals[i])}} =
         {end_terminal} \ {NotExist}

(* A file is refused for its end terminals when two names were found to end. *)
SeveralEnd == "CREATE_MULTIPLE_PARSE_END_TERMINALS"
TwoEnd == \E i, j \in DOMAIN terminals : i < j /\ Ends(terminals[i]) /\ Ends(terminals[j])

ErrorInv ==
  /\ load_stage # "failed" => error_type = "NONE"
  /\ error_type = SeveralEnd => TwoEnd

LoaderInv ==
  LoaderTypes /\ FreshInv /\ NamesInv /\ RulesInv /\ TextInv /\ KeysInv /\ ErrorInv

-----------------------------------------------------------------------------
(* Tokens, and how the text grows. *)
MarkToken(t) == [term |-> t, name |-> NotExist]
NameToken(name) == [term |-> "identifier", name |-> name]
NontermToken(name) == [term |-> "nonterm_id", name |-> name]

LEMMA TokenForms ==
  ASSUME NEW tok \in Token
  PROVE  /\ \/ tok.term \in Marks
            \/ tok.term = "identifier" \/ tok.term = "nonterm_id"
         /\ tok.term \in Marks => tok = MarkToken(tok.term)
         /\ tok.term = "identifier" => tok.name \in TerminalNames /\ tok = NameToken(tok.name)
         /\ tok.term = "nonterm_id" =>
              tok.name \in NonterminalNames /\ tok = NontermToken(tok.name)
BY DEF Token, Marks, MarkToken, NameToken, NontermToken

LEMMA TokensAre ==
  /\ \A t \in Marks : MarkToken(t) \in Token /\ Mark(t) = <<MarkToken(t)>>
  /\ \A name \in TerminalNames :
       NameToken(name) \in Token /\ TerminalToken(name) = <<NameToken(name)>>
  /\ \A name \in NonterminalNames :
       NontermToken(name) \in Token /\ NonterminalToken(name) = <<NontermToken(name)>>
BY DEF Token, MarkToken, NameToken, NontermToken, Mark, TerminalToken, NonterminalToken

LEMMA OpeningTextIs ==
  /\ OpeningText \in Seq(Token)
  /\ Mark("init_code") \o Mark("code") \in Seq(Token)
  /\ OpeningText = Append(Mark("init_code") \o Mark("code"), MarkToken("terminals"))
  /\ Mark("init_code") \o Mark("code") = Append(Mark("init_code"), MarkToken("code"))
<1>1. {"init_code", "code", "terminals"} \subseteq Marks
  BY DEF Marks
<1>2. PICK a, b, c : a = MarkToken("init_code") /\ b = MarkToken("code")
                     /\ c = MarkToken("terminals")
  OBVIOUS
<1>3. /\ a \in Token /\ b \in Token /\ c \in Token
      /\ Mark("init_code") = <<a>> /\ Mark("code") = <<b>> /\ Mark("terminals") = <<c>>
  BY <1>1, <1>2, TokensAre
<1>4. <<a>> \in Seq(Token) /\ <<b>> \in Seq(Token) /\ <<c>> \in Seq(Token)
  BY <1>3
<1>5. <<a>> \o <<b>> \in Seq(Token) /\ (<<a>> \o <<b>>) \o <<c>> \in Seq(Token)
  BY <1>4, ConcatInSeq, <1>3
<1>6. /\ <<a>> \o <<b>> = Append(<<a>>, b)
      /\ (<<a>> \o <<b>>) \o <<c>> = Append(<<a>> \o <<b>>, c)
  BY <1>3, <1>4, <1>5, AppendOne
<1> QED
  BY <1>2, <1>3, <1>5, <1>6 DEF OpeningText

LEMMA TerminalsTextGrows ==
  ASSUME NEW ts \in Seq(TerminalNames)
  PROVE  /\ TerminalsText(ts) \in Seq(Token)
         /\ \A name \in TerminalNames :
              TerminalsText(Append(ts, name)) =
                Append(Append(TerminalsText(ts), NameToken(name)), MarkToken("code"))
<1>1. "code" \in Marks
  BY DEF Marks
<1>2. ASSUME NEW name \in TerminalNames
      PROVE  TerminalPiece(name) \in Seq(Token) /\ TerminalPiece(name) = Append(<<NameToken(name)>>, MarkToken("code"))
  <2>1. PICK x, y : x = NameToken(name) /\ y = MarkToken("code")
    OBVIOUS
  <2>2. x \in Token /\ y \in Token /\ TerminalPiece(name) = <<x>> \o <<y>>
    BY <1>1, <2>1, TokensAre DEF TerminalPiece
  <2>3. <<x>> \in Seq(Token) /\ <<x>> \o <<y>> = Append(<<x>>, y)
        /\ Append(<<x>>, y) \in Seq(Token)
    BY <2>2, AppendOne
  <2> QED
    BY <2>1, <2>2, <2>3
<1>3. TerminalsOf(ts) \in Seq(Seq(Token))
  <2>1. \A name \in TerminalNames : TerminalPiece(name) \in Seq(Token)
    BY <1>2
  <2> QED
    BY <2>1 DEF TerminalsOf
<1>4. FlattenSeq(TerminalsOf(ts)) \in Seq(Token)
  <2>1. <<>> \in Seq(Token)
    OBVIOUS
  <2> QED
    BY <1>3, <2>1, FlattenAppend
<1>5. TerminalsText(ts) \in Seq(Token)
  BY <1>4, OpeningTextIs DEF TerminalsText
<1>6. ASSUME NEW name \in TerminalNames
      PROVE  TerminalsText(Append(ts, name)) =
                Append(Append(TerminalsText(ts), NameToken(name)), MarkToken("code"))
  <2>1. TerminalsOf(Append(ts, name)) = Append(TerminalsOf(ts), TerminalPiece(name))
    <3>1. PICK more : more = Append(ts, name)
      OBVIOUS
    <3>2. /\ Len(more) = Len(ts) + 1 /\ more[Len(ts) + 1] = name
          /\ \A i \in 1 .. Len(ts) : more[i] = ts[i]
      BY <3>1
    <3>3. TerminalsOf(more) = Append(TerminalsOf(ts), TerminalPiece(name))
      BY <1>2, <1>3, <3>2 DEF TerminalsOf
    <3> QED
      BY <3>1, <3>3
  <2>2. FlattenSeq(TerminalsOf(Append(ts, name))) = FlattenSeq(TerminalsOf(ts)) \o TerminalPiece(name)
    BY <1>2, <1>3, <2>1, FlattenAppend
  <2>3. PICK a, b, c : /\ a = OpeningText /\ b = FlattenSeq(TerminalsOf(ts))
                       /\ c = TerminalPiece(name)
    OBVIOUS
  <2>4. a \in Seq(Token) /\ b \in Seq(Token) /\ c \in Seq(Token)
        /\ c = Append(<<NameToken(name)>>, MarkToken("code"))
        /\ NameToken(name) \in Token /\ MarkToken("code") \in Token
    BY <1>1, <1>2, <1>4, <2>3, OpeningTextIs, TokensAre
  <2>5. a \o (b \o c) = (a \o b) \o c
    BY <2>4, ConcatsAssociate
  <2>6. PICK x, y : x = NameToken(name) /\ y = MarkToken("code")
    OBVIOUS
  <2>7. (a \o b) \o Append(<<x>>, y) = Append(Append(a \o b, x), y)
    <3>1. a \o b \in Seq(Token) /\ x \in Token /\ y \in Token /\ <<x>> \in Seq(Token)
      BY <2>4, <2>6
    <3>2. (a \o b) \o Append(<<x>>, y) = Append((a \o b) \o <<x>>, y)
      BY <3>1, ConcatInSeq
    <3>3. (a \o b) \o <<x>> = Append(a \o b, x)
      BY <3>1, AppendOne
    <3> QED
      BY <3>2, <3>3
  <2> QED
    BY <2>2, <2>3, <2>4, <2>5, <2>6, <2>7 DEF TerminalsText
<1> QED
  BY <1>5, <1>6

LEMMA TerminalsTextEmpty == TerminalsText(<<>>) = OpeningText
<1>1. TerminalsOf(<<>>) = <<>>
  BY DEF TerminalsOf
<1>2. OpeningText \o <<>> = OpeningText
  BY OpeningTextIs
<1> QED
  BY <1>1, <1>2, FlattenEmpty DEF TerminalsText

LEMMA NonterminalsTextGrows ==
  ASSUME NEW ts \in Seq(TerminalNames), NEW ns \in Seq(NonterminalNames)
  PROVE  /\ NonterminalsText(ts, ns) \in Seq(Token)
         /\ \A name \in NonterminalNames :
              NonterminalsText(ts, Append(ns, name)) =
                Append(NonterminalsText(ts, ns), NontermToken(name))
         /\ NonterminalsText(ts, <<>>) =
              Append(TerminalsText(ts), MarkToken("nonterminals"))
<1>1. PICK front : front = TerminalsText(ts) \o Mark("nonterminals")
  OBVIOUS
<1>2. front = Append(TerminalsText(ts), MarkToken("nonterminals")) /\ front \in Seq(Token)
  <2>1. "nonterminals" \in Marks
    BY DEF Marks
  <2>2. MarkToken("nonterminals") \in Token /\ Mark("nonterminals") = <<MarkToken("nonterminals")>>
    BY <2>1, TokensAre
  <2>3. PICK text, m : text = TerminalsText(ts) /\ m = MarkToken("nonterminals")
    OBVIOUS
  <2>4. text \in Seq(Token) /\ m \in Token /\ Mark("nonterminals") = <<m>>
    BY <2>2, <2>3, TerminalsTextGrows
  <2>5. text \o <<m>> = Append(text, m) /\ Append(text, m) \in Seq(Token)
    BY <2>4, AppendOne
  <2> QED
    BY <1>1, <2>3, <2>4, <2>5
<1>3. NonterminalsOf(ns) \in Seq(Seq(Token))
  <2>1. \A name \in NonterminalNames : NonterminalToken(name) \in Seq(Token)
    <3> TAKE name \in NonterminalNames
    <3>1. PICK x : x = NontermToken(name)
      OBVIOUS
    <3>2. x \in Token /\ NonterminalToken(name) = <<x>>
      BY <3>1, TokensAre
    <3> QED
      BY <3>2
  <2> QED
    BY <2>1 DEF NonterminalsOf
<1>4. FlattenSeq(NonterminalsOf(ns)) \in Seq(Token)
  <2>1. <<>> \in Seq(Token)
    OBVIOUS
  <2> QED
    BY <1>3, <2>1, FlattenAppend
<1>5. NonterminalsText(ts, ns) \in Seq(Token)
  BY <1>1, <1>2, <1>4 DEF NonterminalsText
<1>6. ASSUME NEW name \in NonterminalNames
      PROVE  NonterminalsText(ts, Append(ns, name)) =
                Append(NonterminalsText(ts, ns), NontermToken(name))
  <2>1. PICK piece : piece = NontermToken(name)
    OBVIOUS
  <2>2. piece \in Token /\ NonterminalToken(name) = <<piece>> /\ <<piece>> \in Seq(Token)
    BY <2>1, TokensAre
  <2>3. NonterminalsOf(Append(ns, name)) = Append(NonterminalsOf(ns), <<piece>>)
    <3>1. PICK more : more = Append(ns, name)
      OBVIOUS
    <3>2. /\ Len(more) = Len(ns) + 1 /\ more[Len(ns) + 1] = name
          /\ \A i \in 1 .. Len(ns) : more[i] = ns[i]
      BY <3>1
    <3>3. NonterminalsOf(more) = Append(NonterminalsOf(ns), <<piece>>)
      BY <2>2, <3>2 DEF NonterminalsOf
    <3> QED
      BY <3>1, <3>3
  <2>4. FlattenSeq(NonterminalsOf(Append(ns, name))) =
          FlattenSeq(NonterminalsOf(ns)) \o <<piece>>
    BY <1>3, <2>2, <2>3, FlattenAppend
  <2>5. FlattenSeq(NonterminalsOf(ns)) \o <<piece>>
          = Append(FlattenSeq(NonterminalsOf(ns)), piece)
    BY <1>4, <2>2, AppendOne
  <2>6. front \o Append(FlattenSeq(NonterminalsOf(ns)), piece)
          = Append(front \o FlattenSeq(NonterminalsOf(ns)), piece)
    BY <1>2, <1>4, <2>2, ConcatInSeq
  <2> QED
    BY <1>1, <2>1, <2>4, <2>5, <2>6 DEF NonterminalsText
<1>7. NonterminalsText(ts, <<>>) = Append(TerminalsText(ts), MarkToken("nonterminals"))
  <2>1. NonterminalsOf(<<>>) = <<>>
    BY DEF NonterminalsOf
  <2>2. front \o <<>> = front
    BY <1>2
  <2> QED
    BY <1>1, <1>2, <2>1, <2>2, FlattenEmpty DEF NonterminalsText
<1> QED
  BY <1>5, <1>6, <1>7

(* Rules: their symbols are declared, so each is written by its name. *)
LEMMA SymbolOfIs ==
  ASSUME NEW ts \in Seq(TerminalNames), NEW ns \in Seq(NonterminalNames),
         NEW x \in 0 .. (Len(ts) + Len(ns) - 1)
  PROVE  /\ SymbolOf(ts, ns, x) \in Seq(Token)
         /\ \E tok \in Token : SymbolOf(ts, ns, x) = <<tok>>
         /\ x < Len(ts) => SymbolOf(ts, ns, x) = <<NameToken(ts[x + 1])>>
         /\ x >= Len(ts) => SymbolOf(ts, ns, x) = <<NontermToken(ns[x - Len(ts) + 1])>>
<1>1. CASE x < Len(ts)
  <2>1. PICK name : name = ts[x + 1]
    OBVIOUS
  <2>2. PICK tok : tok = NameToken(name)
    OBVIOUS
  <2>3. name \in TerminalNames
    BY <1>1, <2>1
  <2>4. tok \in Token /\ SymbolOf(ts, ns, x) = <<tok>>
    BY <1>1, <2>1, <2>2, <2>3, TokensAre DEF SymbolOf
  <2> QED
    BY <1>1, <2>1, <2>2, <2>4
<1>2. CASE x >= Len(ts)
  <2>1. PICK name : name = ns[x - Len(ts) + 1]
    OBVIOUS
  <2>2. PICK tok : tok = NontermToken(name)
    OBVIOUS
  <2>3. name \in NonterminalNames
    BY <1>2, <2>1
  <2>4. tok \in Token /\ SymbolOf(ts, ns, x) = <<tok>>
    BY <1>2, <2>1, <2>2, <2>3, TokensAre DEF SymbolOf
  <2> QED
    BY <1>2, <2>1, <2>2, <2>4
<1> QED
  BY <1>1, <1>2

LEMMA BegunRuleGrows ==
  ASSUME NEW ts \in Seq(TerminalNames), NEW ns \in Seq(NonterminalNames),
         NEW r \in RuleType, r.head \in Len(ts) .. (Len(ts) + Len(ns) - 1),
         \A i \in 1 .. Len(r.body) : r.body[i] \in 0 .. (Len(ts) + Len(ns) - 1)
  PROVE  /\ BegunRule(ts, ns, r) \in Seq(Token)
         /\ r.body = <<>> =>
              BegunRule(ts, ns, r) =
                Append(SymbolOf(ts, ns, r.head), MarkToken("div_0"))
         /\ \A x \in 0 .. (Len(ts) + Len(ns) - 1) :
              BegunRule(ts, ns, [r EXCEPT !.body = Append(@, x)]) =
                BegunRule(ts, ns, r) \o SymbolOf(ts, ns, x)
<1> DEFINE N == Len(ts) + Len(ns) - 1
<1>1. PICK front : front = SymbolOf(ts, ns, r.head) \o Mark("div_0")
  OBVIOUS
<1>2. front = Append(SymbolOf(ts, ns, r.head), MarkToken("div_0")) /\ front \in Seq(Token)
  <2>1. "div_0" \in Marks
    BY DEF Marks
  <2>2. PICK text, m : text = SymbolOf(ts, ns, r.head) /\ m = MarkToken("div_0")
    OBVIOUS
  <2>3. r.head \in 0 .. N
    OBVIOUS
  <2>4. text \in Seq(Token) /\ m \in Token /\ Mark("div_0") = <<m>>
    BY <2>1, <2>2, <2>3, TokensAre, SymbolOfIs
  <2>5. text \o <<m>> = Append(text, m) /\ Append(text, m) \in Seq(Token)
    BY <2>4, AppendOne
  <2> QED
    BY <1>1, <2>2, <2>4, <2>5
<1>3. PICK body : body = r.body /\ body \in Seq(Int)
  BY DEF RuleType
<1>4. BodyOf(ts, ns, body) \in Seq(Seq(Token))
  <2>1. \A i \in 1 .. Len(body) : SymbolOf(ts, ns, body[i]) \in Seq(Token)
    BY <1>3, SymbolOfIs
  <2> QED
    BY <1>3, <2>1 DEF BodyOf
<1>5. FlattenSeq(BodyOf(ts, ns, body)) \in Seq(Token)
  <2>1. <<>> \in Seq(Token)
    OBVIOUS
  <2> QED
    BY <1>4, <2>1, FlattenAppend
<1>6. BegunRule(ts, ns, r) \in Seq(Token)
  BY <1>1, <1>2, <1>3, <1>5 DEF BegunRule
<1>7. ASSUME r.body = <<>>
      PROVE  BegunRule(ts, ns, r) = front
  <2>1. BodyOf(ts, ns, <<>>) = <<>>
    BY DEF BodyOf
  <2>2. front \o <<>> = front
    BY <1>2
  <2> QED
    BY <1>1, <1>7, <2>1, <2>2, FlattenEmpty DEF BegunRule
<1>8. ASSUME NEW x \in 0 .. N
      PROVE  BegunRule(ts, ns, [r EXCEPT !.body = Append(@, x)]) =
               BegunRule(ts, ns, r) \o SymbolOf(ts, ns, x)
  <2>1. PICK more, piece : more = Append(body, x) /\ piece = SymbolOf(ts, ns, x)
    OBVIOUS
  <2>2. piece \in Seq(Token)
    BY <2>1, SymbolOfIs
  <2>3. BodyOf(ts, ns, more) = Append(BodyOf(ts, ns, body), piece)
    <3>1. /\ Len(more) = Len(body) + 1 /\ more[Len(body) + 1] = x
          /\ \A i \in 1 .. Len(body) : more[i] = body[i]
      BY <1>3, <2>1
    <3> QED
      BY <1>3, <1>4, <2>1, <2>2, <3>1 DEF BodyOf
  <2>4. FlattenSeq(BodyOf(ts, ns, more)) = FlattenSeq(BodyOf(ts, ns, body)) \o piece
    BY <1>4, <2>2, <2>3, FlattenAppend
  <2>5. front \o (FlattenSeq(BodyOf(ts, ns, body)) \o piece)
          = (front \o FlattenSeq(BodyOf(ts, ns, body))) \o piece
    <3>1. PICK flat : flat = FlattenSeq(BodyOf(ts, ns, body))
      OBVIOUS
    <3>2. front \in Seq(Token) /\ flat \in Seq(Token) /\ piece \in Seq(Token)
      BY <1>2, <1>5, <2>2, <3>1
    <3>3. front \o (flat \o piece) = (front \o flat) \o piece
      BY ONLY <3>2
    <3> QED
      BY <3>1, <3>3
  <2>6. PICK r1 : r1 = [r EXCEPT !.body = Append(@, x)]
    OBVIOUS
  <2>7. r1.head = r.head /\ r1.body = more
    BY <1>3, <2>1, <2>6 DEF RuleType
  <2>8. BegunRule(ts, ns, r1) = front \o FlattenSeq(BodyOf(ts, ns, more))
    BY <1>1, <2>7 DEF BegunRule
  <2>9. BegunRule(ts, ns, r) = front \o FlattenSeq(BodyOf(ts, ns, body))
    BY <1>1, <1>3 DEF BegunRule
  <2> QED
    BY <2>1, <2>4, <2>5, <2>6, <2>8, <2>9
<1> QED
  BY <1>2, <1>6, <1>7, <1>8

LEMMA RulesTextGrows ==
  ASSUME NEW ts \in Seq(TerminalNames), NEW ns \in Seq(NonterminalNames),
         NEW rs \in Seq(RuleType),
         \A n \in 1 .. Len(rs) : IsRule(rs[n], Len(ts), Len(ns))
  PROVE  /\ RulesText(ts, ns, rs) \in Seq(Token)
         /\ \A r \in RuleType :
              IsRule(r, Len(ts), Len(ns)) =>
                RulesText(ts, ns, Append(rs, r)) =
                  Append(RulesText(ts, ns, rs) \o (BegunRule(ts, ns, r) \o Mark("div_1")),
                         MarkToken("code"))
         /\ RulesText(ts, ns, <<>>) =
              Append(NonterminalsText(ts, ns), MarkToken("rules"))
<1>1. PICK front : front = NonterminalsText(ts, ns) \o Mark("rules")
  OBVIOUS
<1>2. /\ MarkToken("rules") \in Token /\ Mark("rules") = <<MarkToken("rules")>>
      /\ MarkToken("div_1") \in Token /\ Mark("div_1") = <<MarkToken("div_1")>>
      /\ MarkToken("code") \in Token /\ Mark("code") = <<MarkToken("code")>>
  <2>1. {"rules", "div_1", "code"} \subseteq Marks
    BY DEF Marks
  <2> QED
    BY <2>1, TokensAre
<1>3. front = Append(NonterminalsText(ts, ns), MarkToken("rules")) /\ front \in Seq(Token)
  <2>1. PICK text, m : text = NonterminalsText(ts, ns) /\ m = MarkToken("rules")
    OBVIOUS
  <2>2. text \in Seq(Token) /\ m \in Token /\ Mark("rules") = <<m>>
    BY <1>2, <2>1, NonterminalsTextGrows
  <2>3. text \o <<m>> = Append(text, m) /\ Append(text, m) \in Seq(Token)
    BY <2>2, AppendOne
  <2> QED
    BY <1>1, <2>1, <2>2, <2>3
<1>4. ASSUME NEW r \in RuleType, IsRule(r, Len(ts), Len(ns))
      PROVE  /\ BegunRule(ts, ns, r) \o Mark("div_1") \in Seq(Token)
             /\ RuleOf(ts, ns, r) \in Seq(Token)
             /\ RuleOf(ts, ns, r) =
                  Append(BegunRule(ts, ns, r) \o Mark("div_1"), MarkToken("code"))
  <2>1. PICK text, d, c : /\ text = BegunRule(ts, ns, r)
                          /\ d = MarkToken("div_1") /\ c = MarkToken("code")
    OBVIOUS
  <2>2. text \in Seq(Token)
    BY <1>4, <2>1, BegunRuleGrows DEF IsRule
  <2>3. d \in Token /\ c \in Token /\ Mark("div_1") = <<d>> /\ Mark("code") = <<c>>
    BY <1>2, <2>1
  <2>4. text \o <<d>> \in Seq(Token)
    BY <2>2, <2>3, AppendOne
  <2>5. (text \o <<d>>) \o <<c>> = Append(text \o <<d>>, c)
        /\ Append(text \o <<d>>, c) \in Seq(Token)
    BY <2>3, <2>4, AppendOne
  <2> QED
    BY <2>1, <2>3, <2>4, <2>5 DEF RuleOf
<1>5. RulesOf(ts, ns, rs) \in Seq(Seq(Token))
  <2>1. \A n \in 1 .. Len(rs) : RuleOf(ts, ns, rs[n]) \in Seq(Token)
    BY <1>4
  <2> QED
    BY <2>1 DEF RulesOf
<1>6. FlattenSeq(RulesOf(ts, ns, rs)) \in Seq(Token)
  <2>1. <<>> \in Seq(Token)
    OBVIOUS
  <2> QED
    BY <1>5, <2>1, FlattenAppend
<1>7. RulesText(ts, ns, rs) \in Seq(Token)
  BY <1>1, <1>3, <1>6 DEF RulesText
<1>8. ASSUME NEW r \in RuleType, IsRule(r, Len(ts), Len(ns))
      PROVE  RulesText(ts, ns, Append(rs, r)) =
               Append(RulesText(ts, ns, rs) \o (BegunRule(ts, ns, r) \o Mark("div_1")),
                      MarkToken("code"))
  <2>1. PICK more, piece, b, c :
          /\ more = Append(rs, r) /\ piece = RuleOf(ts, ns, r)
          /\ b = BegunRule(ts, ns, r) \o Mark("div_1") /\ c = MarkToken("code")
    OBVIOUS
  <2>2. /\ piece \in Seq(Token) /\ b \in Seq(Token) /\ c \in Token
        /\ piece = Append(b, c)
    BY <1>2, <1>4, <1>8, <2>1
  <2>3. RulesOf(ts, ns, more) = Append(RulesOf(ts, ns, rs), piece)
    <3>1. /\ Len(more) = Len(rs) + 1 /\ more[Len(rs) + 1] = r
          /\ \A i \in 1 .. Len(rs) : more[i] = rs[i]
      BY <2>1
    <3>2. PICK n, old : n = Len(rs) /\ old = RulesOf(ts, ns, rs)
      OBVIOUS
    <3>3. old \in Seq(Seq(Token)) /\ n \in Nat
          /\ old = [i \in 1 .. n |-> RuleOf(ts, ns, rs[i])]
      BY <1>5, <3>2 DEF RulesOf
    <3>4. RulesOf(ts, ns, more) =
            [i \in 1 .. n + 1 |-> RuleOf(ts, ns, more[i])]
      BY <3>1, <3>2 DEF RulesOf
    <3>5. \A i \in 1 .. n : RuleOf(ts, ns, more[i]) = old[i]
      BY <3>1, <3>2, <3>3
    <3>6. RuleOf(ts, ns, more[n + 1]) = piece
      BY <2>1, <3>1, <3>2
    <3> QED
      BY <2>2, <3>2, <3>3, <3>4, <3>5, <3>6
  <2>4. PICK flat : flat = FlattenSeq(RulesOf(ts, ns, rs)) /\ flat \in Seq(Token)
    BY <1>6
  <2>5. FlattenSeq(RulesOf(ts, ns, more)) = flat \o piece
    BY <1>5, <2>2, <2>3, <2>4, FlattenAppend
  <2>6. front \o (flat \o piece) = (front \o flat) \o piece
    <3>1. front \in Seq(Token) /\ flat \in Seq(Token) /\ piece \in Seq(Token)
      BY <1>3, <2>2, <2>4
    <3> QED
      BY <3>1, ConcatsAssociate
  <2>7. (front \o flat) \o Append(b, c) = Append((front \o flat) \o b, c)
    <3>1. front \o flat \in Seq(Token)
      BY <1>3, <2>4
    <3> QED
      BY <2>2, <3>1, ConcatInSeq
  <2> QED
    BY <1>1, <2>1, <2>2, <2>4, <2>5, <2>6, <2>7 DEF RulesText
<1>9. RulesText(ts, ns, <<>>) = front
  <2>1. RulesOf(ts, ns, <<>>) = <<>>
    BY DEF RulesOf
  <2>2. front \o <<>> = front
    BY <1>3
  <2> QED
    BY <1>1, <2>1, <2>2, FlattenEmpty DEF RulesText
<1> QED
  BY <1>3, <1>7, <1>8, <1>9

-----------------------------------------------------------------------------
(* The steps. *)
LEMMA SymbolIndexes ==
  ASSUME LoaderTypes
  PROVE  /\ \A name : Known(terminals, name) =>
              /\ TerminalIdx(name) \in 0 .. Len(terminals) - 1
              /\ TerminalIdx(name) \in Symbols
              /\ terminals[TerminalIdx(name) + 1] = name
         /\ \A name : Known(nonterminals, name) =>
              /\ NonterminalIdx(name) \in Heads /\ NonterminalIdx(name) \in Symbols
              /\ NonterminalIdx(name) >= Len(terminals)
              /\ nonterminals[NonterminalIdx(name) - Len(terminals) + 1] = name
<1>1. Len(terminals) \in Nat /\ Len(nonterminals) \in Nat
  BY DEF LoaderTypes
<1>2. ASSUME NEW name, Known(terminals, name)
      PROVE  /\ TerminalIdx(name) \in 0 .. Len(terminals) - 1
             /\ TerminalIdx(name) \in Symbols
             /\ terminals[TerminalIdx(name) + 1] = name
  <2>1. PICK i : i = IndexOf(terminals, name)
    OBVIOUS
  <2>2. i \in 1 .. Len(terminals) /\ terminals[i] = name
    BY <1>2, <2>1, IndexOfKnown DEF LoaderTypes
  <2>3. TerminalIdx(name) = i - 1 /\ (i - 1) + 1 = i
    BY <2>1, <2>2 DEF TerminalIdx
  <2> QED
    BY <1>1, <2>2, <2>3 DEF Symbols
<1>3. ASSUME NEW name, Known(nonterminals, name)
      PROVE  /\ NonterminalIdx(name) \in Heads /\ NonterminalIdx(name) \in Symbols
             /\ NonterminalIdx(name) >= Len(terminals)
             /\ nonterminals[NonterminalIdx(name) - Len(terminals) + 1] = name
  <2>1. PICK i, n : i = IndexOf(nonterminals, name) /\ n = Len(terminals)
    OBVIOUS
  <2>2. i \in 1 .. Len(nonterminals) /\ nonterminals[i] = name
    BY <1>3, <2>1, IndexOfKnown DEF LoaderTypes
  <2>3. NonterminalIdx(name) = n + i - 1 /\ (n + i - 1) - n + 1 = i
    BY <1>1, <2>1, <2>2 DEF NonterminalIdx
  <2> QED
    BY <1>1, <2>1, <2>2, <2>3 DEF Symbols, Heads
<1> QED
  BY <1>2, <1>3

LEMMA FileTaken ==
  ASSUME LoaderTypes, NEW st, NEW tok \in Token, Take(st, tok)
  PROVE  load_stage = st /\ file' = Append(file, tok) /\ file' \in Seq(Token)
BY DEF LoaderTypes, Take

(* A call that fails leaves what was loaded so far, and nothing is claimed. *)
LEMMA FailureKept ==
  ASSUME NEW error, FailWith(error)
  PROVE  NamesInv' /\ RulesInv' /\ TextInv' /\ KeysInv' /\ FreshInv'
BY DEF FailWith, NamesInv, RulesInv, TextInv, KeysInv, FreshInv, Loaded, Opening

LEMMA AwaitedTokens ==
  ASSUME LoaderTypes, AwaitToken
  PROVE  \E tok \in Token :
           /\ file' = Append(file, tok) /\ file' \in Seq(Token)
           /\ \/ /\ load_stage = "init_flag" /\ load_stage' = "init_code"
                 /\ tok = MarkToken("init_code")
              \/ /\ load_stage = "init_code" /\ load_stage' = "terminals_flag"
                 /\ tok = MarkToken("code")
              \/ /\ load_stage = "terminals_flag" /\ load_stage' = "terminals"
                 /\ tok = MarkToken("terminals")
           /\ UNCHANGED <<declVars, ruleVars, keyVars, error_type>>
<1>1. PICK st \in DOMAIN Awaited, tok \in Token :
        /\ Take(st, tok)
        /\ tok.term = Awaited[st][1]
        /\ load_stage' = Awaited[st][2]
        /\ UNCHANGED <<declVars, ruleVars, keyVars, error_type>>
  BY DEF AwaitToken
<1>2. \/ /\ st = "init_flag" /\ tok.term = "init_code" /\ load_stage' = "init_code"
      \/ /\ st = "init_code" /\ tok.term = "code" /\ load_stage' = "terminals_flag"
      \/ /\ st = "terminals_flag" /\ tok.term = "terminals" /\ load_stage' = "terminals"
  BY <1>1 DEF Awaited
<1>3. {"init_code", "code", "terminals"} \subseteq Marks
  BY DEF Marks
<1>4. tok = MarkToken(tok.term)
  BY <1>2, <1>3, TokenForms
<1>5. load_stage = st /\ file' = Append(file, tok) /\ file' \in Seq(Token)
  BY <1>1, FileTaken
<1> QED
  BY <1>1, <1>2, <1>4, <1>5

LEMMA SymbolNames ==
  ASSUME LoaderTypes, NEW tok \in Token
  PROVE  /\ tok.term = "identifier" /\ Known(terminals, tok.name) =>
              SymbolOf(terminals, nonterminals, TerminalIdx(tok.name)) = <<tok>>
         /\ tok.term = "nonterm_id" /\ Known(nonterminals, tok.name) =>
              SymbolOf(terminals, nonterminals, NonterminalIdx(tok.name)) = <<tok>>
<1>1. terminals \in Seq(TerminalNames) /\ nonterminals \in Seq(NonterminalNames)
  BY DEF LoaderTypes
<1>2. ASSUME tok.term = "identifier", Known(terminals, tok.name)
      PROVE  SymbolOf(terminals, nonterminals, TerminalIdx(tok.name)) = <<tok>>
  <2>1. PICK x : x = TerminalIdx(tok.name)
    OBVIOUS
  <2>2. x \in 0 .. (Len(terminals) + Len(nonterminals) - 1)
        /\ x < Len(terminals) /\ terminals[x + 1] = tok.name
    BY <1>1, <1>2, <2>1, SymbolIndexes DEF Symbols
  <2>3. SymbolOf(terminals, nonterminals, x) = <<NameToken(tok.name)>>
    BY <1>1, <2>2, SymbolOfIs
  <2> QED
    BY <1>2, <2>1, <2>3, TokenForms
<1>3. ASSUME tok.term = "nonterm_id", Known(nonterminals, tok.name)
      PROVE  SymbolOf(terminals, nonterminals, NonterminalIdx(tok.name)) = <<tok>>
  <2>1. PICK x : x = NonterminalIdx(tok.name)
    OBVIOUS
  <2>2. x \in 0 .. (Len(terminals) + Len(nonterminals) - 1)
        /\ x >= Len(terminals) /\ nonterminals[x - Len(terminals) + 1] = tok.name
    BY <1>1, <1>3, <2>1, SymbolIndexes DEF Symbols
  <2>3. SymbolOf(terminals, nonterminals, x) = <<NontermToken(tok.name)>>
    BY <1>1, <2>2, SymbolOfIs
  <2> QED
    BY <1>3, <2>1, <2>3, TokenForms
<1> QED
  BY <1>2, <1>3

LEMMA RuleHeadDoes ==
  ASSUME LoaderTypes, RuleHead
  PROVE  \E tok \in Token :
           /\ Take("rules", tok) /\ rule_state = 0
           /\ \/ /\ rule_state' = 1 /\ load_stage' = load_stage
                 /\ \E x \in Heads :
                      /\ SymbolOf(terminals, nonterminals, x) = <<tok>>
                      /\ new_rule' = [new_rule EXCEPT !.head = x]
              \/ UNCHANGED <<new_rule, rule_state>> /\ \E error : FailWith(error)
           /\ UNCHANGED <<declVars, rules, rule_codes, keyVars>>
<1>1. PICK tok \in Token :
        /\ Take("rules", tok)
        /\ rule_state = 0 /\ tok.term = "nonterm_id"
        /\ IF Known(nonterminals, tok.name)
             THEN /\ new_rule' = [new_rule EXCEPT !.head = NonterminalIdx(tok.name)]
                  /\ rule_state' = 1
                  /\ UNCHANGED <<load_stage, error_type>>
             ELSE /\ \E error : FailWith(error)
                  /\ UNCHANGED <<new_rule, rule_state>>
        /\ UNCHANGED <<declVars, rules, rule_codes, keyVars>>
  BY DEF RuleHead
<1>2. PICK idx : idx = NonterminalIdx(tok.name)
  OBVIOUS
<1>3. CASE Known(nonterminals, tok.name)
  <2>1. idx \in Heads /\ SymbolOf(terminals, nonterminals, idx) = <<tok>>
    BY <1>1, <1>2, <1>3, SymbolIndexes, SymbolNames
  <2> QED
    BY <1>1, <1>2, <1>3, <2>1
<1>4. CASE ~Known(nonterminals, tok.name)
  BY <1>1, <1>4
<1> QED
  BY <1>3, <1>4

LEMMA RuleItemDoes ==
  ASSUME LoaderTypes, RuleItem
  PROVE  \E tok \in Token :
           /\ Take("rules", tok) /\ rule_state = 2
           /\ \/ /\ load_stage' = load_stage
                 /\ \E x \in Symbols :
                      /\ SymbolOf(terminals, nonterminals, x) = <<tok>>
                      /\ new_rule' = [new_rule EXCEPT !.body = Append(@, x)]
              \/ UNCHANGED new_rule /\ \E error : FailWith(error)
           /\ UNCHANGED <<declVars, rule_state, rules, rule_codes, keyVars>>
<1>1. PICK tok \in Token :
        /\ Take("rules", tok)
        /\ rule_state = 2 /\ tok.term \in {"identifier", "nonterm_id"}
        /\ IF (IF tok.term = "identifier" THEN Known(terminals, tok.name)
                                          ELSE Known(nonterminals, tok.name))
             THEN /\ new_rule' = [new_rule EXCEPT !.body = Append(@,
                       IF tok.term = "identifier" THEN TerminalIdx(tok.name)
                                                  ELSE NonterminalIdx(tok.name))]
                  /\ UNCHANGED <<load_stage, error_type>>
             ELSE /\ \E error : FailWith(error)
                  /\ UNCHANGED new_rule
        /\ UNCHANGED <<declVars, rule_state, rules, rule_codes, keyVars>>
  BY DEF RuleItem
<1>2. PICK idx : idx = IF tok.term = "identifier" THEN TerminalIdx(tok.name)
                                                  ELSE NonterminalIdx(tok.name)
  OBVIOUS
<1>3. CASE IF tok.term = "identifier" THEN Known(terminals, tok.name)
                                      ELSE Known(nonterminals, tok.name)
  <2>1. idx \in Symbols /\ SymbolOf(terminals, nonterminals, idx) = <<tok>>
    <3>1. CASE tok.term = "identifier"
      BY <1>2, <1>3, <3>1, SymbolIndexes, SymbolNames
    <3>2. CASE tok.term # "identifier"
      BY <1>1, <1>2, <1>3, <3>2, SymbolIndexes, SymbolNames
    <3> QED
      BY <3>1, <3>2
  <2>2. new_rule' = [new_rule EXCEPT !.body = Append(@, idx)]
    BY <1>1, <1>2, <1>3
  <2> QED
    BY <1>1, <1>3, <2>1, <2>2
<1>4. CASE ~(IF tok.term = "identifier" THEN Known(terminals, tok.name)
                                        ELSE Known(nonterminals, tok.name))
  BY <1>1, <1>4
<1> QED
  BY <1>3, <1>4

LEMMA RuleParts ==
  ASSUME NEW r \in RuleType
  PROVE  /\ r.head \in Int /\ r.body \in Seq(Int)
         /\ \A x \in Int : /\ [r EXCEPT !.head = x] \in RuleType
                           /\ [r EXCEPT !.head = x].head = x
                           /\ [r EXCEPT !.head = x].body = r.body
         /\ \A b \in Seq(Int) : /\ [r EXCEPT !.body = b] \in RuleType
                                /\ [r EXCEPT !.body = b].body = b
                                /\ [r EXCEPT !.body = b].head = r.head
         /\ \A x \in Int : /\ [r EXCEPT !.body = Append(@, x)] \in RuleType
                           /\ [r EXCEPT !.body = Append(@, x)].body = Append(r.body, x)
                           /\ [r EXCEPT !.body = Append(@, x)].head = r.head
         /\ BlankRule \in RuleType /\ <<>> \in Seq(Int)
<1>1. <<>> \in Seq(Int) /\ BlankRule \in RuleType
  BY DEF BlankRule, RuleType, NotExist
<1>2. r.head \in Int /\ r.body \in Seq(Int)
  BY DEF RuleType
<1>3. \A x \in Int : Append(r.body, x) \in Seq(Int)
  BY <1>2
<1> QED
  BY <1>1, <1>2, <1>3 DEF RuleType

LEMMA TypesKept ==
  ASSUME LoaderTypes, FreshInv, NamesInv, RulesInv, LoadNext
  PROVE  LoaderTypes'
<1>names. nonterminals \in Seq(NonterminalNames)
  BY DEF LoaderTypes
<1>rule. new_rule \in RuleType
  BY DEF LoaderTypes
<1>rules. rules \in Seq(RuleType)
  BY DEF LoaderTypes
<1>keys. t_idx \in Nat \ {0} /\ end_terminal \in Int /\ skip_terminals \in Seq(Int)
  BY DEF LoaderTypes
<1> USE DEF declVars, ruleVars, keyVars, Opening, Stages
<1>1. CASE AwaitToken
  BY <1>1, AwaitedTokens DEF LoaderTypes
<1>2. CASE WrongToken
  BY <1>2, FileTaken DEF WrongToken, FailWith, LoaderTypes
<1>3. CASE TerminalName
  BY <1>3, FileTaken DEF TerminalName, FailWith, LoaderTypes
<1>4. CASE TerminalExpression
  BY <1>4, FileTaken DEF TerminalExpression, NamesInv, LoaderTypes
<1>5. CASE TerminalError
  BY <1>5, FileTaken DEF TerminalError, FailWith, LoaderTypes
<1>6. CASE TerminalsDone
  BY <1>6, FileTaken DEF TerminalsDone, FailWith, LoaderTypes
<1>7. CASE NonterminalName
  <2>1. PICK tok \in Token :
          /\ Take("nonterminals", tok)
          /\ tok.term = "nonterm_id"
          /\ \/ nonterminals' = Append(nonterminals, tok.name) /\ load_stage' = load_stage
             \/ nonterminals' = nonterminals /\ load_stage' = "failed"
          /\ UNCHANGED <<terminal_state, new_terminal, terminals, ruleVars, keyVars>>
    BY <1>7 DEF NonterminalName, FailWith
  <2>2. tok.name \in NonterminalNames /\ file' \in Seq(Token)
    BY <2>1, FileTaken, TokenForms
  <2>3. nonterminals' \in Seq(NonterminalNames)
    BY <1>names, <2>1, <2>2
  <2> QED
    BY <2>1, <2>2, <2>3 DEF LoaderTypes
<1>8. CASE NonterminalError
  BY <1>8, FileTaken DEF NonterminalError, FailWith, LoaderTypes
<1>9. CASE NonterminalsDone
  BY <1>9, FileTaken DEF NonterminalsDone, FailWith, LoaderTypes
<1>10. CASE RuleHead
  <2>1. PICK tok \in Token, x \in Int :
          /\ Take("rules", tok)
          /\ \/ /\ new_rule' = [new_rule EXCEPT !.head = x]
                /\ rule_state' = 1 /\ load_stage' = load_stage
             \/ UNCHANGED <<new_rule, rule_state>> /\ load_stage' = "failed"
          /\ UNCHANGED <<declVars, rules, rule_codes, keyVars>>
    <3>1. \A x \in Heads : x \in Int
      BY DEF Heads
    <3>2. \A error : FailWith(error) => load_stage' = "failed"
      BY DEF FailWith
    <3> QED
      BY <1>10, <3>1, <3>2, RuleHeadDoes
  <2>2. file' \in Seq(Token)
    BY <2>1, FileTaken
  <2>3. new_rule' \in RuleType
    BY <1>rule, <2>1, RuleParts
  <2> QED
    BY <2>1, <2>2, <2>3 DEF LoaderTypes
<1>11. CASE RuleArrow
  <2>1. new_rule' \in RuleType
    BY <1>rule, <1>11, RuleParts DEF RuleArrow
  <2> QED
    BY <1>11, <2>1, FileTaken DEF RuleArrow, LoaderTypes
<1>12. CASE RuleItem
  <2>1. PICK tok \in Token, idx \in Int :
          /\ Take("rules", tok)
          /\ \/ /\ new_rule' = [new_rule EXCEPT !.body = Append(@, idx)]
                /\ load_stage' = load_stage
             \/ UNCHANGED new_rule /\ load_stage' = "failed"
          /\ UNCHANGED <<declVars, rule_state, rules, rule_codes, keyVars>>
    <3>1. \A x \in Symbols : x \in Int
      BY DEF Symbols
    <3>2. \A error : FailWith(error) => load_stage' = "failed"
      BY DEF FailWith
    <3> QED
      BY <1>12, <3>1, <3>2, RuleItemDoes
  <2>2. file' \in Seq(Token)
    BY <2>1, FileTaken
  <2>3. new_rule' \in RuleType
    BY <1>rule, <2>1, RuleParts
  <2> QED
    BY <2>1, <2>2, <2>3 DEF LoaderTypes
<1>13. CASE RuleBodyDone
  BY <1>13, FileTaken DEF RuleBodyDone, LoaderTypes
<1>14. CASE RuleCode
  <2>1. PICK tok \in Token :
          /\ Take("rules", tok)
          /\ rule_codes' = rule_codes + 1
          /\ \/ /\ rules' = Append(rules, new_rule) /\ new_rule' = BlankRule
                /\ rule_state' = 0 /\ load_stage' = load_stage
             \/ UNCHANGED <<rules, new_rule, rule_state>> /\ load_stage' = "failed"
          /\ UNCHANGED <<declVars, keyVars>>
    BY <1>14 DEF RuleCode, FailWith
  <2>2. file' \in Seq(Token)
    BY <2>1, FileTaken
  <2>3. new_rule' \in RuleType
    BY <1>rule, <2>1, RuleParts
  <2>4. rules' \in Seq(RuleType)
    BY <1>rule, <1>rules, <2>1
  <2> QED
    BY <2>1, <2>2, <2>3, <2>4 DEF LoaderTypes
<1>15. CASE EmptyBody
  BY <1>15, FileTaken DEF EmptyBody, FailWith, LoaderTypes
<1>16. CASE RuleError
  BY <1>16, FileTaken DEF RuleError, FailWith, LoaderTypes
<1>17. CASE RulesDone
  BY <1>17, FileTaken DEF RulesDone, FailWith, LoaderTypes
<1>18. CASE KeyTerminal
  <2>1. /\ load_stage' = load_stage \/ load_stage' = "failed"
        /\ t_idx' \in Nat \ {0}
        /\ end_terminal' \in Int
        /\ skip_terminals' \in Seq(Int)
        /\ UNCHANGED <<file, declVars, ruleVars>>
    <3>1. t_idx - 1 \in Int /\ t_idx + 1 \in Nat \ {0}
          /\ Append(skip_terminals, t_idx - 1) \in Seq(Int)
      BY <1>keys
    <3> QED
      BY <1>keys, <1>18, <3>1 DEF KeyTerminal, FailWith, NextKey
  <2> QED
    BY <2>1 DEF LoaderTypes
<1>19. CASE KeysDone
  BY <1>19 DEF KeysDone, LoaderTypes
<1>20. CASE MakeTables
  BY <1>20 DEF MakeTables, FailWith, LoaderTypes
<1> QED
  BY <1>1, <1>2, <1>3, <1>4, <1>5, <1>6, <1>7, <1>8, <1>9, <1>10, <1>11, <1>12,
     <1>13, <1>14, <1>15, <1>16, <1>17, <1>18, <1>19, <1>20 DEF LoadNext

LEMMA FreshKept ==
  ASSUME LoaderTypes, FreshInv, LoadNext
  PROVE  FreshInv'
<1> USE DEF FreshInv, declVars, ruleVars, keyVars, Opening
<1>1. CASE AwaitToken
  BY <1>1, AwaitedTokens
<1>2. CASE TerminalName \/ TerminalExpression \/ TerminalsDone
  BY <1>2 DEF TerminalName, TerminalExpression, TerminalsDone, FailWith, Take
<1>3. CASE NonterminalName \/ NonterminalsDone
  BY <1>3 DEF NonterminalName, NonterminalsDone, FailWith, Take
<1>4. CASE RuleHead \/ RuleArrow \/ RuleItem \/ RuleBodyDone \/ RuleCode
  BY <1>4 DEF RuleHead, RuleArrow, RuleItem, RuleBodyDone, RuleCode, FailWith, Take
<1>5. CASE RulesDone \/ KeyTerminal \/ KeysDone \/ MakeTables
  BY <1>5 DEF RulesDone, KeyTerminal, KeysDone, MakeTables, FailWith, Take
<1>6. CASE WrongToken \/ TerminalError \/ NonterminalError \/ EmptyBody \/ RuleError
  BY <1>6 DEF WrongToken, TerminalError, NonterminalError, EmptyBody, RuleError, FailWith
<1> QED
  BY <1>1, <1>2, <1>3, <1>4, <1>5, <1>6 DEF LoadNext

LEMMA NamesKept ==
  ASSUME LoaderTypes, FreshInv, NamesInv, LoadNext
  PROVE  NamesInv'
<1>types. terminals \in Seq(TerminalNames) /\ nonterminals \in Seq(NonterminalNames)
  BY DEF LoaderTypes
<1>fails. \A error : FailWith(error) => NamesInv'
  BY FailureKept
<1>1. CASE AwaitToken
  <2>1. /\ UNCHANGED <<terminals, nonterminals, terminal_state, new_terminal>>
        /\ load_stage \in Opening /\ load_stage' \in Opening \union {"terminals"}
    BY <1>1, AwaitedTokens DEF declVars, Opening
  <2> QED
    BY <2>1 DEF NamesInv, Opening
<1>2. CASE TerminalName
  <2>1. PICK tok \in Token :
          /\ Take("terminals", tok) /\ tok.term = "identifier"
          /\ new_terminal' = tok.name
          /\ \/ FailWith("CREATE_RULES_DUPLICATE_TERMINAL")
             \/ ~Known(terminals, tok.name) /\ load_stage' = load_stage
          /\ UNCHANGED <<terminals, nonterminals>>
    BY <1>2 DEF TerminalName
  <2>2. tok.name \in TerminalNames /\ load_stage = "terminals"
    BY <2>1, TokenForms DEF Take
  <2> QED
    BY <1>fails, <2>1, <2>2 DEF NamesInv, Opening
<1>3. CASE TerminalExpression
  <2>1. /\ terminal_state = 1 /\ terminal_state' = 0
        /\ load_stage = "terminals" /\ load_stage' = load_stage
        /\ terminals' = Append(terminals, new_terminal) /\ UNCHANGED nonterminals
    BY <1>3 DEF TerminalExpression, Take
  <2>2. /\ IsInjective(terminals) /\ IsInjective(nonterminals)
        /\ new_terminal \in TerminalNames /\ ~Known(terminals, new_terminal)
    BY <2>1 DEF NamesInv
  <2>3. IsInjective(terminals')
    BY <1>types, <2>1, <2>2, InjectiveAppend DEF Known
  <2> QED
    BY <2>1, <2>2, <2>3 DEF NamesInv, Opening
<1>4. CASE TerminalsDone
  BY <1>4, <1>fails DEF TerminalsDone, NamesInv, Opening, declVars, Take
<1>5. CASE NonterminalName
  <2>1. PICK tok \in Token :
          /\ Take("nonterminals", tok) /\ tok.term = "nonterm_id"
          /\ \/ FailWith("CREATE_RULES_DUPLICATE_NONTERMINAL")
             \/ /\ ~Known(nonterminals, tok.name) /\ load_stage' = load_stage
                /\ nonterminals' = Append(nonterminals, tok.name)
          /\ UNCHANGED <<terminals, terminal_state, new_terminal>>
    BY <1>5 DEF NonterminalName
  <2>2. tok.name \in NonterminalNames /\ load_stage = "nonterminals"
    BY <2>1, TokenForms DEF Take
  <2>3. CASE FailWith("CREATE_RULES_DUPLICATE_NONTERMINAL")
    BY <1>fails, <2>3
  <2>4. CASE /\ ~Known(nonterminals, tok.name) /\ load_stage' = load_stage
             /\ nonterminals' = Append(nonterminals, tok.name)
    <3>1. IsInjective(terminals) /\ IsInjective(nonterminals) /\ terminals # <<>>
          /\ (terminal_state = 1 =>
                new_terminal \in TerminalNames /\ ~Known(terminals, new_terminal))
      BY <2>2 DEF NamesInv, Opening
    <3>2. IsInjective(nonterminals') /\ nonterminals' # <<>>
      BY <1>types, <2>2, <2>4, <3>1, InjectiveAppend, AppendNotEmpty DEF Known
    <3> QED
      BY <2>1, <2>2, <2>4, <3>1, <3>2 DEF NamesInv
  <2> QED
    BY <2>1, <2>3, <2>4
<1>6. CASE NonterminalsDone
  BY <1>6, <1>fails DEF NonterminalsDone, NamesInv, Opening, declVars, Take
<1>7. CASE RuleHead \/ RuleArrow \/ RuleItem \/ RuleBodyDone \/ RuleCode \/ RulesDone
           \/ KeyTerminal \/ KeysDone \/ MakeTables
  <2>1. /\ UNCHANGED <<terminals, nonterminals, terminal_state, new_terminal>>
        /\ load_stage \notin Opening \union {"terminals", "nonterminals", "failed"}
        /\ \/ load_stage' \notin Opening \union {"terminals", "nonterminals", "failed"}
           \/ load_stage' = "failed"
    BY <1>7 DEF RuleHead, RuleArrow, RuleItem, RuleBodyDone, RuleCode, RulesDone,
                KeyTerminal, KeysDone, MakeTables, declVars, Take, FailWith, Opening
  <2> QED
    BY <2>1 DEF NamesInv
<1>8. CASE WrongToken \/ TerminalError \/ NonterminalError \/ EmptyBody \/ RuleError
  BY <1>8, <1>fails DEF WrongToken, TerminalError, NonterminalError, EmptyBody, RuleError
<1> QED
  BY <1>1, <1>2, <1>3, <1>4, <1>5, <1>6, <1>7, <1>8 DEF LoadNext

LEMMA RulesKept ==
  ASSUME LoaderTypes, FreshInv, RulesInv, LoadNext
  PROVE  RulesInv'
<1>types. new_rule \in RuleType /\ rules \in Seq(RuleType)
          /\ Len(terminals) \in Nat /\ Len(nonterminals) \in Nat
  BY DEF LoaderTypes
<1>fails. \A error : FailWith(error) => RulesInv'
  BY FailureKept
<1>1. CASE AwaitToken \/ TerminalName \/ TerminalExpression \/ TerminalsDone
           \/ NonterminalName \/ NonterminalsDone
  <2>1. /\ UNCHANGED <<rules, rule_codes, rule_state>>
        /\ load_stage \in Opening \union {"terminals", "nonterminals"}
        /\ load_stage' \in Opening \union {"terminals", "nonterminals", "rules", "failed"}
    <3>1. CASE AwaitToken
      BY <3>1, AwaitedTokens DEF ruleVars, Opening
    <3>2. CASE TerminalName \/ TerminalExpression \/ TerminalsDone
               \/ NonterminalName \/ NonterminalsDone
      BY <3>2 DEF TerminalName, TerminalExpression, TerminalsDone, NonterminalName,
                  NonterminalsDone, ruleVars, Opening, Take, FailWith
    <3> QED
      BY <1>1, <3>1, <3>2
  <2>2. rules' = <<>> /\ rule_codes' = 0 /\ rule_state' = 0
    BY <2>1 DEF FreshInv
  <2>3. ~Loaded'
    BY <2>1 DEF Loaded, Opening
  <2>4. IsInjective(rules') /\ Len(rules') = 0
    BY <2>2 DEF IsInjective
  <2> QED
    BY <2>2, <2>3, <2>4 DEF RulesInv
<1>2. CASE RuleHead
  <2>1. PICK tok \in Token :
          /\ Take("rules", tok) /\ rule_state = 0
          /\ \/ /\ rule_state' = 1 /\ load_stage' = load_stage
                /\ \E x \in Heads : new_rule' = [new_rule EXCEPT !.head = x]
             \/ \E error : FailWith(error)
          /\ UNCHANGED <<declVars, rules, rule_codes, keyVars>>
    BY <1>2, RuleHeadDoes
  <2>2. CASE \E error : FailWith(error)
    BY <1>fails, <2>2
  <2>3. CASE /\ rule_state' = 1 /\ load_stage' = load_stage
             /\ \E x \in Heads : new_rule' = [new_rule EXCEPT !.head = x]
    <3>1. load_stage' = "rules" /\ load_stage = "rules"
      BY <2>1, <2>3 DEF Take
    <3>2. new_rule'.head \in Heads
      <4>1. \A x \in Heads : x \in Int
        BY <1>types DEF Heads
      <4> QED
        BY <1>types, <2>3, <4>1, RuleParts
    <3>3. UNCHANGED <<terminals, nonterminals, rules, rule_codes>>
      BY <2>1 DEF declVars
    <3>4. Heads' = Heads /\ ~Loaded'
      BY <3>1, <3>3 DEF Heads, Loaded
    <3> QED
      BY <2>3, <3>1, <3>2, <3>3, <3>4 DEF RulesInv
  <2> QED
    BY <2>1, <2>2, <2>3
<1>3. CASE RuleArrow
  <2>1. /\ load_stage' = "rules" /\ load_stage = "rules"
        /\ rule_state = 1 /\ rule_state' = 2
        /\ new_rule' = [new_rule EXCEPT !.body = <<>>]
        /\ UNCHANGED <<terminals, nonterminals, rules, rule_codes>>
    BY <1>3 DEF RuleArrow, declVars, Take
  <2>2. new_rule'.head = new_rule.head /\ new_rule'.body = <<>>
    BY <1>types, <2>1, RuleParts
  <2>3. Heads' = Heads /\ ~Loaded' /\ Len(new_rule'.body) = 0
    BY <2>1, <2>2 DEF Heads, Loaded
  <2> QED
    BY <2>1, <2>2, <2>3 DEF RulesInv
<1>4. CASE RuleItem
  <2>1. PICK tok \in Token :
          /\ Take("rules", tok) /\ rule_state = 2
          /\ \/ /\ load_stage' = load_stage
                /\ \E x \in Symbols : new_rule' = [new_rule EXCEPT !.body = Append(@, x)]
             \/ \E error : FailWith(error)
          /\ UNCHANGED <<declVars, rule_state, rules, rule_codes, keyVars>>
    BY <1>4, RuleItemDoes
  <2>2. CASE \E error : FailWith(error)
    BY <1>fails, <2>2
  <2>3. CASE /\ load_stage' = load_stage
             /\ \E x \in Symbols : new_rule' = [new_rule EXCEPT !.body = Append(@, x)]
    <3>1. load_stage' = "rules" /\ load_stage = "rules" /\ rule_state = 2 /\ rule_state' = 2
      BY <2>1, <2>3 DEF Take
    <3>2. PICK x \in Symbols : new_rule' = [new_rule EXCEPT !.body = Append(@, x)]
      BY <2>3
    <3>3. new_rule'.head = new_rule.head /\ new_rule'.body = Append(new_rule.body, x)
      <4>1. x \in Int
        BY <1>types DEF Symbols
      <4> QED
        BY <1>types, <3>2, <4>1, RuleParts
    <3>4. UNCHANGED <<terminals, nonterminals, rules, rule_codes>>
      BY <2>1 DEF declVars
    <3>5. Heads' = Heads /\ Symbols' = Symbols /\ ~Loaded'
      BY <3>1, <3>4 DEF Heads, Symbols, Loaded
    <3>6. \A i \in 1 .. Len(new_rule.body) : new_rule.body[i] \in Symbols
      BY <3>1 DEF RulesInv
    <3>7. \A i \in 1 .. Len(new_rule'.body) : new_rule'.body[i] \in Symbols
      <4>1. new_rule.body \in Seq(Int)
        BY <1>types, RuleParts
      <4> QED
        BY <3>3, <3>6, <4>1
    <3> QED
      BY <3>1, <3>3, <3>4, <3>5, <3>7 DEF RulesInv
  <2> QED
    BY <2>1, <2>2, <2>3
<1>5. CASE RuleBodyDone
  <2>1. /\ load_stage' = "rules" /\ load_stage = "rules"
        /\ rule_state = 2 /\ rule_state' = 3 /\ new_rule.body # <<>>
        /\ UNCHANGED <<terminals, nonterminals, rules, rule_codes, new_rule>>
    BY <1>5 DEF RuleBodyDone, declVars, Take
  <2>2. Heads' = Heads /\ Symbols' = Symbols /\ ~Loaded'
    BY <2>1 DEF Heads, Symbols, Loaded
  <2> QED
    BY <2>1, <2>2 DEF RulesInv
<1>6. CASE RuleCode
  <2>1. /\ load_stage = "rules" /\ rule_state = 3
        /\ UNCHANGED <<terminals, nonterminals>>
        /\ rule_codes' = rule_codes + 1
        /\ \/ FailWith("CREATE_RULES_DUPLICATE_RULE")
           \/ /\ ~Known(rules, new_rule)
              /\ rules' = Append(rules, new_rule)
              /\ rule_state' = 0 /\ load_stage' = load_stage
    BY <1>6 DEF RuleCode, declVars, Take
  <2>2. CASE FailWith("CREATE_RULES_DUPLICATE_RULE")
    BY <1>fails, <2>2
  <2>3. CASE /\ ~Known(rules, new_rule)
             /\ rules' = Append(rules, new_rule)
             /\ rule_state' = 0 /\ load_stage' = load_stage
    <3>1. IsRule(new_rule, Len(terminals), Len(nonterminals))
      BY <2>1 DEF RulesInv, IsRule, Heads, Symbols
    <3>2. /\ IsInjective(rules) /\ rule_codes = Len(rules)
          /\ \A n \in 1 .. Len(rules) : IsRule(rules[n], Len(terminals), Len(nonterminals))
      BY <2>1 DEF RulesInv
    <3>3. IsInjective(rules')
      BY <1>types, <2>3, <3>2, InjectiveAppend DEF Known
    <3>4. rule_codes' = Len(rules')
      BY <1>types, <2>1, <2>3, <3>2
    <3>5. \A n \in 1 .. Len(rules') : IsRule(rules'[n], Len(terminals), Len(nonterminals))
      BY <1>types, <2>3, <3>1, <3>2
    <3>6. ~Loaded' /\ load_stage' # "failed"
      BY <2>1, <2>3 DEF Loaded
    <3> QED
      BY <2>1, <2>3, <3>3, <3>4, <3>5, <3>6 DEF RulesInv
  <2> QED
    BY <2>1, <2>2, <2>3
<1>7. CASE RulesDone \/ KeyTerminal \/ KeysDone \/ MakeTables
  <2>1. /\ UNCHANGED <<terminals, nonterminals, rules, rule_codes, rule_state, new_rule>>
        /\ \/ load_stage' = "failed"
           \/ Loaded /\ Loaded' /\ load_stage # "failed"
           \/ load_stage = "rules" /\ rules # <<>>
    BY <1>7 DEF RulesDone, KeyTerminal, KeysDone, MakeTables, declVars, ruleVars,
                Take, FailWith, Loaded
  <2>2. Heads' = Heads /\ Symbols' = Symbols
    BY <2>1 DEF Heads, Symbols
  <2> QED
    BY <2>1, <2>2 DEF RulesInv, Loaded
<1>8. CASE WrongToken \/ TerminalError \/ NonterminalError \/ EmptyBody \/ RuleError
  BY <1>8, <1>fails DEF WrongToken, TerminalError, NonterminalError, EmptyBody, RuleError
<1> QED
  BY <1>1, <1>2, <1>3, <1>4, <1>5, <1>6, <1>7, <1>8 DEF LoadNext

LEMMA TextAppends ==
  ASSUME NEW S, NEW t \in Seq(S), NEW u \in Seq(S), NEW e \in S
  PROVE  /\ Append(t \o u, e) = t \o Append(u, e)
         /\ Append(t \o u, e) = t \o (u \o <<e>>)
         /\ Append(t \o <<>>, e) = t \o <<e>>
         /\ Append(<<>>, e) = <<e>>
<1>1. t \o <<>> = t /\ t \o <<e>> = Append(t, e)
  BY AppendOne
<1>2. u \o <<e>> = Append(u, e)
  BY AppendOne
<1>3. t \o Append(u, e) = Append(t \o u, e)
  BY ConcatInSeq
<1>4. Append(<<>>, e) = <<e>>
  OBVIOUS
<1> QED
  BY <1>1, <1>2, <1>3, <1>4

LEMMA RuleSoFarIs ==
  ASSUME NEW ts, NEW ns, NEW r
  PROVE  /\ RuleSoFar(ts, ns, 1, r) = SymbolOf(ts, ns, r.head)
         /\ RuleSoFar(ts, ns, 2, r) = BegunRule(ts, ns, r)
         /\ RuleSoFar(ts, ns, 3, r) = BegunRule(ts, ns, r) \o Mark("div_1")
BY DEF RuleSoFar

(* Where the rules are read, the text is the one of the rules that are stored
   and of the rule begun. *)
LEMMA TextOfRules ==
  ASSUME LoaderTypes, RulesInv, TextInv, load_stage = "rules"
  PROVE  /\ RulesText(terminals, nonterminals, rules) \in Seq(Token)
         /\ rule_state \in {1, 2, 3} =>
              SymbolOf(terminals, nonterminals, new_rule.head) \in Seq(Token)
         /\ rule_state \in {2, 3} =>
              BegunRule(terminals, nonterminals, new_rule) \in Seq(Token)
<1>1. /\ terminals \in Seq(TerminalNames) /\ nonterminals \in Seq(NonterminalNames)
      /\ new_rule \in RuleType /\ rules \in Seq(RuleType)
      /\ Len(terminals) \in Nat /\ Len(nonterminals) \in Nat
  BY DEF LoaderTypes
<1>2. \A n \in 1 .. Len(rules) : IsRule(rules[n], Len(terminals), Len(nonterminals))
  BY DEF RulesInv
<1>3. RulesText(terminals, nonterminals, rules) \in Seq(Token)
  BY <1>1, <1>2, RulesTextGrows
<1>4. ASSUME rule_state \in {1, 2, 3}
      PROVE  /\ new_rule.head \in Len(terminals) .. (Len(terminals) + Len(nonterminals) - 1)
             /\ new_rule.head \in 0 .. (Len(terminals) + Len(nonterminals) - 1)
  <2>1. new_rule.head \in Heads
    BY <1>4 DEF RulesInv
  <2> QED
    BY <1>1, <2>1 DEF Heads
<1>5. ASSUME rule_state \in {1, 2, 3}
      PROVE  SymbolOf(terminals, nonterminals, new_rule.head) \in Seq(Token)
  BY <1>1, <1>4, <1>5, SymbolOfIs
<1>6. ASSUME rule_state \in {2, 3}
      PROVE  BegunRule(terminals, nonterminals, new_rule) \in Seq(Token)
  <2>1. \A i \in 1 .. Len(new_rule.body) :
           new_rule.body[i] \in 0 .. (Len(terminals) + Len(nonterminals) - 1)
    BY <1>6 DEF RulesInv, Symbols
  <2>2. new_rule.head \in Len(terminals) .. (Len(terminals) + Len(nonterminals) - 1)
    BY <1>4, <1>6
  <2> QED
    BY <1>1, <2>1, <2>2, BegunRuleGrows
<1> QED
  BY <1>3, <1>5, <1>6

(* A rule grows by one token. *)
LEMMA RuleTextKept ==
  ASSUME LoaderTypes, RulesInv, TextInv,
         load_stage = "rules", load_stage' = "rules", UNCHANGED <<declVars, rules>>,
         NEW tok \in Token, file' = Append(file, tok), rule_state' \in {1, 2, 3},
         \/ /\ rule_state = 0
            /\ RuleSoFar(terminals, nonterminals, rule_state', new_rule') = <<tok>>
         \/ /\ rule_state \in {1, 2, 3}
            /\ RuleSoFar(terminals, nonterminals, rule_state', new_rule') =
                 RuleSoFar(terminals, nonterminals, rule_state, new_rule) \o <<tok>>
            /\ RuleSoFar(terminals, nonterminals, rule_state, new_rule) \in Seq(Token)
  PROVE  TextInv'
<1>1. PICK text, begun : /\ text = RulesText(terminals, nonterminals, rules)
                         /\ begun = RuleSoFar(terminals, nonterminals, rule_state, new_rule)
  OBVIOUS
<1>2. text \in Seq(Token)
  BY <1>1, TextOfRules
<1>3. ASSUME terminal_state = 0
      PROVE  file' = text \o RuleSoFar(terminals, nonterminals, rule_state', new_rule')
  <2>1. file = text \o begun
    BY <1>1, <1>3 DEF TextInv
  <2>2. CASE rule_state = 0
    <3>1. begun = <<>>
      BY <1>1, <2>2 DEF RuleSoFar
    <3>2. text \o <<>> = text /\ Append(text, tok) = text \o <<tok>>
      BY <1>2, AppendOne
    <3>3. RuleSoFar(terminals, nonterminals, rule_state', new_rule') = <<tok>>
      BY <2>2
    <3> QED
      BY <2>1, <3>1, <3>2, <3>3
  <2>3. CASE rule_state # 0
    <3>1. /\ begun \in Seq(Token)
          /\ RuleSoFar(terminals, nonterminals, rule_state', new_rule') = begun \o <<tok>>
      BY <1>1, <2>3
    <3>2. text \o Append(begun, tok) = Append(text \o begun, tok)
      BY <1>2, <3>1, ConcatInSeq
    <3>3. Append(begun, tok) = begun \o <<tok>>
      BY <3>1, AppendOne
    <3> QED
      BY <2>1, <3>1, <3>2, <3>3
  <2> QED
    BY <2>2, <2>3
<1>4. ~Loaded'
  BY DEF Loaded
<1>5. UNCHANGED <<terminal_state, terminals, nonterminals, rules>>
  BY DEF declVars
<1>6. terminal_state' = 0 =>
        file' = RulesText(terminals', nonterminals', rules')
                  \o RuleSoFar(terminals', nonterminals', rule_state', new_rule')
  BY <1>1, <1>3, <1>5
<1> QED
  BY <1>4, <1>6 DEF TextInv

LEMMA TextKept ==
  ASSUME LoaderTypes, FreshInv, NamesInv, RulesInv, TextInv, LoadNext
  PROVE  TextInv'
<1>types. /\ terminals \in Seq(TerminalNames) /\ nonterminals \in Seq(NonterminalNames)
          /\ new_rule \in RuleType
  BY DEF LoaderTypes
<1>fails. \A error : FailWith(error) => TextInv'
  BY FailureKept
<1>marks. {"init_code", "code", "terminals", "nonterminals", "rules", "div_0", "div_1",
           "input_end"} \subseteq Marks
  BY DEF Marks
<1>1. CASE AwaitToken
  <2>1. PICK tok \in Token :
          /\ file' = Append(file, tok)
          /\ \/ /\ load_stage = "init_flag" /\ load_stage' = "init_code"
                /\ tok = MarkToken("init_code")
             \/ /\ load_stage = "init_code" /\ load_stage' = "terminals_flag"
                /\ tok = MarkToken("code")
             \/ /\ load_stage = "terminals_flag" /\ load_stage' = "terminals"
                /\ tok = MarkToken("terminals")
          /\ UNCHANGED declVars
    BY <1>1, AwaitedTokens
  <2>2. CASE load_stage' = "init_code"
    <3>1. file = <<>> /\ tok = MarkToken("init_code")
      BY <2>1, <2>2 DEF TextInv
    <3>2. Mark("init_code") = <<tok>>
      BY <1>marks, <3>1, TokensAre
    <3>3. file' = Mark("init_code")
      BY <2>1, <3>1, <3>2
    <3> QED
      BY <2>2, <3>3 DEF TextInv, Loaded
  <2>3. CASE load_stage' = "terminals_flag"
    <3>1. file = Mark("init_code") /\ tok = MarkToken("code")
      BY <2>1, <2>3 DEF TextInv
    <3>2. file' = Mark("init_code") \o Mark("code")
      BY <2>1, <3>1, OpeningTextIs
    <3> QED
      BY <2>3, <3>2 DEF TextInv, Loaded
  <2>4. CASE load_stage' = "terminals"
    <3>1. file = Mark("init_code") \o Mark("code") /\ tok = MarkToken("terminals")
      BY <2>1, <2>4 DEF TextInv
    <3>2. file' = OpeningText
      BY <2>1, <3>1, OpeningTextIs
    <3>3. terminals' = <<>> /\ terminal_state' = 0
      BY <2>1, <2>4 DEF FreshInv, Opening, declVars
    <3>4. file' = TerminalsText(terminals') \o <<>>
      <4>1. OpeningText \o <<>> = OpeningText
        BY OpeningTextIs
      <4> QED
        BY <3>2, <3>3, <4>1, TerminalsTextEmpty
    <3> QED
      BY <2>4, <3>3, <3>4 DEF TextInv, Loaded
  <2> QED
    BY <2>1, <2>2, <2>3, <2>4
<1>2. CASE TerminalName
  <2>1. PICK tok \in Token :
          /\ Take("terminals", tok) /\ tok.term = "identifier" /\ terminal_state = 0
          /\ \/ FailWith("CREATE_RULES_DUPLICATE_TERMINAL")
             \/ /\ terminal_state' = 1 /\ load_stage' = load_stage
                /\ new_terminal' = tok.name
          /\ UNCHANGED terminals
    BY <1>2 DEF TerminalName
  <2>2. CASE FailWith("CREATE_RULES_DUPLICATE_TERMINAL")
    BY <1>fails, <2>2
  <2>3. CASE /\ terminal_state' = 1 /\ load_stage' = load_stage
             /\ new_terminal' = tok.name
    <3>1. load_stage = "terminals" /\ load_stage' = "terminals" /\ file' = Append(file, tok)
      BY <2>1, <2>3, FileTaken
    <3>2. PICK text : text = TerminalsText(terminals)
      OBVIOUS
    <3>3. text \in Seq(Token) /\ file = text \o <<>>
      BY <1>types, <2>1, <3>1, <3>2, TerminalsTextGrows DEF TextInv
    <3>4. TerminalToken(tok.name) = <<tok>>
      BY <2>1, TokenForms, TokensAre
    <3>5. file' = text \o <<tok>>
      BY <3>1, <3>3, TextAppends
    <3> QED
      BY <2>1, <2>3, <3>1, <3>2, <3>4, <3>5 DEF TextInv, Loaded
  <2> QED
    BY <2>1, <2>2, <2>3
<1>3. CASE TerminalExpression
  <2>1. PICK tok \in Token :
          /\ Take("terminals", tok) /\ tok.term = "code" /\ terminal_state = 1
          /\ terminals' = Append(terminals, new_terminal)
          /\ terminal_state' = 0 /\ load_stage' = load_stage
    BY <1>3 DEF TerminalExpression
  <2>2. load_stage = "terminals" /\ load_stage' = "terminals" /\ file' = Append(file, tok)
    BY <2>1, FileTaken
  <2>3. tok = MarkToken("code") /\ new_terminal \in TerminalNames
    BY <1>marks, <2>1, <2>2, TokenForms DEF NamesInv
  <2>4. PICK text, named : text = TerminalsText(terminals) /\ named = NameToken(new_terminal)
    OBVIOUS
  <2>5. /\ text \in Seq(Token) /\ named \in Token
        /\ TerminalToken(new_terminal) = <<named>>
    BY <1>types, <2>3, <2>4, TerminalsTextGrows, TokensAre
  <2>6. file = text \o <<named>>
    BY <2>1, <2>2, <2>4, <2>5 DEF TextInv
  <2>7. file' = Append(Append(text, named), tok)
    BY <2>2, <2>5, <2>6, AppendOne
  <2>8. TerminalsText(terminals') = file' /\ file' \in Seq(Token)
    <3>1. TerminalsText(Append(terminals, new_terminal)) =
            Append(Append(text, named), MarkToken("code"))
      BY <1>types, <2>3, <2>4, TerminalsTextGrows
    <3>2. file' \in Seq(Token)
      BY <2>1, FileTaken
    <3> QED
      BY <2>1, <2>3, <2>7, <3>1, <3>2
  <2>9. file' = TerminalsText(terminals') \o <<>>
    <3>1. PICK after : after = file'
      OBVIOUS
    <3>2. after \o <<>> = after
      BY <2>8, <3>1
    <3> QED
      BY <2>8, <3>1, <3>2
  <2> QED
    BY <2>1, <2>2, <2>9 DEF TextInv, Loaded
<1>4. CASE TerminalsDone
  <2>1. PICK tok \in Token :
          /\ Take("terminals", tok) /\ tok.term = "nonterminals"
          /\ \/ FailWith("CREATE_RULES_NO_TERMINALS_DEFINED")
             \/ load_stage' = "nonterminals"
          /\ UNCHANGED declVars
    BY <1>4 DEF TerminalsDone
  <2>2. CASE FailWith("CREATE_RULES_NO_TERMINALS_DEFINED")
    BY <1>fails, <2>2
  <2>3. CASE load_stage' = "nonterminals"
    <3>1. load_stage = "terminals" /\ file' = Append(file, tok)
      BY <2>1, FileTaken
    <3>2. nonterminals = <<>> /\ tok = MarkToken("nonterminals")
      BY <1>marks, <2>1, <3>1, TokenForms DEF FreshInv
    <3>3. ASSUME terminal_state = 0
          PROVE  file' = NonterminalsText(terminals, nonterminals)
      <4>1. PICK text : text = TerminalsText(terminals)
        OBVIOUS
      <4>2. text \in Seq(Token) /\ file = text \o <<>>
        BY <1>types, <3>1, <3>3, <4>1, TerminalsTextGrows DEF TextInv
      <4>3. file' = Append(text, tok)
        BY <3>1, <4>2, AppendOne
      <4>4. NonterminalsText(terminals, <<>>) =
              Append(TerminalsText(terminals), MarkToken("nonterminals"))
        BY <1>types, NonterminalsTextGrows
      <4> QED
        BY <3>2, <4>1, <4>3, <4>4
    <3> QED
      BY <2>1, <2>3, <3>3 DEF TextInv, Loaded, declVars
  <2> QED
    BY <2>1, <2>2, <2>3
<1>5. CASE NonterminalName
  <2>1. PICK tok \in Token :
          /\ Take("nonterminals", tok) /\ tok.term = "nonterm_id"
          /\ \/ FailWith("CREATE_RULES_DUPLICATE_NONTERMINAL")
             \/ /\ nonterminals' = Append(nonterminals, tok.name)
                /\ load_stage' = load_stage
          /\ UNCHANGED <<terminals, terminal_state>>
    BY <1>5 DEF NonterminalName
  <2>2. CASE FailWith("CREATE_RULES_DUPLICATE_NONTERMINAL")
    BY <1>fails, <2>2
  <2>3. CASE /\ nonterminals' = Append(nonterminals, tok.name)
             /\ load_stage' = load_stage
    <3>1. load_stage = "nonterminals" /\ file' = Append(file, tok)
      BY <2>1, FileTaken
    <3>2. tok.name \in NonterminalNames /\ tok = NontermToken(tok.name)
      BY <2>1, TokenForms
    <3>3. NonterminalsText(terminals, Append(nonterminals, tok.name)) =
            Append(NonterminalsText(terminals, nonterminals), tok)
      BY <1>types, <3>2, NonterminalsTextGrows
    <3>4. terminal_state = 0 => file = NonterminalsText(terminals, nonterminals)
      BY <3>1 DEF TextInv
    <3> QED
      BY <2>1, <2>3, <3>1, <3>3, <3>4 DEF TextInv, Loaded
  <2> QED
    BY <2>1, <2>2, <2>3
<1>6. CASE NonterminalsDone
  <2>1. PICK tok \in Token :
          /\ Take("nonterminals", tok) /\ tok.term = "rules"
          /\ \/ FailWith("CREATE_RULES_NO_NONTERMINALS_DEFINED")
             \/ load_stage' = "rules"
          /\ UNCHANGED <<terminals, nonterminals, terminal_state, rules, rule_state>>
    BY <1>6 DEF NonterminalsDone, declVars, ruleVars
  <2>2. CASE FailWith("CREATE_RULES_NO_NONTERMINALS_DEFINED")
    BY <1>fails, <2>2
  <2>3. CASE load_stage' = "rules"
    <3>1. load_stage = "nonterminals" /\ file' = Append(file, tok)
          /\ file' \in Seq(Token)
      BY <2>1, FileTaken
    <3>2. rules = <<>> /\ rule_state = 0 /\ tok = MarkToken("rules")
      BY <1>marks, <2>1, <3>1, TokenForms DEF FreshInv
    <3>3. ASSUME terminal_state = 0
          PROVE  file' = RulesText(terminals, nonterminals, rules) \o <<>>
      <4>1. file = NonterminalsText(terminals, nonterminals)
        BY <3>1, <3>3 DEF TextInv
      <4>2. RulesText(terminals, nonterminals, <<>>) =
              Append(NonterminalsText(terminals, nonterminals), MarkToken("rules"))
        <5>1. <<>> \in Seq(RuleType)
                /\ \A n \in 1 .. Len(<<>>) : IsRule((<<>>)[n], Len(terminals), Len(nonterminals))
          OBVIOUS
        <5> QED
          BY <1>types, <5>1, RulesTextGrows
      <4>3. file' = RulesText(terminals, nonterminals, rules)
        BY <3>1, <3>2, <4>1, <4>2
      <4>4. PICK after : after = file'
        OBVIOUS
      <4>5. after \o <<>> = after
        BY <3>1, <4>4
      <4> QED
        BY <4>3, <4>4, <4>5
    <3>4. RuleSoFar(terminals', nonterminals', rule_state', new_rule') = <<>>
      BY <2>1, <3>2 DEF RuleSoFar
    <3> QED
      BY <2>1, <2>3, <3>3, <3>4 DEF TextInv, Loaded
  <2> QED
    BY <2>1, <2>2, <2>3
<1>7. CASE RuleHead
  <2>1. PICK tok \in Token :
          /\ Take("rules", tok) /\ rule_state = 0
          /\ \/ /\ rule_state' = 1 /\ load_stage' = load_stage
                /\ \E x \in Heads :
                     /\ SymbolOf(terminals, nonterminals, x) = <<tok>>
                     /\ new_rule' = [new_rule EXCEPT !.head = x]
             \/ \E error : FailWith(error)
          /\ UNCHANGED <<declVars, rules>>
    BY <1>7, RuleHeadDoes
  <2>2. CASE \E error : FailWith(error)
    BY <1>fails, <2>2
  <2>3. CASE /\ rule_state' = 1 /\ load_stage' = load_stage
             /\ \E x \in Heads :
                  /\ SymbolOf(terminals, nonterminals, x) = <<tok>>
                  /\ new_rule' = [new_rule EXCEPT !.head = x]
    <3>1. load_stage = "rules" /\ file' = Append(file, tok)
      BY <2>1, FileTaken
    <3>2. SymbolOf(terminals, nonterminals, new_rule'.head) = <<tok>>
      <4>1. \A x \in Heads : x \in Int
        <5>1. Len(terminals) \in Nat /\ Len(nonterminals) \in Nat
          BY <1>types
        <5> QED
          BY <5>1 DEF Heads
      <4> QED
        BY <1>types, <2>3, <4>1, RuleParts
    <3>3. RuleSoFar(terminals, nonterminals, rule_state', new_rule') = <<tok>>
      BY <2>3, <3>2 DEF RuleSoFar
    <3> QED
      BY <2>1, <2>3, <3>1, <3>3, RuleTextKept
  <2> QED
    BY <2>1, <2>2, <2>3
<1>8. CASE RuleArrow
  <2>1. PICK tok \in Token :
          /\ Take("rules", tok) /\ tok.term = "div_0" /\ rule_state = 1
          /\ rule_state' = 2 /\ load_stage' = load_stage
          /\ new_rule' = [new_rule EXCEPT !.body = <<>>]
          /\ UNCHANGED <<declVars, rules>>
    BY <1>8 DEF RuleArrow
  <2>2. load_stage = "rules" /\ file' = Append(file, tok) /\ tok = MarkToken("div_0")
    BY <1>marks, <2>1, FileTaken, TokenForms
  <2>3. PICK r : r = new_rule'
    OBVIOUS
  <2>4. r.head = new_rule.head /\ r.body = <<>> /\ r \in RuleType
    BY <1>types, <2>1, <2>3, RuleParts
  <2>5. r.head \in Len(terminals) .. (Len(terminals) + Len(nonterminals) - 1)
    BY <2>1, <2>2, <2>4 DEF RulesInv, Heads
  <2>6. PICK head : head = SymbolOf(terminals, nonterminals, new_rule.head)
    OBVIOUS
  <2>7. head \in Seq(Token)
    BY <2>1, <2>2, <2>6, TextOfRules
  <2>8. BegunRule(terminals, nonterminals, r) = Append(head, tok)
    <3>1. \A i \in 1 .. Len(r.body) : r.body[i] \in 0 .. (Len(terminals) + Len(nonterminals) - 1)
      BY <2>4
    <3> QED
      BY <1>types, <2>2, <2>4, <2>5, <2>6, <3>1, BegunRuleGrows
  <2>9. Append(head, tok) = head \o <<tok>>
    BY <2>7, AppendOne
  <2>10. /\ RuleSoFar(terminals, nonterminals, rule_state, new_rule) = head
         /\ RuleSoFar(terminals, nonterminals, rule_state', new_rule') = head \o <<tok>>
    BY <2>1, <2>3, <2>6, <2>8, <2>9, RuleSoFarIs
  <2> QED
    BY <2>1, <2>2, <2>7, <2>10, RuleTextKept
<1>9. CASE RuleItem
  <2>1. PICK tok \in Token :
          /\ Take("rules", tok) /\ rule_state = 2
          /\ \/ /\ load_stage' = load_stage
                /\ \E x \in Symbols :
                     /\ SymbolOf(terminals, nonterminals, x) = <<tok>>
                     /\ new_rule' = [new_rule EXCEPT !.body = Append(@, x)]
             \/ \E error : FailWith(error)
          /\ UNCHANGED <<declVars, rule_state, rules>>
    BY <1>9, RuleItemDoes
  <2>2. CASE \E error : FailWith(error)
    BY <1>fails, <2>2
  <2>3. CASE /\ load_stage' = load_stage
             /\ \E x \in Symbols :
                  /\ SymbolOf(terminals, nonterminals, x) = <<tok>>
                  /\ new_rule' = [new_rule EXCEPT !.body = Append(@, x)]
    <3>1. load_stage = "rules" /\ file' = Append(file, tok)
      BY <2>1, FileTaken
    <3>2. PICK x \in Symbols :
            /\ SymbolOf(terminals, nonterminals, x) = <<tok>>
            /\ new_rule' = [new_rule EXCEPT !.body = Append(@, x)]
      BY <2>3
    <3>3. PICK begun : begun = BegunRule(terminals, nonterminals, new_rule)
      OBVIOUS
    <3>4. BegunRule(terminals, nonterminals, new_rule') = begun \o <<tok>>
      <4>1. new_rule.head \in Len(terminals) .. (Len(terminals) + Len(nonterminals) - 1)
        BY <2>1, <3>1 DEF RulesInv, Heads
      <4>2. \A i \in 1 .. Len(new_rule.body) :
               new_rule.body[i] \in 0 .. (Len(terminals) + Len(nonterminals) - 1)
        BY <2>1, <3>1 DEF RulesInv, Symbols
      <4>3. x \in 0 .. (Len(terminals) + Len(nonterminals) - 1)
        BY DEF Symbols
      <4>4. BegunRule(terminals, nonterminals, [new_rule EXCEPT !.body = Append(@, x)]) =
              BegunRule(terminals, nonterminals, new_rule) \o SymbolOf(terminals, nonterminals, x)
        BY <1>types, <4>1, <4>2, <4>3, BegunRuleGrows
      <4> QED
        BY <3>2, <3>3, <4>4
    <3>5. begun \in Seq(Token)
      BY <2>1, <3>1, <3>3, TextOfRules
    <3>6. /\ RuleSoFar(terminals, nonterminals, rule_state, new_rule) = begun
          /\ RuleSoFar(terminals, nonterminals, rule_state', new_rule') = begun \o <<tok>>
      BY <2>1, <3>3, <3>4 DEF RuleSoFar
    <3> QED
      BY <2>1, <2>3, <3>1, <3>5, <3>6, RuleTextKept
  <2> QED
    BY <2>1, <2>2, <2>3
<1>10. CASE RuleBodyDone
  <2>1. PICK tok \in Token :
          /\ Take("rules", tok) /\ tok.term = "div_1" /\ rule_state = 2
          /\ rule_state' = 3 /\ load_stage' = load_stage
          /\ UNCHANGED <<declVars, rules, new_rule>>
    BY <1>10 DEF RuleBodyDone
  <2>2. load_stage = "rules" /\ file' = Append(file, tok) /\ tok = MarkToken("div_1")
    BY <1>marks, <2>1, FileTaken, TokenForms
  <2>3. Mark("div_1") = <<tok>>
    BY <1>marks, <2>2, TokensAre
  <2>4. PICK begun : begun = BegunRule(terminals, nonterminals, new_rule)
    OBVIOUS
  <2>5. begun \in Seq(Token)
    BY <2>1, <2>2, <2>4, TextOfRules
  <2>6. /\ RuleSoFar(terminals, nonterminals, rule_state, new_rule) = begun
        /\ RuleSoFar(terminals, nonterminals, rule_state', new_rule') = begun \o <<tok>>
    BY <2>1, <2>3, <2>4, RuleSoFarIs
  <2> QED
    BY <2>1, <2>2, <2>5, <2>6, RuleTextKept
<1>11. CASE RuleCode
  <2>1. PICK tok \in Token :
          /\ Take("rules", tok) /\ tok.term = "code" /\ rule_state = 3
          /\ \/ FailWith("CREATE_RULES_DUPLICATE_RULE")
             \/ /\ rules' = Append(rules, new_rule)
                /\ rule_state' = 0 /\ load_stage' = load_stage
          /\ UNCHANGED declVars
    BY <1>11 DEF RuleCode
  <2>2. CASE FailWith("CREATE_RULES_DUPLICATE_RULE")
    BY <1>fails, <2>2
  <2>3. CASE /\ rules' = Append(rules, new_rule)
             /\ rule_state' = 0 /\ load_stage' = load_stage
    <3>1. /\ load_stage = "rules" /\ file' = Append(file, tok) /\ file' \in Seq(Token)
          /\ tok = MarkToken("code")
      BY <1>marks, <2>1, FileTaken, TokenForms
    <3>2. IsRule(new_rule, Len(terminals), Len(nonterminals))
      BY <2>1, <3>1 DEF RulesInv, IsRule, Heads, Symbols
    <3>3. /\ rules \in Seq(RuleType)
          /\ \A n \in 1 .. Len(rules) : IsRule(rules[n], Len(terminals), Len(nonterminals))
      BY <3>1 DEF RulesInv, LoaderTypes
    <3>4. RulesText(terminals, nonterminals, rules') =
            Append(RulesText(terminals, nonterminals, rules)
                     \o (BegunRule(terminals, nonterminals, new_rule) \o Mark("div_1")), tok)
      BY <1>types, <2>3, <3>1, <3>2, <3>3, RulesTextGrows
    <3>5. RuleSoFar(terminals, nonterminals, rule_state, new_rule) =
            BegunRule(terminals, nonterminals, new_rule) \o Mark("div_1")
      BY <2>1 DEF RuleSoFar
    <3>6. terminal_state = 0 => file' = RulesText(terminals, nonterminals, rules')
      BY <3>1, <3>4, <3>5 DEF TextInv
    <3>7. PICK after : after = file'
      OBVIOUS
    <3>8. after \o <<>> = after
      BY <3>1, <3>7
    <3>9. /\ RuleSoFar(terminals', nonterminals', rule_state', new_rule') = <<>>
          /\ UNCHANGED <<terminals, nonterminals, terminal_state>>
      BY <2>1, <2>3 DEF RuleSoFar, declVars
    <3> QED
      BY <2>3, <3>1, <3>6, <3>7, <3>8, <3>9 DEF TextInv, Loaded
  <2> QED
    BY <2>1, <2>2, <2>3
<1>12. CASE RulesDone
  <2>1. PICK tok \in Token :
          /\ Take("rules", tok) /\ tok.term = "input_end"
          /\ \/ FailWith("CREATE_RULES_NO_RULES_DEFINED")
             \/ load_stage' = "keys"
          /\ UNCHANGED <<declVars, ruleVars>>
    BY <1>12 DEF RulesDone
  <2>2. CASE FailWith("CREATE_RULES_NO_RULES_DEFINED")
    BY <1>fails, <2>2
  <2>3. CASE load_stage' = "keys"
    <3>1. load_stage = "rules" /\ file' = Append(file, tok) /\ tok = MarkToken("input_end")
      BY <1>marks, <2>1, FileTaken, TokenForms
    <3>2. ASSUME terminal_state = 0, rule_state = 0
          PROVE  file' = RulesText(terminals, nonterminals, rules) \o Mark("input_end")
      <4>1. PICK text : text = RulesText(terminals, nonterminals, rules)
        OBVIOUS
      <4>2. text \in Seq(Token)
        BY <3>1, <4>1, TextOfRules
      <4>3. RuleSoFar(terminals, nonterminals, rule_state, new_rule) = <<>>
        BY <3>2 DEF RuleSoFar
      <4>4. file = text \o <<>>
        BY <3>1, <3>2, <4>1, <4>3 DEF TextInv
      <4>5. Mark("input_end") = <<tok>>
        BY <1>marks, <3>1, TokensAre
      <4>6. file' = text \o <<tok>>
        BY <3>1, <4>2, <4>4, TextAppends
      <4> QED
        BY <4>1, <4>5, <4>6
    <3>3. UNCHANGED <<terminals, nonterminals, terminal_state, rules, rule_state>>
      BY <2>1 DEF declVars, ruleVars
    <3> QED
      BY <2>3, <3>2, <3>3 DEF TextInv
  <2> QED
    BY <2>1, <2>2, <2>3
<1>13. CASE KeyTerminal \/ KeysDone \/ MakeTables
  <2>1. /\ UNCHANGED <<file, terminals, nonterminals, terminal_state, rules, rule_state>>
        /\ \/ load_stage' = "failed"
           \/ Loaded /\ load_stage' \in {"keys", "tables", "created"}
    BY <1>13 DEF KeyTerminal, KeysDone, MakeTables, FailWith, declVars, ruleVars, Loaded
  <2> QED
    BY <2>1 DEF TextInv, Loaded
<1>14. CASE WrongToken \/ TerminalError \/ NonterminalError \/ EmptyBody \/ RuleError
  BY <1>14, <1>fails DEF WrongToken, TerminalError, NonterminalError, EmptyBody, RuleError
<1> QED
  BY <1>1, <1>2, <1>3, <1>4, <1>5, <1>6, <1>7, <1>8, <1>9, <1>10, <1>11, <1>12,
     <1>13, <1>14 DEF LoadNext

(* find_key_terminals: a step looks at one name more. *)
SkipsBefore(n) == {i - 1 : i \in {i \in 1 .. n - 1 : Skips(terminals[i])}}
EndsBefore(n) == {i - 1 : i \in {i \in 1 .. n - 1 : Ends(terminals[i])}}

LEMMA KeysBeforeGrow ==
  ASSUME NEW n \in Nat \ {0}
  PROVE  /\ SkipsBefore(n + 1) =
              SkipsBefore(n) \union (IF Skips(terminals[n]) THEN {n - 1} ELSE {})
         /\ EndsBefore(n + 1) =
              EndsBefore(n) \union (IF Ends(terminals[n]) THEN {n - 1} ELSE {})
<1>1. \A i : i \in 1 .. (n + 1) - 1 <=> i \in 1 .. n - 1 \/ i = n
  OBVIOUS
<1>2. SkipsBefore(n + 1) =
        SkipsBefore(n) \union (IF Skips(terminals[n]) THEN {n - 1} ELSE {})
  BY <1>1 DEF SkipsBefore
<1>3. EndsBefore(n + 1) =
        EndsBefore(n) \union (IF Ends(terminals[n]) THEN {n - 1} ELSE {})
  BY <1>1 DEF EndsBefore
<1> QED
  BY <1>2, <1>3

LEMMA KeyTerminalDoes ==
  ASSUME LoaderTypes, KeyTerminal
  PROVE  /\ load_stage = "keys" /\ UNCHANGED terminals
         /\ \/ \E error : FailWith(error)
            \/ /\ load_stage' = "keys" /\ t_idx' = t_idx + 1
               /\ t_idx <= Len(terminals)
               /\ \/ /\ ~Skips(terminals[t_idx]) /\ ~Ends(terminals[t_idx])
                     /\ UNCHANGED <<end_terminal, skip_terminals>>
                  \/ /\ Skips(terminals[t_idx]) /\ ~Ends(terminals[t_idx])
                     /\ skip_terminals' = Append(skip_terminals, t_idx - 1)
                     /\ UNCHANGED end_terminal
                  \/ /\ Ends(terminals[t_idx]) /\ ~Skips(terminals[t_idx])
                     /\ end_terminal = NotExist /\ end_terminal' = t_idx - 1
                     /\ UNCHANGED skip_terminals
<1>1. PICK key : key = KeyOf(terminals[t_idx])
  OBVIOUS
<1>2. /\ key = "skip" <=> Skips(terminals[t_idx])
      /\ key = "end" <=> Ends(terminals[t_idx])
  BY <1>1 DEF Skips, Ends
<1>3. /\ load_stage = "keys" /\ t_idx <= Len(terminals) /\ UNCHANGED terminals
      /\ \/ /\ key \notin {"skip", "end"} /\ t_idx' = t_idx + 1 /\ load_stage' = load_stage
            /\ UNCHANGED <<end_terminal, skip_terminals>>
         \/ /\ key = "skip" /\ t_idx' = t_idx + 1 /\ load_stage' = load_stage
            /\ skip_terminals' = Append(skip_terminals, t_idx - 1)
            /\ UNCHANGED end_terminal
         \/ /\ key = "end" /\ t_idx' = t_idx + 1 /\ load_stage' = load_stage
            /\ end_terminal = NotExist /\ end_terminal' = t_idx - 1
            /\ UNCHANGED skip_terminals
         \/ \E error : FailWith(error)
  BY <1>1 DEF KeyTerminal, NextKey, declVars
<1>4. key = "skip" => key # "end"
  OBVIOUS
<1> QED
  BY <1>2, <1>3, <1>4

LEMMA KeysKept ==
  ASSUME LoaderTypes, FreshInv, KeysInv, LoadNext
  PROVE  KeysInv'
<1>types. skip_terminals \in Seq(Int) /\ Len(terminals) \in Nat /\ t_idx \in Nat \ {0}
  BY DEF LoaderTypes
<1>fails. \A error : FailWith(error) => KeysInv'
  BY FailureKept
<1>1. CASE AwaitToken \/ TerminalName \/ TerminalExpression \/ TerminalsDone
           \/ NonterminalName \/ NonterminalsDone \/ RuleHead \/ RuleArrow
           \/ RuleItem \/ RuleBodyDone \/ RuleCode
  <2>1. load_stage' \notin {"keys", "tables", "created"}
    <3>1. CASE AwaitToken
      BY <3>1, AwaitedTokens
    <3>2. CASE ~AwaitToken
      BY <1>1, <3>2 DEF TerminalName, TerminalExpression, TerminalsDone, NonterminalName,
         NonterminalsDone, RuleHead, RuleArrow, RuleItem, RuleBodyDone, RuleCode,
         FailWith, Take
    <3> QED
      BY <3>1, <3>2
  <2> QED
    BY <2>1 DEF KeysInv
<1>2. CASE RulesDone
  <2>1. /\ load_stage = "rules"
        /\ FailWith("CREATE_RULES_NO_RULES_DEFINED") \/ load_stage' = "keys"
        /\ UNCHANGED <<terminals, keyVars>>
    BY <1>2 DEF RulesDone, Take, declVars
  <2>2. CASE FailWith("CREATE_RULES_NO_RULES_DEFINED")
    BY <1>fails, <2>2
  <2>3. CASE load_stage' = "keys"
    <3>1. t_idx' = 1 /\ end_terminal' = NotExist /\ skip_terminals' = <<>>
      BY <2>1 DEF FreshInv, keyVars
    <3>2. t_idx' \in 1 .. Len(terminals') + 1 /\ 1 .. t_idx' - 1 = {}
      BY <1>types, <2>1, <3>1
    <3>3. ToSet(skip_terminals') = {}
      BY <3>1 DEF ToSet
    <3> QED
      BY <2>3, <3>1, <3>2, <3>3 DEF KeysInv
  <2> QED
    BY <2>1, <2>2, <2>3
<1>3. CASE KeyTerminal
  <2>1. CASE \E error : FailWith(error)
    BY <1>fails, <2>1
  <2>2. CASE ~ \E error : FailWith(error)
    <3>1. /\ load_stage = "keys" /\ UNCHANGED terminals
          /\ load_stage' = "keys" /\ t_idx' = t_idx + 1 /\ t_idx <= Len(terminals)
          /\ \/ /\ ~Skips(terminals[t_idx]) /\ ~Ends(terminals[t_idx])
                /\ UNCHANGED <<end_terminal, skip_terminals>>
             \/ /\ Skips(terminals[t_idx]) /\ ~Ends(terminals[t_idx])
                /\ skip_terminals' = Append(skip_terminals, t_idx - 1)
                /\ UNCHANGED end_terminal
             \/ /\ Ends(terminals[t_idx]) /\ ~Skips(terminals[t_idx])
                /\ end_terminal = NotExist /\ end_terminal' = t_idx - 1
                /\ UNCHANGED skip_terminals
      BY <1>3, <2>2, KeyTerminalDoes
    <3>2. /\ t_idx \in 1 .. Len(terminals) + 1
          /\ ToSet(skip_terminals) = SkipsBefore(t_idx)
          /\ EndsBefore(t_idx) = {end_terminal} \ {NotExist}
      BY <3>1 DEF KeysInv, SkipsBefore, EndsBefore
    <3>3. /\ SkipsBefore(t_idx + 1) =
               SkipsBefore(t_idx) \union (IF Skips(terminals[t_idx]) THEN {t_idx - 1} ELSE {})
          /\ EndsBefore(t_idx + 1) =
               EndsBefore(t_idx) \union (IF Ends(terminals[t_idx]) THEN {t_idx - 1} ELSE {})
      BY <1>types, KeysBeforeGrow
    <3>4. ToSet(Append(skip_terminals, t_idx - 1)) = ToSet(skip_terminals) \union {t_idx - 1}
      BY <1>types, ToSetAppend
    <3>5. ToSet(skip_terminals') = SkipsBefore(t_idx + 1)
      BY <3>1, <3>2, <3>3, <3>4
    <3>6. EndsBefore(t_idx + 1) = {end_terminal'} \ {NotExist}
      <4>1. t_idx - 1 # NotExist
        BY <1>types DEF NotExist
      <4> QED
        BY <3>1, <3>2, <3>3, <4>1
    <3>7. t_idx' \in 1 .. Len(terminals') + 1
      BY <1>types, <3>1
    <3>8. /\ SkipsBefore(t_idx + 1) =
               {i - 1 : i \in {i \in 1 .. t_idx' - 1 : Skips(terminals'[i])}}
          /\ EndsBefore(t_idx + 1) =
               {i - 1 : i \in {i \in 1 .. t_idx' - 1 : Ends(terminals'[i])}}
      BY <3>1 DEF SkipsBefore, EndsBefore
    <3>9. \A name : Skips(name)' = Skips(name)
      BY DEF Skips
    <3> QED
      BY <3>1, <3>5, <3>6, <3>7, <3>8 DEF KeysInv
  <2> QED
    BY <2>1, <2>2
<1>4. CASE KeysDone
  <2>1. /\ load_stage = "keys" /\ load_stage' = "tables" /\ t_idx > Len(terminals)
        /\ UNCHANGED <<terminals, t_idx, end_terminal, skip_terminals>>
    BY <1>4 DEF KeysDone, declVars, keyVars
  <2>2. t_idx = Len(terminals) + 1
    BY <1>types, <2>1 DEF KeysInv
  <2> QED
    BY <2>1, <2>2 DEF KeysInv
<1>5. CASE MakeTables
  <2>1. /\ load_stage = "tables"
        /\ load_stage' = "created" \/ \E error : FailWith(error)
        /\ UNCHANGED <<terminals, t_idx, end_terminal, skip_terminals>>
    BY <1>5 DEF MakeTables, declVars, keyVars
  <2>2. CASE load_stage' = "created"
    BY <2>1, <2>2 DEF KeysInv
  <2> QED
    BY <1>fails, <2>1, <2>2
<1>6. CASE WrongToken \/ TerminalError \/ NonterminalError \/ EmptyBody \/ RuleError
  BY <1>6, <1>fails DEF WrongToken, TerminalError, NonterminalError, EmptyBody, RuleError
<1> QED
  BY <1>1, <1>2, <1>3, <1>4, <1>5, <1>6 DEF LoadNext

(* Of the steps that fail only KeyTerminal leaves SeveralEnd. *)
LEMMA ErrorsKept ==
  ASSUME LoaderTypes, KeysInv, ErrorInv, LoadNext
  PROVE  ErrorInv'
<1>1. load_stage # "failed" /\ error_type = "NONE"
  <2>1. load_stage # "failed"
    BY DEF LoadNext, AwaitToken, WrongToken, TerminalName, TerminalExpression,
       TerminalError, TerminalsDone, NonterminalName, NonterminalError,
       NonterminalsDone, RuleHead, RuleArrow, RuleItem, RuleBodyDone, RuleCode,
       EmptyBody, RuleError, RulesDone, KeyTerminal, KeysDone, MakeTables, Take, Awaited
  <2> QED
    BY <2>1 DEF ErrorInv
<1>fails. ASSUME NEW error, error # SeveralEnd, FailWith(error)
          PROVE  ErrorInv'
  BY <1>fails DEF FailWith, ErrorInv, SeveralEnd
<1>keeps. UNCHANGED error_type => ErrorInv'
  BY <1>1 DEF ErrorInv, SeveralEnd
<1>2. CASE KeyTerminal
  <2>1. PICK key : key = KeyOf(terminals[t_idx])
    OBVIOUS
  <2>2. CASE UNCHANGED error_type
    BY <1>keeps, <2>2
  <2>3. CASE key = "end" /\ end_terminal # NotExist /\ FailWith(SeveralEnd)
    <3>1. /\ load_stage = "keys" /\ UNCHANGED terminals /\ load_stage' = "failed"
          /\ t_idx <= Len(terminals) /\ t_idx \in Nat \ {0} /\ Len(terminals) \in Nat
          /\ DOMAIN terminals = 1 .. Len(terminals)
      BY <1>2, <2>3 DEF KeyTerminal, FailWith, declVars, LoaderTypes
    <3>2. end_terminal \in {i - 1 : i \in {i \in 1 .. t_idx - 1 : Ends(terminals[i])}}
      BY <2>3, <3>1 DEF KeysInv
    <3>3. PICK i \in 1 .. t_idx - 1 : Ends(terminals[i])
      BY <3>2
    <3>4. i \in DOMAIN terminals /\ t_idx \in DOMAIN terminals /\ i < t_idx
      BY <3>1, <3>3
    <3>5. TwoEnd
      BY <2>1, <2>3, <3>3, <3>4 DEF TwoEnd, Ends
    <3> QED
      BY <3>1, <3>5 DEF ErrorInv, TwoEnd, Ends
  <2> QED
    BY <1>2, <2>1, <2>2, <2>3 DEF KeyTerminal, SeveralEnd
<1>3. CASE AwaitToken \/ TerminalExpression \/ RuleArrow \/ RuleBodyDone \/ KeysDone
  BY <1>3, <1>keeps DEF AwaitToken, TerminalExpression, RuleArrow, RuleBodyDone, KeysDone
<1>4. CASE WrongToken \/ TerminalError \/ NonterminalError \/ EmptyBody \/ RuleError
  BY <1>4, <1>fails DEF WrongToken, TerminalError, NonterminalError, EmptyBody, RuleError,
     Syntax, SeveralEnd
<1>5. CASE TerminalName \/ TerminalsDone \/ NonterminalName \/ NonterminalsDone
  BY <1>5, <1>fails, <1>keeps DEF TerminalName, TerminalsDone, NonterminalName,
     NonterminalsDone, SeveralEnd
<1>6. CASE RuleHead \/ RuleItem \/ RuleCode \/ RulesDone
  BY <1>6, <1>fails, <1>keeps DEF RuleHead, RuleItem, RuleCode, RulesDone, SeveralEnd
<1>7. CASE MakeTables
  BY <1>7, <1>fails, <1>keeps DEF MakeTables, TableErrors, SeveralEnd
<1> QED
  BY <1>2, <1>3, <1>4, <1>5, <1>6, <1>7 DEF LoadNext

-----------------------------------------------------------------------------
LEMMA LoaderInitially == LoadInit => LoaderInv
<1> SUFFICES ASSUME LoadInit
             PROVE  LoaderInv
  OBVIOUS
<1>1. LoaderTypes
  <2>1. /\ load_stage \in Stages /\ terminal_state \in {0, 1} /\ rule_state \in 0 .. 3
        /\ rule_codes \in Nat /\ t_idx \in Nat \ {0} /\ end_terminal \in Int
    BY DEF LoadInit, Stages, Opening, NotExist
  <2>2. \A T : <<>> \in Seq(T)
    OBVIOUS
  <2>3. new_rule \in RuleType
    BY <2>2 DEF LoadInit, BlankRule, RuleType, NotExist
  <2> QED
    BY <2>1, <2>2, <2>3 DEF LoaderTypes, LoadInit
<1>2. FreshInv
  BY DEF FreshInv, LoadInit
<1>3. IsInjective(<<>>)
  BY DEF IsInjective
<1>4. NamesInv
  BY <1>3 DEF NamesInv, LoadInit, Opening
<1>5. RulesInv
  <2>1. Len(<<>>) = 0 /\ 1 .. 0 = {}
    OBVIOUS
  <2> QED
    BY <1>3, <2>1 DEF RulesInv, LoadInit, Loaded
<1>6. TextInv /\ KeysInv
  BY DEF TextInv, KeysInv, LoadInit, Loaded
<1>7. ErrorInv
  BY DEF ErrorInv, LoadInit, SeveralEnd
<1> QED
  BY <1>1, <1>2, <1>4, <1>5, <1>6, <1>7 DEF LoaderInv

LEMMA LoaderKept == LoaderInv /\ [LoadNext]_loadVars => LoaderInv'
<1> SUFFICES ASSUME LoaderInv, [LoadNext]_loadVars
             PROVE  LoaderInv'
  OBVIOUS
<1>1. CASE LoadNext
  BY <1>1, TypesKept, FreshKept, NamesKept, RulesKept, TextKept, KeysKept, ErrorsKept
     DEF LoaderInv
<1>2. CASE UNCHANGED loadVars
  <2> USE <1>2 DEF loadVars, declVars, ruleVars, keyVars
  <2>1. LoaderTypes' /\ FreshInv' /\ NamesInv'
    BY DEF LoaderInv, LoaderTypes, FreshInv, NamesInv
  <2>2. RulesInv' /\ KeysInv'
    BY DEF LoaderInv, RulesInv, Heads, Symbols, Loaded, KeysInv
  <2>3. TextInv'
    BY DEF LoaderInv, TextInv, Loaded
  <2>4. ErrorInv'
    BY DEF LoaderInv, ErrorInv, TwoEnd, Ends
  <2> QED
    BY <2>1, <2>2, <2>3, <2>4 DEF LoaderInv
<1> QED
  BY <1>1, <1>2

(* The invariant of the loader: its types, what is empty in front of which
   loop, that names and rules are told apart and declared, that the file is
   the text of what was loaded so far, which names were marked, and why the
   marking failed. *)
THEOREM LoaderInvariant == LoadSpec => []LoaderInv
<1> QED
  BY LoaderInitially, LoaderKept, PTL DEF LoadSpec

LEMMA LoadedGrammar == LoaderInv => LoadedIsGrammar
<1> SUFFICES ASSUME LoaderInv, Loaded
             PROVE  /\ terminals # <<>> /\ nonterminals # <<>> /\ rules # <<>>
                    /\ IsInjective(terminals) /\ IsInjective(nonterminals)
                    /\ IsInjective(rules)
                    /\ \A r \in ToSet(rules) :
                         /\ r.head \in Heads
                         /\ r.body # <<>> /\ ToSet(r.body) \subseteq Symbols
                    /\ rule_codes = Len(rules)
  BY DEF LoadedIsGrammar
<1>1. load_stage # "failed" /\ load_stage \notin Opening \union {"terminals", "nonterminals"}
  BY DEF Loaded, Opening
<1>2. /\ terminals # <<>> /\ nonterminals # <<>>
      /\ IsInjective(terminals) /\ IsInjective(nonterminals)
  BY <1>1 DEF LoaderInv, NamesInv
<1>3. /\ rules # <<>> /\ IsInjective(rules) /\ rule_codes = Len(rules)
      /\ \A n \in 1 .. Len(rules) : IsRule(rules[n], Len(terminals), Len(nonterminals))
  BY <1>1 DEF LoaderInv, RulesInv
<1>4. ASSUME NEW r \in ToSet(rules)
      PROVE  /\ r.head \in Heads
             /\ r.body # <<>> /\ ToSet(r.body) \subseteq Symbols
  <2>1. rules \in Seq(RuleType)
    BY DEF LoaderInv, LoaderTypes
  <2>2. r \in RuleType /\ IsRule(r, Len(terminals), Len(nonterminals))
    BY <1>3, <2>1 DEF ToSet
  <2>3. DOMAIN r.body = 1 .. Len(r.body)
    BY <2>2, RuleParts
  <2> QED
    BY <2>2, <2>3 DEF IsRule, Heads, Symbols, ToSet
<1> QED
  BY <1>2, <1>3, <1>4

LEMMA LoadedText == LoaderInv => LoadedIsWritten
<1> SUFFICES ASSUME LoaderInv
             PROVE  Written = RulesText(terminals, nonterminals, rules) \o Mark("input_end")
  BY DEF LoadedIsWritten, LoaderInv, TextInv
<1>1. /\ terminals \in Seq(TerminalNames) /\ nonterminals \in Seq(NonterminalNames)
      /\ rules \in Seq(RuleType) /\ Len(terminals) \in Nat
  BY DEF LoaderInv, LoaderTypes
<1>2. \A x : SymbolToken(x) = SymbolOf(terminals, nonterminals, x)
  BY DEF SymbolToken, SymbolOf, TerminalToken, NonterminalToken
<1>3. [i \in DOMAIN terminals |-> WrittenTerminal(i - 1)] = TerminalsOf(terminals)
  <2>1. ASSUME NEW i \in 1 .. Len(terminals)
        PROVE  WrittenTerminal(i - 1) = TerminalPiece(terminals[i])
    <3>1. i - 1 < Len(terminals) /\ (i - 1) + 1 = i
      BY <1>1
    <3>2. SymbolToken(i - 1) = TerminalToken(terminals[i])
      BY <1>2, <3>1 DEF SymbolOf
    <3> QED
      BY <3>2 DEF WrittenTerminal, TerminalPiece
  <2> QED
    BY <1>1, <2>1 DEF TerminalsOf
<1>4. [i \in DOMAIN nonterminals |-> SymbolToken(Len(terminals) + i - 1)]
        = NonterminalsOf(nonterminals)
  <2>1. ASSUME NEW i \in 1 .. Len(nonterminals)
        PROVE  SymbolToken(Len(terminals) + i - 1) = NonterminalToken(nonterminals[i])
    <3>1. /\ ~(Len(terminals) + i - 1 < Len(terminals))
          /\ (Len(terminals) + i - 1) - Len(terminals) + 1 = i
      BY <1>1
    <3> QED
      BY <1>2, <3>1 DEF SymbolOf
  <2> QED
    BY <1>1, <2>1 DEF NonterminalsOf
<1>5. [i \in DOMAIN rules |-> WrittenRule(rules[i])]
        = RulesOf(terminals, nonterminals, rules)
  <2>1. ASSUME NEW r \in RuleType
        PROVE  WrittenRule(r) = RuleOf(terminals, nonterminals, r)
    <3>1. DOMAIN r.body = 1 .. Len(r.body)
      BY RuleParts
    <3>2. [i \in DOMAIN r.body |-> SymbolToken(r.body[i])]
            = BodyOf(terminals, nonterminals, r.body)
      BY <1>2, <3>1 DEF BodyOf
    <3> QED
      BY <1>2, <3>2 DEF WrittenRule, RuleOf, BegunRule
  <2>2. DOMAIN rules = 1 .. Len(rules) /\ \A i \in 1 .. Len(rules) : rules[i] \in RuleType
    BY <1>1
  <2> QED
    BY <2>1, <2>2 DEF RulesOf
<1> QED
  BY <1>3, <1>4, <1>5
     DEF Written, RulesText, NonterminalsText, TerminalsText, OpeningText

(* load_from_rule_char_ptr: whatever the file, when it is loaded the result is
   a grammar and, its last terminal and rule complete, the one whose text the
   file is. *)
THEOREM LoadsRight == LoadSpec => []LoadedRight
<1>1. LoaderInv => LoadedRight
  BY LoadedGrammar, LoadedText DEF LoadedRight
<1> QED
  BY <1>1, LoaderInvariant, PTL

(* find_key_terminals: the skip terminals and the end terminal of every loaded
   file are those whose names begin with a mark, and a file is refused for
   several end terminals only if two names do. *)
THEOREM MarksKeys == LoadSpec => []KeysMarked
<1>1. ASSUME LoaderInv
      PROVE  /\ terminals \in Seq(TerminalNames) /\ Len(terminals) \in Nat
             /\ \A i \in DOMAIN terminals :
                  /\ Skips(terminals[i]) <=> BeginsWith(terminals[i], "SKIP")
                  /\ Ends(terminals[i]) <=> NamesEnd(terminals[i])
  <2>1. /\ terminals \in Seq(TerminalNames) /\ Len(terminals) \in Nat
    BY <1>1 DEF LoaderInv, LoaderTypes
  <2>2. \A i \in DOMAIN terminals : terminals[i] \in Seq(STRING)
    BY <2>1, RuleLoaderAssumption
  <2> QED
    BY <2>1, <2>2, KeyOfName DEF Skips, Ends, NamesEnd
<1>2. ASSUME LoaderInv, load_stage \in {"tables", "created"}
      PROVE  /\ ToSet(skip_terminals) =
                  {i - 1 : i \in {i \in DOMAIN terminals : BeginsWith(terminals[i], "SKIP")}}
             /\ {i - 1 : i \in {i \in DOMAIN terminals : NamesEnd(terminals[i])}}
                  = {end_terminal} \ {NotExist}
  <2>1. /\ t_idx = Len(terminals) + 1
        /\ ToSet(skip_terminals) =
             {i - 1 : i \in {i \in 1 .. t_idx - 1 : Skips(terminals[i])}}
        /\ {i - 1 : i \in {i \in 1 .. t_idx - 1 : Ends(terminals[i])}} =
             {end_terminal} \ {NotExist}
    BY <1>2 DEF LoaderInv, KeysInv
  <2>2. 1 .. t_idx - 1 = DOMAIN terminals
    BY <1>1, <1>2, <2>1
  <2>3. /\ {i \in DOMAIN terminals : Skips(terminals[i])}
             = {i \in DOMAIN terminals : BeginsWith(terminals[i], "SKIP")}
        /\ {i \in DOMAIN terminals : Ends(terminals[i])}
             = {i \in DOMAIN terminals : NamesEnd(terminals[i])}
    BY <1>1, <1>2
  <2> QED
    BY <2>1, <2>2, <2>3
<1>3. ASSUME LoaderInv, error_type = SeveralEnd
      PROVE  \E i, j \in DOMAIN terminals :
               i < j /\ NamesEnd(terminals[i]) /\ NamesEnd(terminals[j])
  BY <1>1, <1>3 DEF LoaderInv, ErrorInv, TwoEnd
<1>4. LoaderInv => KeysMarked
  BY <1>2, <1>3 DEF KeysMarked, SeveralEnd
<1> QED
  BY <1>4, LoaderInvariant, PTL

-----------------------------------------------------------------------------
(* The program with the loader in it is a behaviour of the program and one of
   the loader. *)
THEOREM YapgenIsBoth == YapgenSpec => ProgramSpec /\ LoadSpec
<1>1. YapgenInit => Init /\ LoadInit
  BY DEF YapgenInit
<1>2. [YapgenNext]_yapgenVars => [Next]_vars /\ [LoadNext]_loadVars
  <2>1. ReadRules => LoadNext /\ UNCHANGED vars
    BY DEF ReadRules
  <2>2. MainStep => Next /\ UNCHANGED loadVars
    BY DEF MainStep, Next
  <2>3. UNCHANGED yapgenVars => UNCHANGED vars /\ UNCHANGED loadVars
    BY DEF yapgenVars
  <2> QED
    BY <2>1, <2>2, <2>3 DEF YapgenNext
<1> QED
  BY <1>1, <1>2, PTL DEF YapgenSpec, ProgramSpec, LoadSpec

(* main with the loader in it: the exit status is true, the files and reports
   are right, what is loaded is the grammar of the file, and its terminals are
   marked by the beginnings of their names. *)
THEOREM YapgenIsRight ==
  YapgenSpec => /\ []ExitStatus /\ []FilesExact /\ []ReportsShowPosition
                /\ []LoadedRight /\ []KeysMarked
<1> QED
  BY YapgenIsBoth, ExitStatusTrue, FilesAreExact, ReportsAreRight, LoadsRight,
     MarksKeys, PTL
=============================================================================
