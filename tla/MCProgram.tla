----------------------------- MODULE MCProgram -----------------------------
EXTENDS Yapgen

X == 97
TwoBytes == 195
ThreeBytes == 226
Continued == 130

Words(S, n) == UNION {[1 .. k -> S] : k \in 0 .. n}

NoFile == [maker |-> "missing", text |-> <<>>]
UserFile(text) == [maker |-> "user", text |-> text]

FileNames == {"g", "s", "--source"}
OptionNames == {arg_option_names[o] : o \in 1 .. arg_option_cnt}

FilesOf(g, s) ==
  [name \in FileNames \union OptionNames |->
     CASE name = "g" -> g [] name = "s" -> s [] OTHER -> NoFile]

(* Up to two options with any of the files, and all the ways in which a
   command line of up to three words goes wrong. *)
ArgumentLists ==
  {<<o, f>> : o \in OptionNames, f \in FileNames}
    \union {<<o, f, p, h>> : o, p \in OptionNames, f, h \in FileNames}
    \union Words({"--parser_descr", "--source", "s"}, 3)

(* A rule file, and then three options more. *)
LongLists ==
  {<<"--parser_descr", "g", o, f, p, h, "--source", "s">> :
     o, p \in OptionNames, f, h \in {"g", "s"}}

ArgumentScenarios ==
  {[args |-> a, files |-> FilesOf(g, s), locked |-> l] :
     a \in ArgumentLists, l \in {{}, {"s"}},
     g \in {NoFile, UserFile(<<>>), UserFile(<<X>>)},
     s \in {NoFile, UserFile(<<X>>)}}
  \union
  {[args |-> a, files |-> FilesOf(UserFile(<<X>>), s), locked |-> l] :
     a \in LongLists, l \in {{}, {"s"}}, s \in {NoFile, UserFile(<<X>>)}}

(* Texts that do not end within a character of more than two bytes: there
   utf8_to_utf32 would read behind the text. *)
Texts ==
  {t \in Words({X, Tab, NewLine, TwoBytes, ThreeBytes, Continued}, 4) :
     t # <<>> => t[Len(t)] # ThreeBytes}

TextScenarios ==
  {[args |-> <<"--parser_descr", "g">>, files |-> FilesOf(UserFile(t), NoFile),
    locked |-> {}] : t \in Texts}

(* A rule file that is there, and a text to parse. *)
OneToRead ==
  {[args |-> <<"--parser_descr", "g", "--source", "s">>,
    files |-> FilesOf(UserFile(<<X>>), UserFile(<<X>>)), locked |-> {}]}

AllScenarios == ArgumentScenarios \union TextScenarios

OneX == <<X>>

-----------------------------------------------------------------------------
(* Names with the end and skip marks, and names that only look like them. *)
MarkNames == {<<"_", "END", "_">>, <<"_", "END", "_", "x">>,
              <<"_", "_", "SKIP">>, <<"_", "_", "END", "_">>}
=============================================================================
