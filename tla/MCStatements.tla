----------------------------- MODULE MCStatements -----------------------------
(***************************************************************************)
(* What a text is split into, defined on its lexemes, and the scanner of   *)
(* Statements compared with it on every short text of closed lexemes.      *)
(***************************************************************************)
EXTENDS Statements
LOCAL INSTANCE SequencesExt

Lexeme ==
  [ word |-> <<"x">>,                   line |-> <<"nl">>,
    divide |-> <<"/", "x">>,            transaction |-> <<"BEGIN", "TRANSACTION">>,
    literal |-> <<"'", ";", "'", "'", "-", "-", "'">>,
    escape |-> <<"E", "'", "bslash", "'", ";", "'">>,
    identifier |-> <<"dquote", "'", ";", "dquote">>,
    backtick |-> <<"tick", ";", "dquote", "tick">>,
    dollar |-> <<"$", "$", ";", "'", "$", "$">>,
    tagged |-> <<"$", "x", "$", ";", "$", "$", "$", "x", "$">>,
    comment |-> <<"-", "-", ";", "'", "nl">>,
    hash |-> <<"#", ";", "nl">>,
    remark |-> <<"/", "star", ";", "dquote", "star", "/">>,
    semicolon |-> <<";">>,              slash |-> <<"/", "nl">>,
    block |-> <<"BEGIN", "x", ";", "BEGIN", "x", ";", "END", "x", ";", "END", ";">>,
    loop |-> <<"BEGIN", "x", "LOOP", "x", ";", "END", "LOOP", ";", "END", ";">>,
    function |-> <<"CREATE", "FUNCTION", "x", "DECLARE", "x", ";", "BEGIN", "x", ";",
                   "END", ";">> ]

Comments == {"comment", "hash", "remark", "line"}
Separators == {"semicolon", "slash"}
Blocks == {"block", "loop", "function"}

\* A block begins a statement.
WellFormed(text) ==
  \A b \in DOMAIN text : text[b] \in Blocks =>
    \A j \in 1..(b - 1) : text[j] \notin Comments \cup Separators \cup Blocks =>
      \E k \in j..(b - 1) : text[k] \in Separators \cup Blocks

Render(text) == FlattenSeq([j \in DOMAIN text |-> Lexeme[text[j]]])

\* Separators and blocks end a statement, comments are not part of one.
Reference(text) ==
  LET cut == {0, Len(text) + 1} \cup {j \in DOMAIN text : text[j] \in Separators \cup Blocks}
      Upto(j) == SubSeq(text, Max({k \in cut : k < j}) + 1, Min({j, Len(text)}))
      Kept(lexeme) == lexeme \notin Comments \cup Separators
      ends == SetToSortSeq(cut \ {0}, <)
      Stmt(j) == Render(SelectSeq(Upto(j), Kept))
  IN  SelectSeq([n \in DOMAIN ends |-> Stmt(ends[n])], LAMBDA stmt : stmt # <<>>)

MaxLexemes == 4

\* The scanner gives what the definition says, for texts of each length.
SplitRight ==
  [n \in 1..MaxLexemes |->
     \A text \in [1..n -> DOMAIN Lexeme] : WellFormed(text) =>
       LET result == SplitStatements(Render(text))
       IN  [k \in DOMAIN result |-> Ink(result[k])] = Reference(text)]
=============================================================================
