------------------------------ MODULE Statements ------------------------------
(***************************************************************************)
(* _split_sql_statements() of src/executor.py: how the text of a request   *)
(* becomes the batch that Executor runs.                                   *)
(*                                                                         *)
(* A text is a sequence of symbols: the characters that the scanner looks  *)
(* at, the keywords that its patterns look for, and "x" for any other      *)
(* word.  Blanks between words are left out, line ends are not.            *)
(***************************************************************************)
EXTENDS Naturals, Sequences, FiniteSets, FiniteSetsExt

Blank == {"nl"}

Strip(text) ==
  LET ink == {j \in DOMAIN text : text[j] \notin Blank}
  IN  IF ink = {} THEN <<>> ELSE SubSeq(text, Min(ink), Max(ink))

\* The first position from i on that passes the test, or one past the end.
FirstFrom(s, i, Test(_)) == Min({j \in i..Len(s) : Test(j)} \cup {Len(s) + 1})

\* What the symbol at a position is followed by.
Follows(s, j, symbols) == j < Len(s) /\ s[j + 1] \in symbols

Word == {"x", "E", "BEGIN", "END", "LOOP", "TRANSACTION", "CREATE", "FUNCTION", "DECLARE"}
Ink(text) == SelectSeq(text, LAMBDA symbol : symbol \notin Blank)

IsPlsqlBlock(text) ==
  LET t == Strip(text)
      Starts(word) == t # <<>> /\ t[1] = word
      rest == Strip(Tail(t))
  IN  \/ Starts("DECLARE")
      \/ Starts("CREATE") /\ \E j \in DOMAIN t : t[j] = "FUNCTION" /\ Follows(t, j, Word)
      \/ Starts("BEGIN") /\ rest # <<>> /\ rest[1] # "TRANSACTION"

\* The patterns look through blanks, so they are given a text without.
Begins(s) ==
  Cardinality({j \in DOMAIN s : s[j] = "BEGIN" /\ ~Follows(s, j, {"TRANSACTION"})})

EndsBlock(s, j, labels) ==
  /\ s[j] = "END"
  /\ Follows(s, j, {";"}) \/ (Follows(s, j, labels) /\ Follows(s, j + 1, {";"}))

\* Mutant: the end of a loop closes a block.
Ends_Loop(s) == Cardinality({j \in DOMAIN s : EndsBlock(s, j, Word \ {"END"})})

Ends(s) == Cardinality({j \in DOMAIN s : EndsBlock(s, j, Word \ {"END", "LOOP"})})

(***************************************************************************)
(* The scanner: st.i is the position, st.cur the statement so far          *)
(***************************************************************************)
Skip(st, next) == [st EXCEPT !.i = next]
Take(s, st, next) == [st EXCEPT !.i = next, !.cur = @ \o SubSeq(s, st.i, next - 1)]

Flush(st, next) ==
  LET stmt == Strip(st.cur)
  IN  [i |-> next, cur |-> <<>>, plsql |-> FALSE,
       out |-> IF stmt = <<>> THEN st.out ELSE Append(st.out, stmt)]

\* One past the literal whose contents begin at i.  A doubled quote does not
\* end it, nor does one after a backslash in an escape string.
AfterLiteral(s, i, quote, escapes) ==
  LET after[j \in i..(Len(s) + 2)] ==
        IF j > Len(s) THEN Len(s) + 1
        ELSE IF s[j] = quote
        THEN IF Follows(s, j, {quote}) THEN after[j + 2] ELSE j + 1
        ELSE IF escapes /\ s[j] = "bslash" /\ j < Len(s) THEN after[j + 2]
        ELSE after[j + 1]
  IN  after[i]

LineComment(s, st) ==
  LET LineEnds(j) == s[j] = "nl"
  IN  Skip(st, FirstFrom(s, st.i + 1, LineEnds))

\* A comment that is not closed ends before the last character.
BlockComment(s, st) ==
  LET Closes(j) == s[j] = "star" /\ Follows(s, j, {"/"})
      close == FirstFrom(s, st.i + 2, Closes)
  IN  Skip(st, IF close <= Len(s) THEN close + 2 ELSE Max({st.i + 2, Len(s)}))

Dollar(s, st) ==
  LET IsDollar(j) == s[j] = "$"
      open == FirstFrom(s, st.i + 1, IsDollar)
      tag == SubSeq(s, st.i, open)
      Closes(j) ==
        j + Len(tag) - 1 <= Len(s) /\ SubSeq(s, j, j + Len(tag) - 1) = tag
      close == FirstFrom(s, open + 1, Closes)
  IN  IF open > Len(s) THEN Take(s, st, st.i + 1)
      ELSE IF close <= Len(s) THEN Take(s, st, close + Len(tag))
      ELSE Take(s, st, Max({open + 1, Len(s) - Len(tag) + 2}))

Backtick(s, st) ==
  LET Closes(j) == s[j] = "tick"
  IN  Take(s, st, Min({FirstFrom(s, st.i + 1, Closes), Len(s)}) + 1)

\* A block goes on until as many ENDs as BEGINs are in it.
Semicolon(s, st) ==
  LET block == Take(s, st, st.i + 1)
      ink == Ink(block.cur)
      open == Begins(ink) = 0 \/ Begins(ink) # Ends(ink)
  IN  IF ~st.plsql /\ ~IsPlsqlBlock(st.cur) THEN Flush(st, st.i + 1)
      ELSE IF open THEN [block EXCEPT !.plsql = TRUE]
      ELSE Flush(block, block.i)

Step(s, st) ==
  LET ch == s[st.i]
      Next(symbols) == Follows(s, st.i, symbols)
  IN  CASE ch = "-" /\ Next({"-"}) -> LineComment(s, st)
        [] ch = "#" -> LineComment(s, st)
        [] ch = "/" /\ Next({"star"}) -> BlockComment(s, st)
        [] ch = "$" -> Dollar(s, st)
        [] ch = "E" /\ Next({"'"}) -> Take(s, st, AfterLiteral(s, st.i + 2, "'", TRUE))
        [] ch \in {"'", "dquote"} -> Take(s, st, AfterLiteral(s, st.i + 1, ch, FALSE))
        [] ch = "tick" -> Backtick(s, st)
        [] ch = ";" -> Semicolon(s, st)
        [] ch = "/" /\ Next({"nl"}) -> Flush(st, st.i + 2)
        [] ch = "/" /\ st.i = Len(s) -> Flush(st, st.i + 1)
        [] OTHER -> Take(s, st, st.i + 1)

\* The scanner at the end of the text.  Every step consumes a symbol, so that it
\* gets there in as many steps as there are symbols.
Scanned(s) ==
  LET start == [i |-> 1, cur |-> <<>>, out |-> <<>>, plsql |-> FALSE]
      scan[k \in 0..Len(s)] ==
        IF k = 0 THEN start
        ELSE LET st == scan[k - 1] IN IF st.i > Len(s) THEN st ELSE Step(s, st)
  IN  scan[Len(s)]

SplitStatements(s) == Flush(Scanned(s), Len(s) + 1).out
=============================================================================
