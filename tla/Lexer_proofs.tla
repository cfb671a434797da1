---------------------------- MODULE Lexer_proofs ----------------------------
(***************************************************************************)
(* The lexer, for any text and any sequence of calls of Lex and Peek.        *)
(***************************************************************************)
EXTENDS Lexer, TLAPS

(* The tokens of the language, text by text.                                 *)

\* What a text is with the rune r more, for each text that Lex may have read.
LEMMA AtStart == ASSUME NEW r
    PROVE /\ r \in Spaces => Derive("empty", r) = "empty"
          /\ r = "#" => Derive("empty", r) = "#"
          /\ IsStart(r) => Derive("empty", r) = "id"
          /\ r \in Singles \cup Doubles => Derive("empty", r) = r
          /\ r = "arrow" => Derive("empty", r) = "pair"
          /\ r = "quote" => Derive("empty", r) = "str"
          /\ r = "." => Derive("empty", r) = "."
          /\ r = "0" => Derive("empty", r) = "0"
          /\ r \in Ascii \ {"0"} => Derive("empty", r) = "dec"
          /\ r \in {"digit", "\\", "@", "ctl", "eof"} => Derive("empty", r) = "no"
BY DEF Derive, DeriveStr, DeriveNum, Spaces, IsStart, Letters, Singles, Doubles, Pairs,
       Ascii, Digits, IsAlpha

LEMMA AtWord == ASSUME NEW r
    PROVE /\ Derive("#", r) = IF r = "eof" THEN "no" ELSE IF r = "nl" THEN "empty" ELSE "#"
          /\ Derive("id", r) = IF IsAlpha(r) THEN "id" ELSE "no"
          /\ \A s \in Doubles : Derive(s, r) = IF <<s, r>> \in Pairs THEN "pair" ELSE "no"
          /\ \A s \in Singles \cup {"pair", "string", "string\\", "no"} : Derive(s, r) = "no"
BY DEF Derive, DeriveStr, DeriveNum, Singles, Doubles, Pairs

LEMMA AtNo == \A r : Derive("no", r) = "no"
BY AtWord

LEMMA AtStr == ASSUME NEW r
    PROVE /\ Derive("str", r) = IF r = "quote" THEN "string" ELSE IF r = "\\" THEN "esc"
                                ELSE IF IsStrDigit(r) THEN "str" ELSE "no"
          /\ Derive("str\\", r) = IF r = "quote" THEN "string\\" ELSE IF r = "\\" THEN "esc"
                                  ELSE IF IsStrDigit(r) THEN "str\\" ELSE "no"
          /\ Derive("esc", r) = IF IsGraphic(r) THEN "str\\" ELSE "no"
BY DEF Derive, DeriveStr, DeriveNum, Singles, Doubles, Pairs, IsStrDigit

LEMMA AtNum == ASSUME NEW r
    PROVE /\ Derive("0", r) = IF r \in Ascii THEN "dec" ELSE IF r = "." THEN "float"
                              ELSE IF r \in {"e", "E"} THEN "exp" ELSE IF r = "x" THEN "0x"
                              ELSE IF r = "o" THEN "0o" ELSE IF r = "b" THEN "0b" ELSE "no"
          /\ Derive("dec", r) = IF r \in Ascii THEN "dec" ELSE IF r = "." THEN "float"
                                ELSE IF r \in {"e", "E"} THEN "exp" ELSE "no"
          /\ Derive(".", r) = IF r \in Ascii THEN "float" ELSE "no"
          /\ Derive("float", r) = IF r \in Ascii THEN "float"
                                  ELSE IF r \in {"e", "E"} THEN "exp" ELSE "no"
          /\ Derive("exp", r) = IF r = "+" THEN "sign" ELSE IF r \in Ascii THEN "floatexp" ELSE "no"
          /\ Derive("sign", r) = IF r \in Ascii THEN "floatexp" ELSE "no"
          /\ Derive("floatexp", r) = IF r \in Ascii THEN "floatexp" ELSE "no"
BY DEF Derive, DeriveStr, DeriveNum, Singles, Doubles, Pairs, Ascii, Digits

LEMMA AtBased == ASSUME NEW r
    PROVE /\ Derive("0x", r) = IF r = "under" THEN "0x_" ELSE IF r \in LowHex THEN "hex"
                               ELSE IF r \in {"E", "F"} THEN "HEX" ELSE "no"
          /\ \A s \in {"0x_", "hex"} :
                Derive(s, r) = IF r \in LowHex THEN "hex"
                               ELSE IF r \in {"E", "F"} THEN "HEX" ELSE "no"
          /\ Derive("HEX", r) = IF r \in LowHex \cup {"E", "F"} THEN "HEX" ELSE "no"
          /\ Derive("0o", r) = IF r = "under" THEN "0o_" ELSE IF r \in Oct THEN "oct" ELSE "no"
          /\ \A s \in {"0o_", "oct"} : Derive(s, r) = IF r \in Oct THEN "oct" ELSE "no"
          /\ Derive("0b", r) = IF r = "under" THEN "0b_" ELSE IF r \in Bin THEN "bin" ELSE "no"
          /\ \A s \in {"0b_", "bin"} : Derive(s, r) = IF r \in Bin THEN "bin" ELSE "no"
BY DEF Derive, DeriveStr, DeriveNum, Singles, Doubles, Pairs, Ascii, Digits, LowHex, Oct, Bin
-----------------------------------------------------------------------------
(* What the text may be wherever Lex is, and what that tells of the next     *)
(* rune.  It is the same whether something is left before the text or not.   *)

WordAt ==
    \/ pc = "loop" /\ tnum = "0" /\ ~hasDot /\ (text = "empty" \/ (text = "#" /\ rune = "eof"))
    \/ pc = "comment" /\ text = "#" /\ tnum = "0" /\ ~hasDot
    \/ pc = "double" /\ text \in Doubles
    \/ pc = "id" /\ text = "id"
    \/ pc = "string" /\ text \in {"str", "str\\", "no"}
    \/ pc = "escape" /\ text \in {"esc", "no"}

\* At the end of the text nothing is taken, though lexNum goes on.
DigitsAt ==
    \/ text = "no" /\ tnum \in {"0", "x", "o", "b"} /\ (hasDot => tnum = "0")
    \/ /\ tnum = "0" /\ ~hasDot
       /\ text = "dec" \/ (text = "0" /\ rune \notin {"x", "o", "b"})
    \/ tnum = "0" /\ hasDot /\ (text = "float" \/ (text = "." /\ rune = "eof"))
    \/ tnum = "x" /\ ~hasDot /\ (text \in {"0x_", "hex", "HEX"} \/ (text = "0x" /\ rune = "eof"))
    \/ tnum = "o" /\ ~hasDot /\ (text \in {"0o_", "oct"} \/ (text = "0o" /\ rune = "eof"))
    \/ tnum = "b" /\ ~hasDot /\ (text \in {"0b_", "bin"} \/ (text = "0b" /\ rune = "eof"))

NumAt ==
    \/ pc = "dot" /\ text = "." /\ tnum = "0" /\ hasDot
    \/ pc = "zero" /\ text = "0" /\ tnum = "0" /\ ~hasDot
    \/ /\ pc = "based" /\ ~hasDot
       /\ (tnum = "x" /\ text = "0x") \/ (tnum = "o" /\ text = "0o") \/ (tnum = "b" /\ text = "0b")
    \/ pc = "digits" /\ DigitsAt
    \/ pc = "frac" /\ tnum = "0" /\ hasDot /\ text \in {"float", "no"}
    \/ pc = "exp" /\ (text = "no" \/ (tnum = "0" /\ text = "exp") \/ (tnum = "x" /\ text = "HEX"))
    \/ pc = "sign" /\ (text = "no" \/ (tnum = "0" /\ text = "sign"))
    \/ /\ pc = "expdigits"
       /\ text \in {"no", "floatexp"} \/ (text \in {"exp", "sign"} /\ rune = "eof")

Told == TokensOfText /\ ErrorsHaveAReason /\ TakesSome

\* Something is left before the text only after an error.
Inv ==
    /\ TakenOnce
    /\ tokSaved # "none" => pc = "out" /\ out = tokSaved
    /\ stale => IF pc = "out" THEN out = "error" ELSE prev = "error"
    /\ pc # "out" => WordAt \/ NumAt
    /\ Told

LEMMA InvInit == Init => Inv
BY DEF Init, Inv, TakenOnce, Told, TokensOfText, ErrorsHaveAReason, TakesSome

\* A step of Lex that does not return.
LEMMA Goes == ASSUME Inv, pc # "out", pc' # "out", UNCHANGED callvars, stale' => stale,
                     (WordAt \/ NumAt)'
              PROVE  Inv'
BY DEF Inv, Told, TakenOnce, TokensOfText, ErrorsHaveAReason, TakesSome, callvars

LEMMA Returns == ASSUME Inv, pc # "out", NEW t, Return(t), t # "none", stale' => t = "error", Told'
                 PROVE  Inv'
BY DEF Inv, TakenOnce, Return

LEMMA Calls == ASSUME Inv, takeSaved \/ Call PROVE Inv'
<1>1. CASE takeSaved
  <2>1. /\ pc = "out" /\ tokSaved # "none" /\ UNCHANGED <<pc, text, rune, stale, prev, spelled>>
        /\ out' = tokSaved /\ call' \in {"Lex", "Peek"}
        /\ tokSaved' = IF call' = "Lex" THEN "none" ELSE tokSaved
        /\ ahead' = ahead - (IF call' = "Lex" THEN 1 ELSE 0)
    BY <1>1 DEF takeSaved
  <2>2. UNCHANGED out
    BY <2>1 DEF Inv
  <2>3. Told'
    BY <2>1, <2>2 DEF Inv, Told, TokensOfText, ErrorsHaveAReason, TakesSome, TokenOf,
       Longest, NextIsCapital
  <2>4. TakenOnce'
    BY <2>1 DEF Inv, TakenOnce
  <2> QED
    BY <2>1, <2>2, <2>3, <2>4 DEF Inv
<1>2. CASE Call
  BY <1>2 DEF Call, Inv, TakenOnce, WordAt, Told, TokensOfText, ErrorsHaveAReason, TakesSome
<1> QED
  BY <1>1, <1>2

LEMMA LoopInv == ASSUME Inv, Loop PROVE Inv'
<1>0. /\ pc = "loop" /\ tnum = "0" /\ ~hasDot
      /\ text = "empty" \/ (text = "#" /\ rune = "eof")
  BY DEF Loop, Space, Comment, Single, Double, String, Number, Id, BadRune, Inv, WordAt, NumAt
<1>1. CASE Space
  <2>1. text' = "empty"
    BY <1>0, <1>1, AtStart DEF Space, Take, Spaces
  <2> QED
    BY <1>0, <1>1, <2>1, Goes DEF Space, WordAt, numvars
<1>2. CASE Comment
  <2>1. text' = "#"
    BY <1>0, <1>2, AtStart DEF Comment, Read, Take
  <2> QED
    BY <1>0, <1>2, <2>1, Goes DEF Comment, Read, Goto, WordAt, numvars
<1>3. CASE Single
  <2>1. CASE rune = "eof"
    <3>1. Return("eof") /\ ~stale' /\ UNCHANGED <<rune, text>>
      BY <1>3, <2>1 DEF Single, Accept, Take
    <3>2. Told'
      BY <1>0, <2>1, <3>1 DEF Return, Told, TokensOfText, ErrorsHaveAReason, TakesSome
    <3> QED
      BY <1>0, <3>1, <3>2, Returns
  <2>2. CASE rune # "eof"
    <3> DEFINE t == IF rune = "arrow" THEN "pair" ELSE rune
    <3>1. text' = t /\ Return(t) /\ ~stale'
      BY <1>0, <1>3, <2>2, AtStart DEF Single, Accept, Take
    <3>2. t \in Singles \cup {"pair"} /\ out' = t
      BY <1>3, <2>2, <3>1 DEF Single, Return
    <3>3. Derive(t, rune') = "no"
      BY <3>2, AtWord
    <3>4. Told'
      BY <3>1, <3>2, <3>3 DEF Told, TokensOfText, ErrorsHaveAReason, TakesSome, Longest,
         TokenOf, Whole, Singles, Ints, Floats
    <3>5. t # "none" /\ pc # "out"
      BY <1>0, <3>2 DEF Singles
    <3> QED
      BY <3>1, <3>4, <3>5, Returns
  <2> QED
    BY <2>1, <2>2
<1>4. CASE Double
  <2>1. text' \in Doubles
    BY <1>0, <1>4, AtStart DEF Double, Read, Take, Doubles
  <2> QED
    BY <1>0, <1>4, <2>1, Goes DEF Double, Read, Goto, WordAt
<1>5. CASE String
  <2>1. text' = "str"
    BY <1>0, <1>5, AtStart DEF String, Read, Take
  <2> QED
    BY <1>0, <1>5, <2>1, Goes DEF String, Read, Goto, WordAt
<1>6. CASE Number
  <2>1. text' = IF rune \in {".", "0"} THEN rune ELSE IF rune = "digit" THEN "no" ELSE "dec"
    BY <1>0, <1>6, AtStart DEF Number, Read, Take, Digits, Ascii
  <2>2. /\ pc' = IF rune = "." THEN "dot" ELSE IF rune = "0" THEN "zero" ELSE "digits"
        /\ hasDot' = (rune = ".") /\ tnum' = "0" /\ UNCHANGED <<callvars, stale>>
    BY <1>0, <1>6 DEF Number, Read, Goto
  <2> QED
    BY <1>0, <2>1, <2>2, Goes DEF NumAt, DigitsAt
<1>7. CASE Id
  <2>1. text' = "id"
    BY <1>0, <1>7, AtStart DEF Id, Read, Take, IsStart, Letters
  <2> QED
    BY <1>0, <1>7, <2>1, Goes DEF Id, Read, Goto, WordAt
<1>8. CASE BadRune
  <2>1. text' = "no" /\ Return("error")
    BY <1>0, <1>8, AtStart DEF BadRune, Fail, Take
  <2>2. Told'
    BY <2>1 DEF Return, Told, TokensOfText, ErrorsHaveAReason, TakesSome, Whole, Singles,
       Doubles, Ints, Floats
  <2> QED
    BY <1>0, <2>1, <2>2, Returns
<1> QED
  BY <1>1, <1>2, <1>3, <1>4, <1>5, <1>6, <1>7, <1>8 DEF Loop

LEMMA WordInv == ASSUME Inv, eatComment \/ mayLexDouble \/ lexId PROVE Inv'
<1>1. CASE eatComment
  <2>1. pc = "comment" /\ text = "#" /\ tnum = "0" /\ ~hasDot
    BY <1>1 DEF eatComment, Inv, WordAt, NumAt
  <2>2. /\ text' = (IF rune = "nl" THEN "empty" ELSE "#") /\ (rune = "eof" => rune' = "eof")
    BY <1>1, <2>1, AtWord DEF eatComment, Take
  <2> QED
    BY <1>1, <2>1, <2>2, Goes DEF eatComment, WordAt, numvars
<1>2. CASE mayLexDouble
  <2>1. pc = "double" /\ text \in Doubles
    BY <1>2 DEF mayLexDouble, Inv, WordAt, NumAt
  <2>2. CASE ~stale /\ <<text, rune>> \in Pairs
    <3>1. text' = "pair" /\ Return("pair") /\ ~stale'
      BY <1>2, <2>1, <2>2, AtWord DEF mayLexDouble, Take, Accept, Pairs
    <3>2. Derive("pair", rune') = "no"
      BY AtWord
    <3>3. Told'
      BY <3>1, <3>2 DEF Return, Told, TokensOfText, ErrorsHaveAReason, TakesSome, Longest,
         TokenOf, Whole, Ints, Floats
    <3> QED
      BY <2>1, <3>1, <3>3, Returns
  <2>3. CASE ~(~stale /\ <<text, rune>> \in Pairs)
    <3>1. UNCHANGED <<rune, text>> /\ Return(text) /\ ~stale'
      BY <1>2, <2>3 DEF mayLexDouble, Look, Accept
    <3>2. prev # "error" => Longest
      BY <2>1, <2>3, AtWord DEF Inv, Longest
    <3>3. Told'
      BY <2>1, <3>1, <3>2 DEF Return, Told, TokensOfText, ErrorsHaveAReason, TakesSome,
         Longest, TokenOf, Whole, Doubles, Ints, Floats
    <3>4. text # "none"
      BY <2>1 DEF Doubles
    <3> QED
      BY <2>1, <3>1, <3>3, <3>4, Returns
  <2> QED
    BY <2>2, <2>3
<1>3. CASE IdRune
  <2>1. pc = "id" /\ text = "id"
    BY <1>3 DEF IdRune, Inv, WordAt, NumAt
  <2>2. text' = "id"
    BY <1>3, <2>1, AtWord DEF IdRune, Read, Take
  <2> QED
    BY <1>3, <2>1, <2>2, Goes DEF IdRune, Read, Goto, WordAt
<1>4. CASE IdEnds
  <2>1. pc = "id" /\ text = "id"
    BY <1>4 DEF IdEnds, Inv, WordAt, NumAt
  <2>2. PICK t \in {"keyword", "id"} :
           Return(t) /\ t = IF spelled' /\ ~stale THEN "keyword" ELSE "id"
    BY <1>4 DEF IdEnds, Accept
  <2>3. UNCHANGED <<rune, text>> /\ ~stale' /\ Longest
    BY <1>4, <2>1, AtWord DEF IdEnds, Look, Accept, Longest
  <2>4. prev # "error" => ~stale
    BY <2>1 DEF Inv
  <2>5. prev # "error" => t = IF spelled' THEN "keyword" ELSE "id"
    BY <2>2, <2>4
  <2>6. (TokenOf(text))' = IF spelled' THEN "keyword" ELSE "id"
    BY <2>1, <2>3 DEF TokenOf, Ints, Floats
  <2>7. Told'
    BY <2>1, <2>2, <2>3, <2>5, <2>6 DEF Return, Told, TokensOfText, ErrorsHaveAReason,
       TakesSome, Longest, Whole
  <2> QED
    BY <2>1, <2>2, <2>3, <2>7, Returns
<1> QED
  BY <1>1, <1>2, <1>3, <1>4 DEF lexId

LEMMA StrInv == ASSUME Inv, lexString PROVE Inv'
<1> USE DEF Whole, Singles, Doubles, Ints, Floats
<1>1. CASE StrRune
  <2>1. pc = "string" /\ text \in {"str", "str\\", "no"}
    BY <1>1 DEF StrRune, Inv, WordAt, NumAt
  <2>2. rune \notin {"eof", "quote"}
    BY <1>1 DEF StrRune, IsStrDigit, IsGraphic
  <2>3. text' = (IF text = "no" THEN "no" ELSE IF rune = "\\" THEN "esc" ELSE text)
    BY <1>1, <2>1, <2>2, AtStr, AtNo DEF StrRune, Read, Take
  <2>4. pc' = (IF rune = "\\" THEN "escape" ELSE "string") /\ UNCHANGED <<callvars, stale>>
    BY <1>1 DEF StrRune, Read, Goto
  <2> QED
    BY <2>1, <2>3, <2>4, Goes DEF WordAt
<1>2. CASE Escape
  <2>1. pc = "escape" /\ text \in {"esc", "no"}
    BY <1>2 DEF Escape, Inv, WordAt, NumAt
  <2>2. CASE rune = "quote" \/ IsStrDigit(rune)
    <3>1. text' \in {"str\\", "no"}
      BY <1>2, <2>1, <2>2, AtStr, AtNo DEF Escape, Take, IsStrDigit, IsGraphic
    <3> QED
      BY <1>2, <2>1, <2>2, <3>1, Goes DEF Escape, Goto, WordAt
  <2>3. CASE ~(rune = "quote" \/ IsStrDigit(rune))
    <3>1. Derive(text, rune) = "no"
      BY <2>1, <2>3, AtStr, AtNo DEF IsStrDigit
    <3>2. text' = "no" \/ UNCHANGED <<rune, text>>
      BY <1>2, <3>1 DEF Escape, Take
    <3>3. Return("error")
      BY <1>2, <2>3 DEF Escape, Fail
    <3>4. Told'
      BY <2>1, <3>1, <3>2, <3>3 DEF Return, Told, TokensOfText, ErrorsHaveAReason,
         TakesSome, Longest
    <3> QED
      BY <2>1, <3>3, <3>4, Returns
  <2> QED
    BY <2>2, <2>3
<1>3. CASE StrEnds
  <2>1. pc = "string" /\ text \in {"str", "str\\", "no"} /\ rune = "quote"
    BY <1>3 DEF StrEnds, Inv, WordAt, NumAt
  <2>2. text' \in {"string", "string\\", "no"}
    BY <1>3, <2>1, AtStr, AtNo DEF StrEnds, Take
  <2>3. Derive("string", rune') = "no" /\ Derive("string\\", rune') = "no"
    BY AtWord
  <2>4. prev # "error" => ~stale
    BY <2>1 DEF Inv
  <2>5. CASE Accept("str") /\ text' # "no"
    <3>1. Told'
      BY <2>2, <2>3, <2>5 DEF Accept, Return, Told, TokensOfText, ErrorsHaveAReason,
         TakesSome, Longest, TokenOf
    <3> QED
      BY <2>1, <2>5, <3>1, Returns DEF Accept
  <2>6. CASE Accept("error") /\ (text' = "string" => stale)
    <3>1. Told'
      BY <2>2, <2>4, <2>6 DEF Accept, Return, Told, TokensOfText, ErrorsHaveAReason, TakesSome
    <3> QED
      BY <2>1, <2>6, <3>1, Returns DEF Accept
  <2> QED
    BY <1>3, <2>5, <2>6 DEF StrEnds
<1>4. CASE StrFails
  <2>1. pc = "string" /\ text \in {"str", "str\\", "no"}
    BY <1>4 DEF StrFails, Inv, WordAt, NumAt
  <2>2. UNCHANGED <<rune, text>> /\ Return("error")
    BY <1>4 DEF StrFails, Look, Fail
  <2>3. Longest
    BY <1>4, <2>1, AtStr, AtNo DEF StrFails, Longest, IsStrDigit, IsGraphic
  <2>4. Told'
    BY <2>1, <2>2, <2>3 DEF Return, Told, TokensOfText, ErrorsHaveAReason, TakesSome, Longest
  <2> QED
    BY <2>1, <2>2, <2>4, Returns
<1> QED
  BY <1>1, <1>2, <1>3, <1>4 DEF lexString

LEMMA NumInv == ASSUME Inv, lexNum PROVE Inv'
<1> USE DEF Whole, Singles, Doubles, Ints, Floats
<1>0. pc # "out" /\ NumAt /\ text # "none"
  BY DEF lexNum, Dot, Zero, Based, NumDigit, NumDot, NumExp, ExpSign, Exponent, ExpDigit, NumEnds,
     Inv, WordAt, NumAt, DigitsAt
<1>r. ASSUME NEW t, Accept(t), t # "none", Told' PROVE Inv'
  BY <1>0, <1>r, Returns DEF Accept
<1>e. ASSUME Accept("error"), text' \in {"no", "HEX"} PROVE Inv'
  <2>1. Told'
    BY <1>e DEF Accept, Return, Told, TokensOfText, ErrorsHaveAReason, TakesSome
  <2> QED
    BY <1>e, <1>r, <2>1
<1>1. CASE Dot
  <2>1. text = "." /\ tnum = "0" /\ hasDot
    BY <1>0, <1>1 DEF Dot, NumAt
  <2>2. text' \in {"float", "no"} \/ (text' = "." /\ rune' = "eof")
    BY <1>1, <2>1, AtNum DEF Dot, Read, Take
  <2> QED
    BY <1>0, <1>1, <2>1, <2>2, Goes DEF Dot, Read, Goto, NumAt, DigitsAt, numvars
<1>2. CASE Zero
  <2>1. text = "0" /\ tnum = "0" /\ ~hasDot
    BY <1>0, <1>2 DEF Zero, NumAt
  <2>2. CASE rune \in {"x", "b", "o"}
    <3>1. text' = IF rune = "x" THEN "0x" ELSE IF rune = "o" THEN "0o" ELSE "0b"
      BY <1>2, <2>1, <2>2, AtNum DEF Zero, Read, Take, Ascii, Digits
    <3> QED
      BY <1>0, <1>2, <2>1, <2>2, <3>1, Goes DEF Zero, Read, Goto, NumAt
  <2>3. CASE rune \notin {"x", "b", "o"}
    BY <1>0, <1>2, <2>1, <2>3, Goes DEF Zero, Look, Goto, NumAt, DigitsAt
  <2> QED
    BY <2>2, <2>3
<1>3. CASE Based
  <2>1. /\ ~hasDot
        /\ (tnum = "x" /\ text = "0x") \/ (tnum = "o" /\ text = "0o") \/ (tnum = "b" /\ text = "0b")
    BY <1>0, <1>3 DEF Based, NumAt
  <2>2. \/ rune = "eof" /\ UNCHANGED <<rune, text>>
        \/ text' = Derive(text, rune)
    BY <1>3 DEF Based, Read, Take
  <2>3. UNCHANGED <<hasDot, tnum, callvars, stale>> /\ pc' = "digits"
    BY <1>3 DEF Based, Read, Goto, numvars
  <2>4. CASE tnum = "x"
    BY <1>0, <2>1, <2>2, <2>3, <2>4, AtBased, Goes DEF NumAt, DigitsAt
  <2>5. CASE tnum = "o"
    BY <1>0, <2>1, <2>2, <2>3, <2>5, AtBased, Goes DEF NumAt, DigitsAt
  <2>6. CASE tnum = "b"
    BY <1>0, <2>1, <2>2, <2>3, <2>6, AtBased, Goes DEF NumAt, DigitsAt
  <2> QED
    BY <2>1, <2>4, <2>5, <2>6
<1>4. CASE NumDigit
  <2>1. /\ rune # "eof" /\ text' = Derive(text, rune)
        /\ UNCHANGED <<pc, hasDot, tnum, callvars, stale>>
    BY <1>0, <1>4 DEF NumDigit, Read, Take, Goto, numvars, isdigitBased, Digits, NumAt, DigitsAt
  <2>2. CASE pc = "digits"
    <3>1. DigitsAt /\ isdigitBased(rune, tnum)
      BY <1>0, <1>4, <2>2 DEF NumDigit, NumAt
    <3>2. CASE text = "no"
      BY <1>0, <2>1, <2>2, <3>1, <3>2, AtNo, Goes DEF NumAt, DigitsAt
    <3>3. CASE text # "no" /\ tnum = "0"
      <4>1. rune \in Digits
        BY <3>1, <3>3 DEF isdigitBased
      <4>2. text' \in IF hasDot THEN {"float", "no"} ELSE {"dec", "no"}
        BY <2>1, <3>1, <3>3, <4>1, AtNum DEF DigitsAt, Ascii, Digits
      <4> QED
        BY <1>0, <2>1, <2>2, <3>1, <3>3, <4>2, Goes DEF NumAt, DigitsAt
    <3>4. CASE text # "no" /\ tnum = "x"
      <4>1. text' \in {"hex", "HEX", "no"} /\ ~hasDot
        BY <2>1, <3>1, <3>4, AtBased DEF DigitsAt
      <4> QED
        BY <1>0, <2>1, <2>2, <3>4, <4>1, Goes DEF NumAt, DigitsAt
    <3>5. CASE text # "no" /\ tnum = "o"
      <4>1. text' \in {"oct", "no"} /\ ~hasDot
        BY <2>1, <3>1, <3>5, AtBased DEF DigitsAt
      <4> QED
        BY <1>0, <2>1, <2>2, <3>5, <4>1, Goes DEF NumAt, DigitsAt
    <3>6. CASE text # "no" /\ tnum = "b"
      <4>1. text' \in {"bin", "no"} /\ ~hasDot
        BY <2>1, <3>1, <3>6, AtBased DEF DigitsAt
      <4> QED
        BY <1>0, <2>1, <2>2, <3>6, <4>1, Goes DEF NumAt, DigitsAt
    <3> QED
      BY <3>1, <3>2, <3>3, <3>4, <3>5, <3>6 DEF DigitsAt
  <2>3. CASE pc = "frac"
    <3>1. tnum = "0" /\ hasDot /\ text' \in {"float", "no"}
      BY <1>0, <1>4, <2>1, <2>3, AtNum, AtNo DEF NumDigit, NumAt, Digits
    <3> QED
      BY <1>0, <2>1, <2>3, <3>1, Goes DEF NumAt
  <2> QED
    BY <1>4, <2>2, <2>3 DEF NumDigit
<1>5. CASE NumDot
  <2>1. pc = "digits" /\ DigitsAt /\ text' = Derive(text, rune) /\ rune = "."
    BY <1>0, <1>5 DEF NumDot, NumAt, Take
  <2>2. CASE hasDot \/ isquote
    <3>1. text' = "no"
      BY <2>1, <2>2, AtNum, AtBased, AtNo DEF DigitsAt, isquote, Ascii, Digits, LowHex, Oct, Bin
    <3> QED
      BY <1>5, <1>e, <2>2, <3>1 DEF NumDot
  <2>3. CASE ~(hasDot \/ isquote)
    <3>1. tnum = "0" /\ text' \in {"float", "no"}
      BY <2>1, <2>3, AtNum, AtNo DEF DigitsAt, isquote, Ascii, Digits
    <3> QED
      BY <1>0, <1>5, <2>3, <3>1, Goes DEF NumDot, Goto, NumAt
  <2> QED
    BY <2>2, <2>3
<1>6. CASE NumExp
  <2>1. /\ pc' = "exp" /\ text' = Derive(text, rune) /\ rune \in {"e", "E"}
        /\ UNCHANGED <<hasDot, tnum, callvars, stale>>
    BY <1>6 DEF NumExp, Read, Take, Goto, numvars
  <2>2. CASE pc = "frac"
    <3>1. tnum = "0" /\ text' \in {"exp", "no"}
      BY <1>0, <2>1, <2>2, AtNum, AtNo DEF NumAt, Ascii, Digits
    <3> QED
      BY <1>0, <2>1, <3>1, Goes DEF NumAt
  <2>3. CASE pc = "digits"
    <3>1. DigitsAt /\ ~isdigitBased(rune, tnum)
      BY <1>0, <1>6, <2>3 DEF NumExp, NumAt
    <3>2. CASE tnum = "0"
      <4>1. text' \in {"exp", "no"}
        BY <2>1, <3>1, <3>2, AtNum, AtNo DEF DigitsAt, Ascii, Digits
      <4> QED
        BY <1>0, <2>1, <3>2, <4>1, Goes DEF NumAt
    <3>3. CASE tnum = "x"
      <4>1. rune = "E"
        BY <2>1, <3>1, <3>3 DEF isdigitBased
      <4>2. text' \in {"HEX", "no"}
        BY <2>1, <3>1, <3>3, <4>1, AtBased, AtNo DEF DigitsAt, LowHex, Ascii, Digits
      <4> QED
        BY <1>0, <2>1, <3>3, <4>2, Goes DEF NumAt
    <3>4. CASE tnum \in {"o", "b"}
      <4>1. text' = "no"
        BY <2>1, <3>1, <3>4, AtBased, AtNo DEF DigitsAt, Oct, Bin
      <4> QED
        BY <1>0, <2>1, <4>1, Goes DEF NumAt
    <3> QED
      BY <3>1, <3>2, <3>3, <3>4 DEF DigitsAt
  <2> QED
    BY <1>6, <2>2, <2>3 DEF NumExp
<1>7. CASE ExpSign
  <2>1. text = "no" \/ (tnum = "0" /\ text = "exp") \/ (tnum = "x" /\ text = "HEX")
    BY <1>0, <1>7 DEF ExpSign, NumAt
  <2>2. text' = "no" \/ (tnum = "0" /\ text' = "sign")
    BY <1>7, <2>1, AtNum, AtBased, AtNo DEF ExpSign, Read, Take, LowHex, Ascii, Digits
  <2> QED
    BY <1>0, <1>7, <2>2, Goes DEF ExpSign, Read, Goto, NumAt, numvars
<1>8. CASE Exponent
  <2>1. \/ text = "no" \/ (tnum = "x" /\ text = "HEX" /\ pc = "exp")
        \/ tnum = "0" /\ pc = "exp" /\ text = "exp" /\ rune # "+"
        \/ tnum = "0" /\ pc = "sign" /\ text = "sign"
    BY <1>0, <1>8 DEF Exponent, NumAt
  <2>2. CASE isquote
    <3>1. text' \in {"no", "HEX"}
      BY <1>8, <2>1, <2>2, AtBased, AtNo DEF Exponent, Take, isquote
    <3> QED
      BY <1>8, <1>e, <2>2, <3>1 DEF Exponent
  <2>3. CASE ~isquote
    <3>1. text' \in {"no", "floatexp"} \/ (text' \in {"exp", "sign"} /\ rune' = "eof")
      BY <1>8, <2>1, <2>3, AtNum, AtNo DEF Exponent, Take, isquote
    <3> QED
      BY <1>0, <1>8, <2>3, <3>1, Goes DEF Exponent, Goto, NumAt
  <2> QED
    BY <2>2, <2>3
<1>9. CASE ExpDigit
  <2>1. text \in {"no", "floatexp"}
    BY <1>0, <1>9 DEF ExpDigit, NumAt, Digits
  <2>2. text' \in {"no", "floatexp"}
    BY <1>9, <2>1, AtNum, AtNo DEF ExpDigit, Read, Take
  <2> QED
    BY <1>0, <1>9, <2>2, Goes DEF ExpDigit, Read, Goto, NumAt
<1>10. CASE NumEnds
  <2>1. prev # "error" => ~stale
    BY <1>0 DEF Inv
  <2>2. UNCHANGED <<rune, text>> /\ \E t \in {"float", "int", "error"} :
           /\ Accept(t)
           /\ prev # "error" => t = IF text \in Floats /\ (hasDot \/ pc = "expdigits") THEN "float"
                                    ELSE IF text \in Ints /\ ~hasDot /\ pc = "digits" THEN "int"
                                    ELSE "error"
    BY <1>10, <2>1 DEF NumEnds, Look
  <2>3. text # "empty" /\ (text = "no" \/ Longest \/ NextIsCapital)
    <3>1. CASE pc \in {"frac", "expdigits"}
      BY <1>0, <1>10, <3>1, AtNum DEF NumEnds, NumAt, Longest, Ascii, Digits
    <3>2. CASE pc = "digits"
      <4>1. DigitsAt /\ ~isdigitBased(rune, tnum) /\ rune \notin {".", "e", "E"}
        BY <1>0, <1>10, <3>2 DEF NumEnds, NumAt
      <4>2. CASE tnum = "0"
        BY <4>1, <4>2, AtNum DEF DigitsAt, Longest, Ascii, isdigitBased
      <4>3. CASE tnum = "x"
        BY <4>1, <4>3, AtBased DEF DigitsAt, Longest, NextIsCapital, Ascii, LowHex, Digits,
           isdigitBased
      <4>4. CASE tnum = "o"
        BY <4>1, <4>4, AtBased DEF DigitsAt, Longest, Oct, isdigitBased
      <4>5. CASE tnum = "b"
        BY <4>1, <4>5, AtBased DEF DigitsAt, Longest, Bin, isdigitBased
      <4> QED
        BY <4>1, <4>2, <4>3, <4>4, <4>5 DEF DigitsAt
    <3> QED
      BY <1>10, <3>1, <3>2 DEF NumEnds
  <2>4. /\ text \in Floats => hasDot \/ pc = "expdigits"
        /\ text \in Ints => ~hasDot /\ pc = "digits"
        /\ text \in Whole => text \in Floats \cup Ints
    BY <1>0, <1>10 DEF NumEnds, NumAt, DigitsAt
  <2>5. PICK t \in {"float", "int", "error"} :
           /\ Accept(t)
           /\ prev # "error" => t = IF text \in Floats THEN "float"
                                    ELSE IF text \in Ints THEN "int" ELSE "error"
    BY <2>2, <2>4
  <2>6. Told'
    BY <2>2, <2>3, <2>4, <2>5 DEF Accept, Return, Told, TokensOfText, ErrorsHaveAReason,
       TakesSome, Longest, NextIsCapital, TokenOf
  <2> QED
    BY <1>r, <2>5, <2>6
<1> QED
  BY <1>1, <1>2, <1>3, <1>4, <1>5, <1>6, <1>7, <1>8, <1>9, <1>10 DEF lexNum

LEMMA InvNext == Inv /\ [Next]_vars => Inv'
<1>1. ASSUME Inv, UNCHANGED vars PROVE Inv'
  BY <1>1 DEF vars, callvars, Inv, TakenOnce, WordAt, NumAt, DigitsAt, Told, TokensOfText,
     ErrorsHaveAReason, TakesSome, TokenOf, Longest, NextIsCapital
<1> QED
  BY <1>1, Calls, LoopInv, WordInv, StrInv, NumInv DEF Next

\* Of any text and under any sequence of Lex and Peek, each token is taken once,
\* is the longest the text begins with and of its type, an error has a reason
\* in the text, and a call never returns with nothing read but at its end.
THEOREM LexerSafe == Spec => [](TokensOfText /\ ErrorsHaveAReason /\ TakenOnce /\ TakesSome)
<1>1. Inv => TokensOfText /\ ErrorsHaveAReason /\ TakenOnce /\ TakesSome
  BY DEF Inv, Told
<1> QED
  BY <1>1, InvInit, InvNext, PTL DEF Spec
=============================================================================
