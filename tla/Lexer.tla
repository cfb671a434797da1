-------------------------------- MODULE Lexer --------------------------------
(***************************************************************************)
(* The lexer of programs (lex/lex.go), under any sequence of calls of Lex    *)
(* and Peek.                                                                *)
(*                                                                          *)
(* The text is not given in advance: the next rune is found when the last    *)
(* one is taken, and it may be any.  A rune that is got and put back has     *)
(* been looked at.  Runes that nothing tells apart are one: "z" is a letter, *)
(* "a" one of a, c, d and f, "F" the same in capitals, "7" is 2 to 7, "8" is *)
(* 8 or 9, "digit" a digit that is not of ASCII, "under" is _, "*" any sign  *)
(* that is a token, "+" a sign too, "tab" a space that cannot be seen, "@"   *)
(* and "ctl" are of no token and can and cannot be seen; "arrow" is one of   *)
(* two.                                                                     *)
(*                                                                          *)
(* Of what has been accepted and is not yet of a token, text is the part     *)
(* of this call, as a state of Derive, and stale tells that there is more    *)
(* before it.  The literals fit in 64 bits.                                 *)
(***************************************************************************)
EXTENDS Integers

Spaces == {"space", "tab", "nl"}
Digits == {"0", "1", "7", "8", "digit"}
Letters == {"a", "b", "e", "o", "x", "E", "F", "z"}
Doubles == {"=", "!", ">", "<", "&", "|"}
Singles == {"*", "+"}
Runes == Spaces \cup Digits \cup Letters \cup Doubles \cup Singles \cup
         {"under", ".", "quote", "\\", "#", "arrow", "@", "ctl", "eof"}

IsGraphic(r) == r \notin {"tab", "nl", "ctl", "eof"}
IsStart(r) == r \in Letters \cup {"under"}
IsAlpha(r) == r \in Letters \cup Digits \cup {"under"}
IsStrDigit(r) == (IsGraphic(r) /\ r # "quote") \/ r = "nl"

isdigitBased(r, tnum) ==
    CASE tnum = "0" -> r \in Digits
      [] tnum = "x" -> r \in Digits \cup {"a", "b", "e"}
      [] tnum = "o" -> r \in {"0", "1", "7"}
      [] tnum = "b" -> r \in {"0", "1"}

VARIABLES rune,     \* the next rune of the text
          pc,       \* where Lex is; "out" when it has returned
          text, stale,
          hasDot, tnum,  \* of lexNum
          call,     \* "Lex" or "Peek": what is being called
          tokSaved, \* the token that Peek has read, or "none"
          out,      \* the token returned, or "error"
          prev,     \* ghost: what was returned for the text before
          spelled,  \* ghost: the name in the text is a keyword
          ahead     \* ghost: tokens read from the text and not taken by Lex

vars == <<rune, pc, text, stale, hasDot, tnum, call, tokSaved, out, prev, spelled, ahead>>
-----------------------------------------------------------------------------
(* The tokens of the language, as the manual and strconv have them: what a   *)
(* text becomes with one rune more, "no" if no token starts so.              *)

Pairs == {<<"=", "=">>, <<"!", "=">>, <<">", "=">>, <<"<", "=">>,
          <<"=", ">">>, <<"!", ">">>, <<"&", "&">>, <<"|", "|">>}

Ascii == Digits \ {"digit"}
LowHex == Ascii \cup {"a", "b", "e"}
Oct == {"0", "1", "7"}
Bin == {"0", "1"}

DeriveNum(s, r) ==
    CASE s = "empty" /\ r = "0"                           -> "0"
      [] s = "empty" /\ r \in Ascii \ {"0"}               -> "dec"
      [] s \in {"0", "dec"} /\ r \in Ascii                -> "dec"
      [] s = "empty" /\ r = "."                           -> "."
      [] s \in {"0", "dec"} /\ r = "."                    -> "float"
      [] s \in {".", "float"} /\ r \in Ascii              -> "float"
      [] s \in {"0", "dec", "float"} /\ r \in {"e", "E"}  -> "exp"
      [] s = "exp" /\ r = "+"                             -> "sign"
      [] s \in {"exp", "sign", "floatexp"} /\ r \in Ascii -> "floatexp"
      [] s = "0" /\ r = "x"                               -> "0x"
      [] s = "0" /\ r = "o"                               -> "0o"
      [] s = "0" /\ r = "b"                               -> "0b"
      [] s = "0x" /\ r = "under"                          -> "0x_"
      [] s = "0o" /\ r = "under"                          -> "0o_"
      [] s = "0b" /\ r = "under"                          -> "0b_"
      [] s \in {"0x", "0x_", "hex"} /\ r \in LowHex       -> "hex"
      [] s \in {"0x", "0x_", "hex"} /\ r \in {"E", "F"}   -> "HEX"
      [] s = "HEX" /\ r \in LowHex \cup {"E", "F"}        -> "HEX"
      [] s \in {"0o", "0o_", "oct"} /\ r \in Oct          -> "oct"
      [] s \in {"0b", "0b_", "bin"} /\ r \in Bin          -> "bin"
      [] OTHER                                            -> "no"

DeriveStr(s, r) ==
    CASE s = "empty" /\ r = "quote"                          -> "str"
      [] s \in {"str", "str\\"} /\ r = "quote"               -> IF s = "str" THEN "string"
                                                                ELSE "string\\"
      [] s \in {"str", "str\\"} /\ r = "\\"                  -> "esc"
      [] s \in {"str", "str\\"} /\ IsStrDigit(r) /\ r # "\\" -> s
      [] s = "esc" /\ IsGraphic(r)                           -> "str\\"
      [] OTHER                                               -> "no"

Derive(s, r) ==
    CASE s = "empty" /\ r \in Spaces               -> "empty"
      [] s = "empty" /\ r = "#"                    -> "#"
      [] s = "#" /\ r # "eof"                      -> IF r = "nl" THEN "empty" ELSE "#"
      [] s \in {"empty", "id"} /\ IsAlpha(r) /\ (s = "empty" => IsStart(r)) -> "id"
      [] s = "empty" /\ r \in Singles \cup Doubles -> r
      [] <<s, r>> \in Pairs                        -> "pair"
      [] s = "empty" /\ r = "arrow"                -> "pair"
      [] OTHER -> IF DeriveStr(s, r) # "no" THEN DeriveStr(s, r) ELSE DeriveNum(s, r)

Ints == {"0", "dec", "hex", "HEX", "oct", "bin"}
Floats == {"float", "floatexp"}
Whole == {"id", "pair", "string", "string\\"} \cup Singles \cup Doubles \cup Ints \cup Floats

TokenOf(s) == CASE s = "id"                   -> IF spelled THEN "keyword" ELSE "id"
                [] s \in {"string", "string\\"} -> "str"
                [] s \in Ints                 -> "int"
                [] s \in Floats               -> "float"
                [] OTHER                      -> s
-----------------------------------------------------------------------------
(* Steps.                                                                   *)

Init ==
    /\ rune \in Runes /\ pc = "out"
    /\ text = "empty" /\ stale = FALSE
    /\ hasDot = FALSE /\ tnum = "0"
    /\ call = "Lex" /\ tokSaved = "none" /\ out = "none"
    /\ prev = "none" /\ spelled = FALSE /\ ahead = 0

numvars == <<hasDot, tnum>>
callvars == <<call, tokSaved, out, prev, spelled, ahead>>

\* get: at the end of the text there is no more to take.
Take == IF rune = "eof" THEN UNCHANGED <<rune, text>>
        ELSE rune' \in Runes /\ text' = Derive(text, rune)
Look == UNCHANGED <<rune, text>>

Goto(label) == pc' = label /\ UNCHANGED <<callvars, stale>>
Read(label) == Take /\ Goto(label)

\* What Lex returns goes to the caller, and Peek keeps it too.
Return(t) ==
    /\ pc' = "out" /\ out' = t
    /\ tokSaved' = IF call = "Peek" /\ t # "error" THEN t ELSE "none"
    /\ ahead' = ahead + (IF call = "Peek" /\ t # "error" THEN 1 ELSE 0)
    /\ UNCHANGED <<call, prev>>

Accept(t) == Return(t) /\ stale' = FALSE

\* Return without accept: what has been got is left before the next token.
Fail == Return("error") /\ stale' = TRUE /\ UNCHANGED spelled
-----------------------------------------------------------------------------
(* Calls.                                                                   *)

KeepSaved ==   \* mutant: the saved token stays
    /\ pc = "out" /\ tokSaved # "none"
    /\ call' \in {"Lex", "Peek"} /\ out' = tokSaved
    /\ ahead' = ahead - (IF call' = "Lex" THEN 1 ELSE 0)
    /\ UNCHANGED <<rune, pc, text, stale, numvars, tokSaved, prev, spelled>>

takeSaved ==
    /\ pc = "out" /\ tokSaved # "none"
    /\ call' \in {"Lex", "Peek"} /\ out' = tokSaved
    /\ tokSaved' = IF call' = "Lex" THEN "none" ELSE tokSaved
    /\ ahead' = ahead - (IF call' = "Lex" THEN 1 ELSE 0)
    /\ UNCHANGED <<rune, pc, text, stale, numvars, prev, spelled>>

Call ==
    /\ pc = "out" /\ tokSaved = "none"
    /\ call' \in {"Lex", "Peek"} /\ prev' = out
    /\ pc' = "loop" /\ text' = "empty" /\ out' = "none"
    /\ hasDot' = FALSE /\ tnum' = "0"
    /\ UNCHANGED <<rune, stale, tokSaved, spelled, ahead>>
-----------------------------------------------------------------------------
(* The loop of Lex.                                                         *)

SpaceKept ==   \* mutant: it is not accepted, and stays before the next token
    /\ pc = "loop" /\ rune \in Spaces
    /\ Take /\ stale' = TRUE
    /\ UNCHANGED <<pc, callvars, numvars>>

Space ==
    /\ pc = "loop" /\ rune \in Spaces
    /\ Take /\ stale' = FALSE
    /\ UNCHANGED <<pc, callvars, numvars>>

Comment == pc = "loop" /\ rune = "#" /\ Read("comment") /\ UNCHANGED numvars

eatComment ==
    /\ pc = "comment"
    /\ pc' = IF rune \in {"nl", "eof"} THEN "loop" ELSE "comment"
    /\ stale' = IF rune = "eof" THEN stale ELSE FALSE
    /\ Take /\ UNCHANGED <<callvars, numvars>>

Single ==
    /\ pc = "loop" /\ rune \in Singles \cup {"arrow", "eof"}
    /\ Take /\ Accept(IF rune = "arrow" THEN "pair" ELSE rune)
    /\ UNCHANGED <<spelled, numvars>>

Double == pc = "loop" /\ rune \in Doubles /\ Read("double") /\ UNCHANGED numvars

DoubleAlone ==   \* mutant: a sign is a token as soon as it is read
    /\ pc = "double"
    /\ Look /\ Accept(text)
    /\ UNCHANGED <<spelled, numvars>>

mayLexDouble ==
    /\ pc = "double"
    /\ IF ~stale /\ <<text, rune>> \in Pairs THEN Take /\ Accept("pair")
       ELSE Look /\ Accept(text)
    /\ UNCHANGED <<spelled, numvars>>

String == pc = "loop" /\ rune = "quote" /\ Read("string") /\ UNCHANGED numvars

Number ==
    /\ pc = "loop" /\ rune \in Digits \cup {"."}
    /\ Read(CASE rune = "." -> "dot" [] rune = "0" -> "zero" [] OTHER -> "digits")
    /\ hasDot' = (rune = ".") /\ UNCHANGED tnum

Id == pc = "loop" /\ IsStart(rune) /\ Read("id") /\ UNCHANGED numvars

BadRuneStays ==   \* mutant: it is put back
    /\ pc = "loop" /\ rune \in {"\\", "@", "ctl"}
    /\ Look /\ Return("error")
    /\ UNCHANGED <<stale, spelled, numvars>>

BadRune ==
    /\ pc = "loop" /\ rune \in {"\\", "@", "ctl"}
    /\ Take /\ Fail
    /\ UNCHANGED numvars

Loop == Space \/ Comment \/ Single \/ Double \/ String \/ Number \/ Id \/ BadRune
-----------------------------------------------------------------------------
(* lexId and keywordLookup.                                                 *)

IdRune == pc = "id" /\ IsAlpha(rune) /\ Read("id") /\ UNCHANGED numvars

IdEnds ==
    /\ pc = "id" /\ ~IsAlpha(rune)
    /\ spelled' \in BOOLEAN
    /\ Look /\ Accept(IF spelled' /\ ~stale THEN "keyword" ELSE "id")
    /\ UNCHANGED numvars

lexId == IdRune \/ IdEnds
-----------------------------------------------------------------------------
(* lexString.                                                               *)

StrRune ==
    /\ pc = "string" /\ IsStrDigit(rune)
    /\ Read(IF rune = "\\" THEN "escape" ELSE "string")
    /\ UNCHANGED numvars

Escape ==
    /\ pc = "escape"
    /\ Take
    /\ IF rune = "quote" \/ IsStrDigit(rune) THEN Goto("string") ELSE Fail
    /\ UNCHANGED numvars

\* It is unquoted, with what there was before it, which may end in an escape.
StrEnds ==
    /\ pc = "string" /\ rune = "quote"
    /\ Take
    /\ \/ Accept("str") /\ text' # "no"
       \/ Accept("error") /\ (text' = "string" => stale)
    /\ UNCHANGED <<spelled, numvars>>

StrFails ==
    /\ pc = "string" /\ rune # "quote" /\ ~IsStrDigit(rune)
    /\ Look /\ Fail
    /\ UNCHANGED numvars

lexString == StrRune \/ Escape \/ StrEnds \/ StrFails
-----------------------------------------------------------------------------
(* lexNum.                                                                  *)

isquote == tnum # "0"

Dot == pc = "dot" /\ Read("digits") /\ UNCHANGED numvars

Zero ==
    /\ pc = "zero"
    /\ IF rune \in {"x", "b", "o"} THEN Read("based") /\ tnum' = rune
       ELSE Look /\ Goto("digits") /\ UNCHANGED tnum
    /\ UNCHANGED hasDot

\* What comes first is not looked at.
Based == pc = "based" /\ Read("digits") /\ UNCHANGED numvars

NumDigit ==
    /\ \/ pc = "digits" /\ isdigitBased(rune, tnum)
       \/ pc = "frac" /\ rune \in Digits
    /\ Read(pc) /\ UNCHANGED numvars

NumDot ==
    /\ pc = "digits" /\ rune = "."
    /\ Take
    /\ IF hasDot \/ isquote THEN Accept("error") /\ UNCHANGED <<spelled, hasDot>>
       ELSE hasDot' = TRUE /\ Goto("frac")
    /\ UNCHANGED tnum

NumExp ==
    /\ \/ pc = "digits" /\ ~isdigitBased(rune, tnum)
       \/ pc = "frac"
    /\ rune \in {"e", "E"}
    /\ Read("exp") /\ UNCHANGED numvars

\* Nothing of the exponent is looked at but its sign.
Exponent ==
    /\ \/ pc = "exp" /\ rune # "+"
       \/ pc = "sign"
    /\ Take
    /\ IF isquote THEN Accept("error") /\ UNCHANGED spelled ELSE Goto("expdigits")
    /\ UNCHANGED numvars

ExpSign == pc = "exp" /\ rune = "+" /\ Read("sign") /\ UNCHANGED numvars
ExpDigit == pc = "expdigits" /\ rune \in Digits /\ Read("expdigits") /\ UNCHANGED numvars

\* ParseInt or ParseFloat, of all that is there.
NumEnds ==
    /\ \/ pc = "digits" /\ ~isdigitBased(rune, tnum) /\ rune \notin {".", "e", "E"}
       \/ pc = "frac" /\ rune \notin Digits \cup {"e", "E"}
       \/ pc = "expdigits" /\ rune \notin Digits
    /\ Look
    /\ Accept(CASE ~stale /\ text \in Floats /\ (hasDot \/ pc = "expdigits") -> "float"
                [] ~stale /\ text \in Ints /\ ~hasDot /\ pc = "digits"       -> "int"
                [] OTHER                                                     -> "error")
    /\ UNCHANGED <<spelled, numvars>>

lexNum == \/ Dot \/ Zero \/ Based \/ NumDigit \/ NumDot
          \/ NumExp \/ ExpSign \/ Exponent \/ ExpDigit \/ NumEnds
-----------------------------------------------------------------------------
Next == takeSaved \/ Call \/ Loop \/ eatComment \/ mayLexDouble \/ lexId \/ lexString \/ lexNum

Spec == Init /\ [][Next]_vars
-----------------------------------------------------------------------------
(* Properties.                                                              *)

Longest == Derive(text, rune) = "no"
NextIsCapital == text \in {"0x_", "hex", "HEX"} /\ rune = "F"

\* A token is the longest that the text begins with, and of its type, a keyword
\* if it is spelled as one; but right after an error, and for hexadecimal
\* digits in capitals, of which only the first is taken.
TokensOfText ==
    pc = "out" /\ out \notin {"none", "error", "eof"} /\ prev # "error" =>
        /\ text \in Whole /\ out = TokenOf(text)
        /\ Longest \/ NextIsCapital

\* There is an error only where no token can be, or right after another; but
\* for capitals among hexadecimal digits and for an escape that is wrong.
ErrorsHaveAReason ==
    pc = "out" /\ out = "error" /\ prev # "error" =>
        \/ text \notin Whole /\ (text = "no" \/ Longest \/ NextIsCapital)
        \/ text \in {"HEX", "string\\"}

\* However Peek and Lex alternate, each token of the text is taken once.
TakenOnce == ahead = IF tokSaved = "none" THEN 0 ELSE 1

\* A call that reads takes something, so that the parser goes on after an error
\* (lex.go:612), and the end of the text is told only there.
TakesSome ==
    pc = "out" /\ out # "none" =>
        IF out = "eof" THEN rune = "eof" /\ text \in {"empty", "#"} ELSE text # "empty"
=============================================================================
