------------------------------ MODULE Scanner ------------------------------
(***************************************************************************)
(* The m8rscript lexical scanner, src/m8rscript/Scanner.cpp.               *)
(*                                                                         *)
(* The scanner reads bytes from a stream through get(), which hands back   *)
(* the one pushed-back character (_lastChar) before reading the stream and *)
(* counts every newline it reads from the stream in _lineno.  getToken()   *)
(* skips whitespace and comments and dispatches on the first character to  *)
(* scanComment, scanString, or, after pushing that character back, to      *)
(* scanNumber, scanSpecial and scanIdentifier in that order.               *)
(*                                                                         *)
(* One call of getToken is one action.  The scan helpers are pure          *)
(* operators over a cursor record                                          *)
(*    [pos: bytes read from the stream, last: _lastChar, line: _lineno,    *)
(*     os: the bytes of _ostring, clob: a putback                          *)
(*     ever found the pushback slot full]                                  *)
(* and return [tok |-> token, s |-> cursor].  Characters are one-letter    *)
(* strings; the byte value C_EOF is the value EOF, which is also the token *)
(* C_EOF, as in the code where both are the uint8_t 255.  Definitions     *)
(* whose names end in Mut are single-fault variants of the definition that *)
(* follows them, used to show that the properties detect such faults.      *)
(***************************************************************************)
EXTENDS Naturals, Sequences, SequencesExt, FiniteSetsExt

CONSTANTS
    Alphabet,   \* the bytes an input may contain (one-letter strings)
    MaxLen,     \* the longest input stream checked
    MaxTokens   \* bound on getToken calls (a stalled scanner repeats tokens)

ASSUME MaxLen \in Nat /\ MaxTokens \in Nat /\ MaxTokens > MaxLen

EOF == "C_EOF"      \* C_EOF: end of stream, and the end-of-input token
NUL == "NUL"        \* the '\0' that terminates a token text in _ostring

VARIABLES
    input,      \* the bytes of the stream (_istream)
    cur,        \* the scanner's cursor record (see above)
    tokens,     \* every token getToken returned, with its span and line
    done        \* getToken has returned C_EOF

vars == <<input, cur, tokens, done>>

-----------------------------------------------------------------------------
(* Character classes, Scanner.cpp lines 49-77.                             *)
Digits == {"0","1","2","3","4","5","6","7","8","9"}
HexLetters == {"A","B","C","D","E","F","a","b","c","d","e","f"}
Letters == {"a","b","c","d","e","f","g","h","i","j","k","l","m",
            "n","o","p","q","r","s","t","u","v","w","x","y","z",
            "A","B","C","D","E","F","G","H","I","J","K","L","M",
            "N","O","P","Q","R","S","T","U","V","W","X","Y","Z"}
IsDigit(c) == c \in Digits
IsHex(c) == c \in HexLetters
IsIdFirst(c) == c \in Letters \cup {"$", "_"}
IsIdOther(c) == IsDigit(c) \/ IsIdFirst(c)
IsWhitespace(c) == c \in {" ", "\n", "\r", "\f", "\t"}   \* and '\v'
SpecialSingleChar == {"(", ")", ",", ".", ":", ";", "?", "[", "]", "{", "}", "~"}
SpecialFirstChar == {"!", "%", "&", "*", "+", "-", "/", "<", "=", ">", "^", "|"}

(* The keyword table, in the code's order.                                 *)
Keywords == <<
    [w |-> <<"b","r","e","a","k">>,          t |-> "K_BREAK"],
    [w |-> <<"c","a","s","e">>,              t |-> "K_CASE"],
    [w |-> <<"c","o","n","t","i","n","u","e">>, t |-> "K_CONTINUE"],
    [w |-> <<"d","e","f","a","u","l","t">>,  t |-> "K_DEFAULT"],
    [w |-> <<"d","e","l","e","t","e">>,      t |-> "K_DELETE"],
    [w |-> <<"d","o">>,                      t |-> "K_DO"],
    [w |-> <<"e","l","s","e">>,              t |-> "K_ELSE"],
    [w |-> <<"f","o","r">>,                  t |-> "K_FOR"],
    [w |-> <<"f","u","n","c","t","i","o","n">>, t |-> "K_FUNCTION"],
    [w |-> <<"i","f">>,                      t |-> "K_IF"],
    [w |-> <<"n","e","w">>,                  t |-> "K_NEW"],
    [w |-> <<"r","e","t","u","r","n">>,      t |-> "K_RETURN"],
    [w |-> <<"s","w","i","t","c","h">>,      t |-> "K_SWITCH"],
    [w |-> <<"v","a","r">>,                  t |-> "K_VAR"],
    [w |-> <<"w","h","i","l","e">>,          t |-> "K_WHILE"] >>

-----------------------------------------------------------------------------
(* get(): the pushed-back character first, else the next stream byte, or  *)
(* C_EOF when none is available; a newline read from the stream bumps     *)
(* _lineno.                                                                *)
Get(s) ==
    IF s.last # EOF
    THEN [c |-> s.last, s |-> [s EXCEPT !.last = EOF]]
    ELSE IF s.pos >= Len(input)
         THEN [c |-> EOF, s |-> s]
         ELSE LET c == input[s.pos + 1]
              IN  [c |-> c, s |-> [s EXCEPT !.pos = @ + 1,
                                            !.line = IF c = "\n" THEN @ + 1 ELSE @]]

(* putback(c): the single pushback slot _lastChar.                         *)
Putback(s, c) == [s EXCEPT !.last = c, !.clob = @ \/ s.last # EOF]

(* _ostring += c                                                           *)
Emit(s, c) == [s EXCEPT !.os = Append(@, c)]

Ret(t, s) == [tok |-> t, s |-> s]

(* The one element of a singleton set.  A step of a scan routine binds the *)
(* result of a call, a value, as {e(x) : x \in {call}}: each call is then  *)
(* evaluated once however often its result is used.                        *)
The(S) == CHOOSE v \in S : TRUE

(* Bytes consumed: read from the stream and not sitting in _lastChar.     *)
Consumed(s) == s.pos - (IF s.last # EOF THEN 1 ELSE 0)

(* strncmp(word, text, len) == 0: the first len bytes agree, where a word  *)
(* shorter than len ends in its '\0'.                                      *)
CharAt(w, j) == IF j <= Len(w) THEN w[j] ELSE NUL
ScanKeyword(text) ==
    LET hits == {i \in 1..Len(Keywords) :
                    \A j \in 1..Len(text) : CharAt(Keywords[i].w, j) = text[j]}
    IN  IF hits = {} THEN "K_UNKNOWN" ELSE Keywords[Min(hits)].t

RECURSIVE StringLoop(_, _)
StringLoop(s, terminal) ==
    The({IF g.c = EOF THEN g.s
         ELSE IF g.c = terminal THEN Emit(g.s, NUL)
         ELSE StringLoop(Emit(g.s, g.c), terminal) : g \in {Get(s)}})

ScanString(s, terminal) == Ret("T_STRING", StringLoop(s, terminal))

(* The second-character table of scanSpecial's switch: for each case label *)
(* the (character, token) tests made in that case.                         *)
SpecialCases == [
    x \in SpecialFirstChar |->
      CASE x = "!" -> <<<<"=", "O_NE">>>>
        [] x = "%" -> <<<<"=", "O_MODEQ">>>>
        [] x = "&" -> <<<<"&", "O_LAND">>, <<"=", "O_ANDEQ">>>>
        [] x = "*" -> <<<<"=", "O_MULEQ">>>>
        [] x = "+" -> <<<<"=", "O_ADDEQ">>, <<"+", "O_INC">>>>
        [] x = "-" -> <<<<"=", "O_SUBEQ">>, <<"-", "O_DEC">>>>
        [] x = "/" -> <<<<"=", "O_DIVEQ">>>>
        [] x = "=" -> <<<<"=", "O_EQ">>>>
        [] x = "^" -> <<<<"=", "O_XOREQ">>>>
        [] x = "|" -> <<<<"=", "O_OREQ">>, <<"|", "O_LOR">>>>
        [] OTHER   -> <<>> ]

(* switch(sel) { case ...: if (c2 == x) return t; ... }, or "none".        *)
SpecialSwitch(sel, c2) ==
    LET ps   == IF sel \in DOMAIN SpecialCases THEN SpecialCases[sel] ELSE <<>>
        hits == {i \in DOMAIN ps : ps[i][1] = c2}
    IN  IF hits = {} THEN "none" ELSE ps[Min(hits)][2]

(* The '<' and '>' ladders of scanSpecial.  A step maps each character    *)
(* that extends the operator read so far to the longer operator and the    *)
(* step after it; any other character is pushed back and the operator read *)
(* so far is returned.  Reading C_EOF anywhere returns C_EOF.              *)
Op(t, more) == [t |-> t, more |-> more]
NoMore == <<>>

RECURSIVE Ladder(_, _, _)
Ladder(s, step, sofar) ==
    The({IF g.c = EOF THEN Ret(EOF, g.s)
         ELSE IF g.c \notin DOMAIN step THEN Ret(sofar, Putback(g.s, g.c))
         ELSE IF step[g.c].more = NoMore THEN Ret(step[g.c].t, g.s)
         ELSE Ladder(g.s, step[g.c].more, step[g.c].t) : g \in {Get(s)}})

LtStep == [c \in {"<", "="} |->
             IF c = "=" THEN Op("O_LE", NoMore)
             ELSE Op("O_LSHIFT", [d \in {"="} |-> Op("O_LSHIFTEQ", NoMore)])]
GtStep == [c \in {">", "="} |->
             IF c = "=" THEN Op("O_GE", NoMore)
             ELSE Op("O_RSHIFT",
                     [d \in {"=", ">"} |->
                        IF d = "=" THEN Op("O_RSHIFTEQ", NoMore)
                        ELSE Op("O_RSHIFTFILL",
                                [e \in {"="} |-> Op("O_RSHIFTFILLEQ", NoMore)])])]

(* Mut: the "putback(c2); return c1;" after the switch dropped: a second *)
(* character no case accepts yields no token at all.                       *)
SpecialTailMut(c1, g2) ==
    IF g2.c = EOF THEN Ret(EOF, g2.s) ELSE Ret(SpecialSwitch(g2.c, g2.c), g2.s)

(* The part of scanSpecial after c1 is known to start a two-character     *)
(* operator: the switch on (c2, c2), else c1 with c2 pushed back.          *)
SpecialTail(c1, g2) ==
    The({IF g2.c = EOF THEN Ret(EOF, g2.s)
         ELSE IF t # "none" THEN Ret(t, g2.s)
         ELSE Ret(c1, Putback(g2.s, g2.c)) : t \in {SpecialSwitch(g2.c, g2.c)}})

ScanSpecial(s) ==
    The({IF g1.c = EOF THEN Ret(EOF, g1.s)
         ELSE IF g1.c = "<" THEN Ladder(g1.s, LtStep, g1.c)
         ELSE IF g1.c = ">" THEN Ladder(g1.s, GtStep, g1.c)
         ELSE IF g1.c \in SpecialSingleChar THEN Ret(g1.c, g1.s)
         ELSE IF g1.c \notin SpecialFirstChar THEN Ret(EOF, Putback(g1.s, g1.c))
         ELSE SpecialTail(g1.c, Get(g1.s)) : g1 \in {Get(s)}})

(* scanIdentifier: the longest run of identifier characters, looked up in *)
(* the keyword table.                                                      *)
RECURSIVE IdLoop(_, _)
IdLoop(s, first) ==
    The({IF g.c = EOF THEN g.s
         ELSE IF ~((first /\ IsIdFirst(g.c)) \/ (~first /\ IsIdOther(g.c)))
              THEN Putback(g.s, g.c)
         ELSE IdLoop(Emit(g.s, g.c), FALSE) : g \in {Get(s)}})

ScanIdentifier(s) ==
    The({LET word == SubSeq(e.os, Len(s.os) + 1, Len(e.os))
             kw   == ScanKeyword(word)
         IN  IF word = <<>> THEN Ret(EOF, e)
             ELSE Ret(IF kw = "K_UNKNOWN" THEN "T_IDENTIFIER" ELSE kw, Emit(e, NUL))
         : e \in {IdLoop(s, TRUE)}})

(* The digit loop of scanNumber.                                           *)
RECURSIVE NumLoop(_, _)
NumLoop(s, hex) ==
    The({IF g.c = EOF THEN g.s
         ELSE IF ~(IsDigit(g.c) \/ (hex /\ IsHex(g.c))) THEN Putback(Emit(g.s, NUL), g.c)
         ELSE NumLoop(Emit(g.s, g.c), hex) : g \in {Get(s)}})

(* scanNumber after "0x": a digit must follow, and is read and dropped.    *)
HexStart(g3) ==
    IF ~IsDigit(g3.c)
    THEN Ret("K_UNKNOWN", Putback(Emit(g3.s, NUL), g3.c))
    ELSE Ret("T_INTEGER", NumLoop(g3.s, TRUE))

(* Mut: a '0' not followed by 'x' pushed back along with the character    *)
(* after it, to rescan the literal from its start.                         *)
NumberBodyMut(s1, d) ==
    IF d # "0" THEN Ret("T_INTEGER", NumLoop(Putback(s1, d), FALSE))
    ELSE The({IF g2.c \notin {"x", "X"}
              THEN Ret("T_INTEGER", NumLoop(Putback(Putback(g2.s, g2.c), d), FALSE))
              ELSE HexStart(Get(Emit(g2.s, "x"))) : g2 \in {Get(s1)}})

(* scanNumber after its first digit d: the test c == '0' && (c = get()) == *)
(* 'x' reads a second character only when d is '0'; either way the else   *)
(* branch pushes back c, which is d itself when d is not '0'.              *)
NumberBody(s1, d) ==
    IF d # "0" THEN Ret("T_INTEGER", NumLoop(Putback(s1, d), FALSE))
    ELSE The({IF g2.c \notin {"x", "X"}
              THEN Ret("T_INTEGER", NumLoop(Putback(g2.s, g2.c), FALSE))
              ELSE HexStart(Get(Emit(g2.s, "x"))) : g2 \in {Get(s1)}})

ScanNumber(s) ==
    The({IF ~IsDigit(g1.c) THEN Ret(EOF, Putback(g1.s, g1.c))
         ELSE NumberBody(Emit(g1.s, g1.c), g1.c) : g1 \in {Get(s)}})

(* scanComment, entered after a '/': a block or a line comment, else the   *)
(* token '/' (the character read after it is not pushed back).             *)
RECURSIVE BlockLoop(_)
BlockLoop(s) ==
    The({IF g.c = EOF THEN Ret(EOF, g.s)
         ELSE IF g.c # "*" THEN BlockLoop(g.s)
         ELSE The({IF g2.c = "/" THEN Ret("K_COMMENT", g2.s)
                   ELSE BlockLoop(Putback(g2.s, g2.c)) : g2 \in {Get(g.s)}})
         : g \in {Get(s)}})

RECURSIVE LineLoop(_)
LineLoop(s) ==
    The({IF g.c = EOF THEN Ret(EOF, g.s)
         ELSE IF g.c = "\n" THEN Ret("K_COMMENT", g.s)
         ELSE LineLoop(g.s) : g \in {Get(s)}})

ScanComment(s) ==
    The({IF g.c = "*" THEN BlockLoop(g.s)
         ELSE IF g.c = "/" THEN LineLoop(g.s)
         ELSE Ret("/", g.s) : g \in {Get(s)}})

(* The default branch of getToken: the first character is pushed back and *)
(* scanNumber, scanSpecial and scanIdentifier are tried in turn, each only *)
(* if the one before returned C_EOF.                                       *)
ScanOther(s) ==
    The({IF n.tok # EOF THEN n
         ELSE The({IF sp.tok # EOF THEN sp
                   ELSE The({IF id.tok # EOF THEN id ELSE Ret("K_UNKNOWN", id.s)
                             : id \in {ScanIdentifier(sp.s)}})
                   : sp \in {ScanSpecial(n.s)}})
         : n \in {ScanNumber(s)}})

(* One pass of getToken's loop on the character c read at cursor s: a     *)
(* comment yields C_EOF so that the loop goes on.                          *)
Dispatch(c, s) ==
    CASE c = "/" -> The({IF x.tok = "K_COMMENT" THEN Ret(EOF, x.s) ELSE x
                         : x \in {ScanComment(s)}})
      [] c \in {"\"", "'"} -> ScanString(s, c)
      [] OTHER -> ScanOther(Putback(s, c))

(* The loop of getToken: skip whitespace and comments; the result carries  *)
(* the stream index of the character the token started at.                *)
RECURSIVE TokenLoop(_)
TokenLoop(s) ==
    The({IF g.c = EOF THEN [tok |-> EOF, s |-> g.s, start |-> g.s.pos]
         ELSE IF IsWhitespace(g.c) THEN TokenLoop(g.s)
         ELSE The({IF r.tok = EOF THEN TokenLoop(r.s)
                   ELSE [tok |-> r.tok, s |-> r.s, start |-> g.s.pos]
                   : r \in {Dispatch(g.c, g.s)}})
         : g \in {Get(s)}})

-----------------------------------------------------------------------------
(* A new Scanner over a stream: nothing read, no character pushed back,    *)
(* line 1.                                                                 *)
Init ==
    /\ input \in BoundedSeq(Alphabet, MaxLen)
    /\ cur = [pos |-> 0, last |-> EOF, line |-> 1, os |-> <<>>, clob |-> FALSE]
    /\ tokens = <<>>
    /\ done = FALSE

(* One call of getToken.  _lastTokenValue marks where this token's text   *)
(* starts in _ostring, which is never cleared.  A token's span is the stream bytes from its      *)
(* first character to the last byte consumed and not pushed back; its line *)
(* is _lineno when getToken returns.                                       *)
GetToken ==
    /\ ~done
    /\ Len(tokens) < MaxTokens
    /\ \E r \in {TokenLoop(cur)} :
       LET lastTokenValue == Len(cur.os)
           stop == Consumed(r.s)
       IN  /\ cur' = r.s
           /\ IF r.tok = EOF
              THEN done' = TRUE /\ UNCHANGED tokens
              ELSE /\ tokens' = Append(tokens,
                        [tok |-> r.tok, start |-> r.start, stop |-> stop,
                         line |-> r.s.line,
                         text |-> SelectSeq(SubSeq(r.s.os, lastTokenValue + 1, Len(r.s.os)),
                                          LAMBDA c : c # NUL)])
                   /\ UNCHANGED done
    /\ UNCHANGED input

Next == GetToken

Spec == Init /\ [][Next]_vars /\ WF_vars(GetToken)

-----------------------------------------------------------------------------
(* Properties                                                              *)

Cursor == [pos: Nat, last: Alphabet \cup {EOF}, line: Nat,
           os: Seq(Alphabet \cup {"x", NUL}), clob: BOOLEAN]
(* The spelling of each multi-character operator token (spec 4.2).         *)
Spelling == [
    O_LSHIFTEQ |-> <<"<","<","=">>, O_LSHIFT |-> <<"<","<">>, O_LE |-> <<"<","=">>,
    O_RSHIFTFILLEQ |-> <<">",">",">","=">>, O_RSHIFTFILL |-> <<">",">",">">>,
    O_RSHIFTEQ |-> <<">",">","=">>, O_RSHIFT |-> <<">",">">>, O_GE |-> <<">","=">>,
    O_NE |-> <<"!","=">>, O_MODEQ |-> <<"%","=">>, O_LAND |-> <<"&","&">>,
    O_ANDEQ |-> <<"&","=">>, O_MULEQ |-> <<"*","=">>, O_ADDEQ |-> <<"+","=">>,
    O_INC |-> <<"+","+">>, O_SUBEQ |-> <<"-","=">>, O_DEC |-> <<"-","-">>,
    O_DIVEQ |-> <<"/","=">>, O_EQ |-> <<"=","=">>, O_XOREQ |-> <<"^","=">>,
    O_OREQ |-> <<"|","=">>, O_LOR |-> <<"|","|">>]

(* The values getToken can return besides C_EOF.                         *)
TokenKinds ==
    {Keywords[i].t : i \in 1..Len(Keywords)} \cup DOMAIN Spelling
    \cup SpecialSingleChar \cup SpecialFirstChar
    \cup {"T_IDENTIFIER", "T_INTEGER", "T_STRING", "K_UNKNOWN"}
Token == [tok: TokenKinds, start: Nat, stop: Int, line: Nat, text: Seq(Alphabet \cup {"x"})]

TypeOK ==
    /\ input \in Seq(Alphabet)
    /\ cur \in Cursor
    /\ tokens \in Seq(Token)
    /\ done \in BOOLEAN

NewlinesIn(lo, hi) == Cardinality({i \in lo..hi : input[i] = "\n"})

(* One character of pushback is sufficient (spec 4.2): no scan routine     *)
(* ever calls putback() while _lastChar still holds a character, which     *)
(* would silently drop that character.  This depends on every path through *)
(* getToken, scanNumber, scanSpecial and scanIdentifier reading a          *)
(* character between two putbacks.                                         *)
PushbackSingleSlot == ~cur.clob

(* getToken returns C_EOF only when the whole stream has been consumed:   *)
(* a byte the scanner does not expect is a token (spec 4.2: "on unexpected *)
(* byte, the scanner emits an Unknown token"), never taken for the end, so *)
(* a script is not cut short.  get() returns uint8_t and C_EOF is 255, so  *)
(* a 0xFF byte is what would break it.                                     *)
ReadsWholeInput == done => Consumed(cur) = Len(input)

(* The line the scanner reports for a token (its _lineno when getToken     *)
(* returns) is 1 + the newlines before the token's first byte (spec 8.1).  *)
LineNumberAtTokenStart ==
    \A i \in 1..Len(tokens) :
        tokens[i].line = 1 + NewlinesIn(1, tokens[i].start - 1)

KeywordTokens == {Keywords[i].t : i \in 1..Len(Keywords)}
KeywordWord(t) == Keywords[CHOOSE i \in 1..Len(Keywords) : Keywords[i].t = t].w
Span(t) == SubSeq(input, t.start, t.stop)

(* Every token is what its source bytes spell, by maximal munch (spec      *)
(* 4.2): an identifier is not a keyword and its text is its bytes, a       *)
(* keyword is spelled exactly, an integer's text is its digits, an         *)
(* operator or punctuation token is exactly its characters, and a lone     *)
(* operator character is never reported as K_UNKNOWN.                      *)
TokensMatchSource ==
    \A i \in 1..Len(tokens) :
        LET t == tokens[i] IN
        CASE t.tok = "T_IDENTIFIER" ->
                t.text = Span(t) /\ Span(t) \notin {Keywords[k].w : k \in 1..Len(Keywords)}
          [] t.tok \in KeywordTokens -> Span(t) = KeywordWord(t.tok)
          [] t.tok = "T_INTEGER" -> t.text = Span(t)
          [] t.tok = "T_STRING" -> Span(t) \in {<<input[t.start]>> \o t.text,
                                                <<input[t.start]>> \o t.text \o <<input[t.start]>>}
          [] t.tok \in DOMAIN Spelling -> Span(t) = Spelling[t.tok]
          [] t.tok = "K_UNKNOWN" -> Span(t) \notin {<<c>> : c \in SpecialFirstChar}
          [] OTHER -> Span(t) = <<t.tok>>

(* What getToken delivers to the parser: every token is what its bytes    *)
(* spell (TokensMatchSource), carries the line of its first byte (spec 8,  *)
(* invariant 1, LineNumberAtTokenStart, against get() counting a lookahead *)
(* newline it pushes back), and C_EOF comes only at the end of the stream  *)
(* (ReadsWholeInput).                                                      *)
ScannerCorrect == TokensMatchSource /\ LineNumberAtTokenStart /\ ReadsWholeInput
=============================================================================
