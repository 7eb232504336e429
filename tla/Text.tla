-------------------------------- MODULE Text --------------------------------
(***************************************************************************)
(* The text of text.c: strings of Z-characters, the words of a dictionary, *)
(* and the parse of a line into tokens.  Characters are numbers, ISO       *)
(* Latin-1 or ZSCII; a string in memory is a sequence of Z-characters, its *)
(* words cut into three of them.  The story has no Unicode table of its    *)
(* own and is none of the few that are treated specially.                  *)
(***************************************************************************)
EXTENDS Integers, FiniteSets, Sequences, SequencesExt

NEWLINE == 13
SPACE == 32
Code(digit) == 48 + digit
QUESTION == 63

zscii_to_latin1 == <<
  228, 246, 252, 196, 214, 220, 223, 187, 171, 235, 239, 255, 203, 207, 225, 233,
  237, 243, 250, 253, 193, 201, 205, 211, 218, 221, 224, 232, 236, 242, 249, 192,
  200, 204, 210, 217, 226, 234, 238, 244, 251, 194, 202, 206, 212, 219, 229, 197,
  248, 216, 227, 241, 245, 195, 209, 213, 230, 198, 231, 199, 254, 240, 222, 208,
  163, 0, 0, 161, 191>>
LIGATURES == {220, 221}

(* Mouse clicks have other codes in ZSCII.                                 *)
Click == 252..254
translate_from_zscii(c) ==
  IF c \in Click THEN 409 - c
  ELSE IF c < 155 THEN c
  ELSE IF c <= 223 /\ c \notin LIGATURES THEN zscii_to_latin1[c - 154] ELSE QUESTION

LATIN1_MIN == 160
Clicked(c) == IF c \in 155..157 THEN 409 - c ELSE c
translate_to_zscii(c) ==
  IF c >= LATIN1_MIN
  THEN LET at == {i \in DOMAIN zscii_to_latin1 : zscii_to_latin1[i] = c}
       IN  IF at = {} THEN QUESTION ELSE 154 + CHOOSE i \in at : \A j \in at : i <= j
  ELSE IF c = 0 THEN QUESTION ELSE Clicked(c)

(* The third alphabet: the first place starts an escape, the second, from  *)
(* version 2 on, is a new line.                                            *)
PUNCTUATION(v) ==
  IF v = 1
  THEN <<32, 48, 49, 50, 51, 52, 53, 54, 55, 56, 57, 46, 44, 33, 63, 95, 35, 39, 34, 47,
         92, 60, 45, 58, 40, 41>>
  ELSE <<32, 94, 48, 49, 50, 51, 52, 53, 54, 55, 56, 57, 46, 44, 33, 63, 95, 35, 39, 34,
         47, 92, 45, 58, 40, 41>>
alphabet(v, set, index) ==
  CASE set = 0 -> 97 + index [] set = 1 -> 65 + index [] OTHER -> PUNCTUATION(v)[index + 1]

resolution(v) == IF v <= 3 THEN 2 ELSE 3
-----------------------------------------------------------------------------
(* encode_text: the Z-characters of a word, cut or padded to the size of a *)
(* dictionary entry.                                                       *)
ShiftBase(v) == IF v <= 2 THEN 1 ELSE 3
Letters(v, c) ==
  LET places == {p \in (0..2) \X (0..25) : alphabet(v, p[1], p[2]) = c}
      Before(p, q) == p[1] < q[1] \/ (p[1] = q[1] /\ p[2] <= q[2])
      first  == CHOOSE p \in places : \A q \in places : Before(p, q)
      zscii  == translate_to_zscii(c)
  IN  IF places = {} THEN <<5, 6, zscii \div 32, zscii % 32>>
      ELSE IF first[1] = 0 THEN <<first[2] + 6>>
      ELSE <<ShiftBase(v) + first[1], first[2] + 6>>

encode_text(v, word, padding) ==
  LET size   == 3 * resolution(v)
      zchars == FlattenSeq([i \in DOMAIN word |-> Letters(v, word[i])])
                  \o [i \in 1..size |-> padding]
  IN  SubSeq(zchars, 1, size)

(* Three Z-characters in a word of memory, the last one marked.            *)
Packed(v, zchars) ==
  [i \in 1..resolution(v) |->
     1024 * zchars[3 * i - 2] + 32 * zchars[3 * i - 1] + zchars[3 * i]
       + (IF i = resolution(v) THEN 32768 ELSE 0)]

(* decode_text: what one Z-character does.  abbreviation[n] is the text of *)
(* abbreviation n, itself a string without abbreviations.                  *)
Start == [shift |-> 0, lock |-> 0, status |-> "text", prev |-> 0, out |-> <<>>]

NextSet(v, s, c) == (s.lock + (c % 2) + 1) % 3
NextLock(v, s, c) == IF v <= 2 /\ c >= 4 THEN NextSet(v, s, c) ELSE s.lock

Shown(s, c) == [s EXCEPT !.out = Append(@, c), !.shift = s.lock]
OneChar(v, s, c, abbreviation) ==
  LET
    normal ==
      CASE s.shift = 2 /\ c = 6 -> [s EXCEPT !.status = "escape", !.shift = s.lock]
        [] (v = 1 /\ c = 1) \/ (v >= 2 /\ s.shift = 2 /\ c = 7) -> Shown(s, NEWLINE)
        [] c >= 6 /\ ~(s.shift = 2 /\ (c = 6 \/ (v >= 2 /\ c = 7))) ->
             Shown(s, alphabet(v, s.shift, c - 6))
        [] c = 0 -> Shown(s, SPACE)
        [] (v >= 2 /\ c = 1) \/ (v >= 3 /\ c \in 2..3) ->
             [s EXCEPT !.status = "abbreviation", !.shift = s.lock]
        [] OTHER -> [s EXCEPT !.shift = NextSet(v, s, c), !.lock = NextLock(v, s, c)]
    after ==
      CASE s.status = "text" -> normal
        [] s.status = "abbreviation" ->
             [s EXCEPT !.out = @ \o abbreviation[32 * (s.prev - 1) + c], !.status = "text"]
        [] s.status = "escape" -> [s EXCEPT !.status = "escape2"]
        [] s.status = "escape2" ->
             [s EXCEPT !.out = Append(@, translate_from_zscii((32 * s.prev + c) % 256)),
                       !.status = "text"]
  IN  [after EXCEPT !.prev = c]

decode_text(v, zchars, abbreviation) ==
  FoldLeft(LAMBDA s, c : OneChar(v, s, c, abbreviation), Start, zchars).out
Plain == [n \in 0..95 |-> <<>>]     \* within an abbreviation
-----------------------------------------------------------------------------
(* lookup_text in a dictionary of entries that are sorted, or not: the     *)
(* place of the entry, 0 if there is none.                                 *)
FIRST == 0
EXACT == 5
LAST == 31

Greater(a, b) ==
  \E i \in DOMAIN a : a[i] > b[i] /\ \A j \in 1..(i - 1) : a[j] = b[j]

UpperAfter(middle) == middle - 1
LowerAfter(middle) == middle + 1

lookup_text(v, word, padding, entries, sorted) ==
  LET n       == Len(entries)
      encoded == Packed(v, encode_text(v, word, padding))
      search[l \in 0..n, u \in -1..(n - 1)] ==
        LET e == IF sorted THEN (l + u) \div 2 ELSE l
        IN  IF l > u
            THEN LET at == IF padding = FIRST THEN l ELSE u
                 IN  IF padding = EXACT \/ at = -1 \/ at = n THEN 0 ELSE at + 1
            ELSE IF entries[e + 1] = encoded THEN e + 1
            ELSE IF ~sorted \/ Greater(encoded, entries[e + 1]) THEN search[LowerAfter(e), u]
            ELSE search[l, UpperAfter(e)]
  IN  search[0, n - 1]

(* completion: what extends the last word of a line, and whether it is all.*)
LongestCommon(a, b) ==
  LET same == {n \in 0..Len(a) : n <= Len(b) /\ SubSeq(a, 1, n) = SubSeq(b, 1, n)}
  IN  CHOOSE n \in same : \A m \in same : m <= n
NoMatch == [status |-> 2, extension |-> <<>>]
completion(v, word, entries, texts) ==
  LET low  == lookup_text(v, word, FIRST, entries, TRUE)
      high == lookup_text(v, word, LAST, entries, TRUE)
      rest(e) == SubSeq(texts[e], Len(word) + 1, Len(texts[e]))
  IN  IF low = 0 \/ high = 0 \/ low > high THEN NoMatch
      ELSE [status |-> IF low = high THEN 0 ELSE 1,
            extension |-> SubSeq(rest(low), 1, LongestCommon(rest(low), rest(high)))]
-----------------------------------------------------------------------------
(* tokenise_line over the characters of a line: a word ends at a space, at *)
(* a separator, which is a word of its own, and at the end; words beyond   *)
(* the room for tokens are dropped.  (With no separator at all the code    *)
(* takes 256 bytes of the dictionary for separators: there is one here.)   *)
Token(from, length) == [from |-> from, length |-> length]
WithToken(tokens, token, room) ==
  IF Len(tokens) < room THEN Append(tokens, token) ELSE tokens

Terminated(line) == Append(line, 0)

tokenise_line(line, separators, room) ==
  LET Step(s, i) ==
        LET c    == Terminated(line)[i]
            word == c \notin separators \cup {SPACE, 0}
            done == IF ~word /\ s.start # 0
                    THEN WithToken(s.tokens, Token(s.start, i - s.start), room) ELSE s.tokens
        IN  [start  |-> IF ~word THEN 0 ELSE IF s.start = 0 THEN i ELSE s.start,
             tokens |-> IF c \in separators THEN WithToken(done, Token(i, 1), room) ELSE done]
  IN  FoldLeft(Step, [start |-> 0, tokens |-> <<>>],
               [i \in DOMAIN Terminated(line) |-> i]).tokens

(* print_num of a 16-bit number.                                           *)
Magnitude(w) == IF w >= 32768 THEN 65536 - w ELSE w
print_num(w) ==
  LET places == SelectSeq(<<10000, 1000, 100, 10, 1>>, LAMBDA p : Magnitude(w) >= p \/ p = 1)
  IN  (IF w >= 32768 THEN <<45>> ELSE <<>>)
        \o [i \in DOMAIN places |-> Code((Magnitude(w) \div places[i]) % 10)]
-----------------------------------------------------------------------------
(* What all this is for.  A word of a dictionary or of a command is a      *)
(* sequence of characters, short enough if it fits the resolution.         *)
Fits(v, word) == Len(FlattenSeq([i \in DOMAIN word |-> Letters(v, word[i])])) <= 3 * resolution(v)
Decoded(v, zchars) == decode_text(v, zchars, Plain)

(* A character that the game prints and the player types has one code: to  *)
(* ZSCII and back it is the same, but for the two ligatures that Latin-1   *)
(* does not have.                                                          *)
ZsciiKept(c) ==
  c \notin LIGATURES => translate_to_zscii(translate_from_zscii(c)) = c

(* A word that fits is printed as it was typed, in every version, shifts,  *)
(* shift locks and escapes included; the padding prints nothing.  Only up  *)
(* to version 2 an escape spoils what follows it: encode_text begins it    *)
(* with 5, which decode_text takes for a shift lock there.                 *)
Escaped(v, c) == Len(Letters(v, c)) = 4
WordKept(v, word) ==
  Fits(v, word) /\ (v <= 2 => \A i \in 1..(Len(word) - 1) : ~Escaped(v, word[i]))
    => Decoded(v, encode_text(v, word, EXACT)) = word

(* The entry found for a word in a dictionary, sorted or not, is the one   *)
(* that begins with the same Z-characters, and none if none does.          *)
InOrder(S, Less(_, _)) ==
  [i \in 1..Cardinality(S) |-> CHOOSE a \in S : Cardinality({b \in S : Less(b, a)}) = i - 1]
Below(a, b) == \E i \in DOMAIN a : a[i] < b[i] /\ SubSeq(a, 1, i - 1) = SubSeq(b, 1, i - 1)
Sorted(entries) == InOrder(entries, Below)
Found(v, word, words, sorted) ==
  LET entries == Sorted({Packed(v, encode_text(v, w, EXACT)) : w \in words})
      dictionary == IF sorted THEN entries ELSE Reverse(entries)
      e == lookup_text(v, word, EXACT, dictionary, sorted)
      own == Packed(v, encode_text(v, word, EXACT))
  IN  IF own \in ToSet(entries) THEN e # 0 /\ dictionary[e] = own ELSE e = 0

(* A completion is the longest text that follows the letters typed in all  *)
(* the words that start with them, and final if there is one such word.    *)
Completed(v, typed, words) ==
  LET Encoded(w) == encode_text(v, w, EXACT)
      entries == Sorted({Packed(v, Encoded(w)) : w \in words})
      TextOf(e) == LET w == CHOOSE w \in words : Packed(v, Encoded(w)) = entries[e]
                   IN  Decoded(v, Encoded(w))
      possible == {TextOf(e) : e \in {e \in DOMAIN entries : IsPrefix(typed, TextOf(e))}}
      result == completion(v, typed, entries, [e \in DOMAIN entries |-> TextOf(e)])
      whole  == typed \o result.extension
  IN  IF possible = {} THEN result = NoMatch
      ELSE /\ result.status = (IF \A p, q \in possible : p = q THEN 0 ELSE 1)
           /\ \A w \in possible : IsPrefix(whole, w)
           /\ \E p, q \in possible : \A x \in 1..255 :
                ~(IsPrefix(Append(whole, x), p) /\ IsPrefix(Append(whole, x), q))

(* The tokens are the words of the line in order, each whole, and those    *)
(* that do not fit into the table are the last ones.                       *)
Words(line, separators) ==
  LET letter(i) == i \in DOMAIN line /\ line[i] \notin separators \cup {SPACE}
      ends == {se \in (DOMAIN line) \X (DOMAIN line) :
                 \/ se[1] = se[2] /\ line[se[1]] \in separators
                 \/ se[1] <= se[2] /\ (\A i \in se[1]..se[2] : letter(i))
                                   /\ ~letter(se[1] - 1) /\ ~letter(se[2] + 1)}
      ordered == InOrder(ends, LAMBDA a, b : a[1] < b[1])
  IN  [i \in DOMAIN ordered |-> Token(ordered[i][1], ordered[i][2] - ordered[i][1] + 1)]
Tokenised(line, separators, room) ==
  LET words == Words(line, separators)
  IN  tokenise_line(line, separators, room)
        = SubSeq(words, 1, IF Len(words) < room THEN Len(words) ELSE room)

(* A number is printed with its sign and all its digits, -32768 too.       *)
Printed(w) ==
  LET text   == print_num(w)
      minus  == text[1] = 45
      digits == IF minus THEN Tail(text) ELSE text
      value  == FoldLeft(LAMBDA n, c : 10 * n + c - 48, 0, digits)
  IN  /\ (IF minus THEN 65536 - value ELSE value) = w
      /\ minus <=> w >= 32768
      /\ Len(digits) > 1 => digits[1] # 48
-----------------------------------------------------------------------------
(***************************************************************************)
(* The opcodes that print or encode text, from version 5 on, and the       *)
(* tables they work on: formatted text, as output stream 3 leaves it in    *)
(* version 6, and the tokens of a line.                                    *)
(***************************************************************************)
V5 == 5

(* Whether a character can be printed, 1, and read, 2.                     *)
z_check_unicode(c) ==
  CASE c \in 32..126 -> 3 [] c = 160 -> 1 [] c \in 161..255 -> 3 [] OTHER -> 0
z_print_unicode(c) == IF c <= 255 THEN c ELSE QUESTION
z_print_char(c) == translate_from_zscii(c % 256)

(* An object without a name, or with an empty one, is told by its number.  *)
EMPTY == <<5, 5, 5>>
OBJECT == <<111, 98, 106, 101, 99, 116, 35>>                \* "object#"
print_object(v, object, name) ==
  IF name \in {<<>>, EMPTY} THEN OBJECT \o print_num(object)
  ELSE decode_text(v, name, Plain)
-----------------------------------------------------------------------------
(***************************************************************************)
(* The opcodes that print strings from memory, a sequence of words at the  *)
(* even addresses.  The highest bit of a word ends a string.               *)
(***************************************************************************)
StringAt(memory, addr) ==
  LET first == addr \div 2 + 1
      Ends(n) == memory[n] >= 32768 /\ \A k \in first..(n - 1) : memory[k] < 32768
  IN  SubSeq(memory, first, CHOOSE n \in first..Len(memory) : Ends(n))
Zchars(words) ==
  FlattenSeq([i \in DOMAIN words |->
    <<(words[i] \div 1024) % 32, (words[i] \div 32) % 32, words[i] % 32>>])

(* The table of abbreviations holds half of their addresses.               *)
Abbreviations(v, memory, table) ==
  [n \in 0..95 |->
    LET addr == 2 * memory[table \div 2 + n + 1]
    IN  decode_text(v, Zchars(StringAt(memory, addr)), Plain)]
z_print_addr(v, memory, table, addr) ==
  decode_text(v, Zchars(StringAt(memory, addr)), Abbreviations(v, memory, table))

(* A string in the code: the program counter goes on behind it.            *)
z_print(v, memory, table, pc) ==
  [text |-> z_print_addr(v, memory, table, pc), pc |-> pc + 2 * Len(StringAt(memory, pc))]
z_new_line == <<NEWLINE>>
z_print_ret(v, memory, table, pc) == z_print(v, memory, table, pc).text \o z_new_line

byte_addr(v, packed, offset) ==
  CASE v <= 3 -> 2 * packed [] v \in 4..5 -> 4 * packed
    [] v \in 6..7 -> 4 * packed + 8 * offset [] v = 8 -> 8 * packed
z_print_paddr(v, memory, table, packed, offset) ==
  z_print_addr(v, memory, table, byte_addr(v, packed, offset))
-----------------------------------------------------------------------------
(* A formatted table: lines of ZSCII, each after its length, so that an    *)
(* empty line ends it.  (memory_word, memory_new_line, memory_close)       *)
(* The space that a line would begin with is left out.                     *)
Placed(table, word, xsize) ==
  IF table.width + Len(word) > xsize /\ word[1] = SPACE THEN Tail(word) ELSE word

memory_new_line(table) == [lines |-> Append(table.lines, <<>>), width |-> 0]
memory_word(table, word, xsize) ==
  LET placed == Placed(table, word, xsize)
      line   == IF table.width + Len(word) > xsize THEN memory_new_line(table) ELSE table
      zscii  == [i \in DOMAIN placed |-> translate_to_zscii(placed[i])]
  IN  [lines |-> [line.lines EXCEPT ![Len(line.lines)] = @ \o zscii],
       width |-> line.width + Len(placed)]
memory_close(table) == memory_new_line(table)

Redirected(pieces, xsize) ==
  LET Next(table, piece) ==
        IF piece = <<NEWLINE>> THEN memory_new_line(table) ELSE memory_word(table, piece, xsize)
  IN  memory_close(FoldLeft(Next, [lines |-> <<<<>>>>, width |-> 0], pieces))

z_print_form(lines) ==
  LET shown == SelectInSeq(lines, LAMBDA line : line = <<>>) - 1
  IN  FlattenSeq([i \in 1..shown |->
        (IF i = 1 THEN <<>> ELSE <<NEWLINE>>)
          \o [j \in DOMAIN lines[i] |-> translate_from_zscii(lines[i][j])]])
-----------------------------------------------------------------------------
(* A part of the text is cut to the characters that may matter.            *)
load_string(v, zscii) ==
  LET size == 3 * resolution(v)
  IN  [i \in 1..(IF Len(zscii) < size THEN Len(zscii) ELSE size) |->
         translate_from_zscii(zscii[i])]
z_encode_text(text, length, from) ==
  Packed(V5, encode_text(V5, load_string(V5, SubSeq(text, from + 1, from + length)), EXACT))

(* The buffer of a line begins with its size, and from version 5 on with   *)
(* the length of what was typed.                                           *)
Begins(v) == IF v >= 5 THEN 2 ELSE 1

(* A slot names an entry of a dictionary, or none.  With the flag set, a   *)
(* slot keeps what it had if the word is unknown.                          *)
FlagIgnored(e, flag) == TRUE                                         \* faulty
Replaces(e, flag) == e # 0 \/ ~flag

tokenise_text(v, line, token, old, dct, flag) ==
  LET word == SubSeq(line, token.from, token.from + token.length - 1)
      e    == lookup_text(v, load_string(v, word), EXACT, dct.entries, TRUE)
  IN  IF Replaces(e, flag)
      THEN [entry |-> IF e = 0 THEN <<>> ELSE <<dct.name, e>>,
            length |-> token.length, from |-> token.from + Begins(v) - 1]
      ELSE old

(* Slots beyond the tokens of this line keep what they had, too.           *)
z_tokenise(v, line, slots, dct, flag) ==
  LET tokens == tokenise_line(line, dct.separators, Len(slots))
  IN  [i \in DOMAIN slots |->
         IF i <= Len(tokens) THEN tokenise_text(v, line, tokens[i], slots[i], dct, flag)
         ELSE slots[i]]
-----------------------------------------------------------------------------
(* Text sent through a formatted table is printed whole and in order: a    *)
(* line is broken between words only and is no wider than the table.  So   *)
(* it is if every word fits with its space and no line is left empty, for  *)
(* an empty line ends the table.                                           *)
FormKept(pieces, xsize) ==
  LET lines == Redirected(pieces, xsize).lines
      text  == z_print_form(lines)
      breaks == {i \in DOMAIN text : text[i] = NEWLINE}
      Shown_(s) == SelectSeq(s, LAMBDA c : c \notin {SPACE, NEWLINE})
      between == {Len(Shown_(FlattenSeq(SubSeq(pieces, 1, i)))) : i \in 0..Len(pieces)}
  IN  /\ \A i \in DOMAIN pieces : Len(pieces[i]) <= xsize
      /\ \A i \in 1..(Len(lines) - 1) : lines[i] # <<>>
      => /\ Shown_(text) = Shown_(FlattenSeq(pieces))
         /\ \A i \in DOMAIN text : \E j \in breaks \cup {0} : j <= i /\ i - j <= xsize
         /\ \A i \in breaks : Len(Shown_(SubSeq(text, 1, i))) \in between

(* What can be printed is printed, whatever its code; what can be read, if *)
(* ZSCII knows it, is printed as it was read.                              *)
UnicodeTold(c) ==
  /\ z_check_unicode(c) # 0 <=> z_print_unicode(c) = c /\ (c \in 32..126 \/ c >= 160)
  /\ z_check_unicode(c) = 3 /\ translate_to_zscii(c) # QUESTION
       => z_print_char(translate_to_zscii(c)) = c

(* Two objects without a name are told apart.                              *)
ObjectTold(v, object, name) ==
  LET text == print_object(v, object, name)
  IN  decode_text(v, name, Plain) = <<>> /\ Len(name) <= 3 =>
        \A other \in {0, 1, object + 1} : other # object => text # print_object(v, other, name)

(* A string is the same in the code, at an address, at a packed address    *)
(* and as an abbreviation, which version 1 does not have; and what follows *)
(* it in the code is run next.                                             *)
StringPrinted(v, word) ==
  LET zchars == encode_text(v, word, EXACT)
      before == <<4, 0, 0, 1024 + 5 + 32768>>    \* the table, and a use of abbreviation 0
      memory == before \o Packed(v, zchars) \o <<40000>>
      text   == Decoded(v, zchars)
      code   == z_print(v, memory, 0, 8)
  IN  /\ code.text = text /\ memory[code.pc \div 2 + 1] = 40000
      /\ z_print_ret(v, memory, 0, 8) = Append(text, NEWLINE)
      /\ \A packed \in 0..4, offset \in 0..1 :
           byte_addr(v, packed, offset) = 8 => z_print_paddr(v, memory, 0, packed, offset) = text
      /\ v >= 2 => z_print_addr(v, memory, 0, 6) = text

(* A line that is scanned with one dictionary and then, with the flag set, *)
(* with another one that has the same separators gives for each word the   *)
(* entry of the second one, of the first one if only that knows it, and    *)
(* none otherwise; an entry is found as z_encode_text encodes the word.    *)
ScannedTwice(v, line, first, second, room) ==
  LET Entries(words) == Sorted({Packed(v, encode_text(v, w, EXACT)) : w \in words})
      Dictionary(name, words) ==
        [name |-> name, entries |-> Entries(words), separators |-> {44}]
      empty == [i \in 1..room |-> [entry |-> <<>>, length |-> 0, from |-> 0]]
      once  == z_tokenise(v, line, empty, Dictionary(1, first), FALSE)
      twice == z_tokenise(v, line, once, Dictionary(2, second), TRUE)
      words == Words(line, {44})
      Of(name, dictionary, word) ==
        {<<name, e>> : e \in {e \in DOMAIN Entries(dictionary) :
           Entries(dictionary)[e] = z_encode_text(line, word.length, word.from - 1)}}
  IN  \A i \in 1..room :
        IF i > Len(words) THEN twice[i] = empty[i]
        ELSE LET later == Of(2, second, words[i])
                 known == IF later # {} THEN later ELSE Of(1, first, words[i])
             IN  /\ twice[i].length = words[i].length
                 /\ twice[i].from = words[i].from + Begins(v) - 1
                 /\ IF known = {} THEN twice[i].entry = <<>> ELSE twice[i].entry \in known
===============================================================================
