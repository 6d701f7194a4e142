------------------------------- MODULE Puzzles ------------------------------
(***************************************************************************)
(* Wes/Quiz/knight_tour3.c ("knight") and Wes/Quiz/Chess.c ("horse"): a    *)
(* knight that jumps to the first free square, or to a random one when     *)
(* there is none; and 07_Calculator/main.c ("tokens"): a line of numbers   *)
(* and operators taken apart. Daniel/src2/simple_shell2.c ("shell2"),      *)
(* which asks after each command how to run it, and simple_shell3.c        *)
(* ("shell3"), which is told once.  The user types lines of words; the     *)
(* last one may end without a newline. MAX_INPUT_LENGTH is longer than     *)
(* every line.                                                             *)
(***************************************************************************)
EXTENDS Library

PzSide  == 4    \* bound: N, the side of the board
PzDepth == 22   \* bound: MAX_RECURSION_DEPTH, and the iterations of RunHorse

\* The jumps in the order in which each program tries them.
knight_moves == << <<2, 1>>, <<1, 2>>, <<-1, 2>>, <<-2, 1>>,
                   <<-2, -1>>, <<-1, -2>>, <<1, -2>>, <<2, -1>> >>
horse_jumps == << <<-1, 2>>, <<-1, -2>>, <<-2, 1>>, <<2, 1>>,
                  <<1, 2>>, <<1, -2>>, <<-2, -1>>, <<2, -1>> >>

Places == 0 .. PzSide * PzSide - 1
PlaceX(p) == p \div PzSide
PlaceY(p) == p % PzSide

\* Where the jumps lead, -1 for off the board: SetLUT, and isLegalJump.
LandingOf(p, jump) ==
    LET x == PlaceX(p) + jump[1]
        y == PlaceY(p) + jump[2]
    IN  IF x \in 0 .. PzSide - 1 /\ y \in 0 .. PzSide - 1 THEN x * PzSide + y ELSE -1

SetLUT(moves) == [p \in Places |-> [k \in 1..8 |-> LandingOf(p, moves[k])]]
KnightLUT == SetLUT(knight_moves)
HorseLUT  == SetLUT(horse_jumps)
PzLUT(v) == IF v = "knight" THEN KnightLUT ELSE HorseLUT

\* tryMoveToFreeIndex, and FindNextJump: -1 when no free square is in reach.
tryMoveToFreeIndex(lut, p, track) ==
    LET ks == {k \in 1..8 : lut[p][k] # -1 /\ lut[p][k] \notin track}
    IN  IF ks = {} THEN -1 ELSE lut[p][Min(ks)]

\* MoveToRandomPossibleIndex, and JumpRandom
RandomMoves(lut, p) == {lut[p][k] : k \in 1..8} \ {-1}

\* free counts down in RunHorse only; count is static in the knight's tour, and
\* a program starts one tour.
WalkStart(v, p) == [v |-> v, cur |-> p, track |-> {p}, count |-> 0,
                    free |-> PzSide * PzSide - 1, result |-> "none"]

WalkInit == \/ \E p \in Places : store = WalkStart("knight", p)
            \/ store = WalkStart("horse", 0)

Jump(p) == store' = [store EXCEPT !.cur = p, !.track = @ \cup {p}, !.count = @ + 1,
                                  !.free = IF p \in store.track THEN @ ELSE @ - 1]

WalkEnds(result) == store' = [store EXCEPT !.count = @ + 1, !.result = result]

\* solveKTUtil: it gives up after its move, and only when that was random.
solveKTUtil ==
    LET next == tryMoveToFreeIndex(KnightLUT, store.cur, store.track) IN
    \/ store.track = Places /\ WalkEnds("solved")
    \/ store.track # Places /\ next # -1 /\ Jump(next)
    \/ /\ store.track # Places /\ next = -1
       /\ IF store.count + 1 > PzDepth THEN WalkEnds("none exists")
          ELSE \E p \in RandomMoves(KnightLUT, store.cur) : Jump(p)

RunHorse ==
    LET next == tryMoveToFreeIndex(HorseLUT, store.cur, store.track) IN
    IF store.free = 0 \/ store.count = PzDepth THEN WalkEnds("over")
    ELSE IF next # -1 THEN Jump(next)
    ELSE \E p \in RandomMoves(HorseLUT, store.cur) : Jump(p)

WalkNext == /\ store.result = "none"
            /\ IF store.v = "knight" THEN solveKTUtil ELSE RunHorse
            /\ log' = store.cur

KnightsMove(p, q) ==
    LET square(a, b) == (a - b) * (a - b)
    IN  square(PlaceX(p), PlaceX(q)) + square(PlaceY(p), PlaceY(q)) = 5

\* The squares marked are those the knight has been on, each step is a knight's
\* move, the squares left are counted right, and a tour is solved when and only
\* when none is left.
WalkIsATour ==
    /\ store.cur \in store.track
    /\ store.count > 0 /\ store.result = "none" =>
          KnightsMove(log, store.cur) /\ log \in store.track
    /\ store.free = PzSide * PzSide - Cardinality(store.track)
    /\ store.result = "solved" => store.free = 0
    /\ store.result = "none exists" => store.free > 0 /\ store.count > PzDepth

-----------------------------------------------------------------------------
TkRoom  == 3   \* bound: the elements of arr, 64 in the program
TkText  == 4   \* bound: the length of a line

\* A digit, a sign, another operator, the two blanks and an unknown character.
TkChars == {"5", "-", "*", " ", "\n", "x"}
Operators == {"-", "*"}

TkInit == \E n \in 1..TkText : \E text \in [1..n -> TkChars] :
             store = [v |-> "tokens", text |-> text, at |-> 1, arr |-> <<>>,
                      result |-> "none"]

SkipOver(text, at, blanks) ==
    LET stops == {i \in at .. Len(text) : text[i] \notin blanks}
    IN  IF stops = {} THEN Len(text) + 1 ELSE Min(stops)

\* strtod skips all blanks and takes a sign: the end of the number, or at.
strtod(text, at) ==
    LET start == SkipOver(text, at, {" ", "\n"})
        digits == IF start <= Len(text) /\ text[start] = "-" THEN start + 1 ELSE start
        end == SkipOver(text, digits, {"5"})
    IN  IF end > digits THEN end ELSE at

\* getOperator skips spaces only.
getOperator(text, at) == SkipOver(text, at, {" "})

PieceOf(text, from, to) ==
    SelectSeq(SubSeq(text, from, to - 1), LAMBDA c : c \notin {" ", "\n"})

TkEnds(how) == store' = [store EXCEPT !.result = how]
TkTake(token, at) == store' = [store EXCEPT !.arr = Append(@, token), !.at = at]

\* Mutated form: the character after an operator is not looked at.
getFromStringSkips ==
    LET text == store.text
        number == strtod(text, store.at)
        op == getOperator(text, store.at)
    IN  IF Len(store.arr) = TkRoom THEN TkEnds("overflow")
        ELSE IF store.at > Len(text) THEN TkEnds("end")
        ELSE IF number # store.at THEN TkTake(PieceOf(text, store.at, number), number)
        ELSE IF op <= Len(text) /\ text[op] \in Operators
             THEN TkTake(<<text[op]>>, Min({op + 2, Len(text) + 1}))
        ELSE TkEnds("stopped")

\* One turn of the loop of getFromString.  The element after the last token is
\* written to, be there room or not; safeStop, 100, lies beyond the end of arr.
getFromString ==
    LET text == store.text
        number == strtod(text, store.at)
        op == getOperator(text, store.at)
    IN  IF Len(store.arr) = TkRoom THEN TkEnds("overflow")
        ELSE IF store.at > Len(text) THEN TkEnds("end")
        ELSE IF number # store.at THEN TkTake(PieceOf(text, store.at, number), number)
        ELSE IF op <= Len(text) /\ text[op] \in Operators THEN TkTake(<<text[op]>>, op + 1)
        ELSE TkEnds("stopped")

TkNext == store.result = "none" /\ getFromString /\ UNCHANGED log

\* The tokens are the line without its blanks, up to where reading has come:
\* no character is skipped or taken twice, a number ends with its last digit,
\* and a line of known characters on which an operator follows no newline is
\* read to its end.
TokensAreTheLine ==
    LET text == store.text
        rest == {i \in store.at .. Len(text) : text[i] # " "}
    IN  /\ FlattenSeq(store.arr) = PieceOf(text, 1, store.at)
        /\ \A i \in DOMAIN store.arr : LET t == store.arr[i] IN
              IF Last(t) = "5" THEN "-" \notin ToSet(Tail(t)) ELSE Len(t) = 1
        /\ store.result = "end" => rest = {}
        /\ store.result = "stopped" => \A i \in rest : \E j \in rest :
              j <= i /\ text[j] \in {"\n", "x"}

-----------------------------------------------------------------------------
PzInit == (WalkInit \/ TkInit) /\ log = NULL

PzNext == IF store.v = "tokens" THEN TkNext ELSE WalkNext

PuzzlesAreSolved == IF store.v = "tokens" THEN TokensAreTheLine ELSE WalkIsATour

-----------------------------------------------------------------------------
ShLines(k) == IF k = "shell2" THEN 4 ELSE 3   \* bound: lines that the user types
MAX_ARG_COUNT == 3                            \* bound: 64 in simple_shell2.c

NL      == "\n"
Numbers == {"0", "1"}
ShLine  == {<<>>, <<"ls">>, <<"ls", "1">>, <<"ls", "1", "1">>, <<"exit">>, <<"0">>, <<"1">>}

\* What the user typed, as the words and newlines that stdin holds.
Typed(lines, ended) ==
    LET text == FoldLeft(LAMBDA s, line : s \o line \o <<NL>>, <<>>, lines)
    IN  IF ended \/ text = <<>> THEN text ELSE Front(text)

\* A word without its first character, and one without its last.
Headless == [ls |-> "s", exit |-> "xit"]
Docked   == [ls |-> <<"l">>, exit |-> <<"exi">>, s |-> <<>>, xit |-> <<"xi">>] @@ ("0" :> <<>>) @@ ("1" :> <<>>)

\* fgets: the words of a line, whether its newline came, and what is left.
Fgets(text) ==
    LET ends == {i \in DOMAIN text : text[i] = NL}
        n == IF ends = {} THEN Len(text) + 1 ELSE Min(ends)
    IN  [words |-> SubSeq(text, 1, n - 1), newline |-> ends # {}, rest |-> SubSeq(text, n + 1, Len(text))]

ShInit == \E n \in 0 .. ShLines(kind) : \E lines \in [1..n -> ShLine], ended \in BOOLEAN :
    /\ log = [lines |-> lines, ended |-> ended, ran |-> <<>>]
    /\ \E how \in IF kind = "shell3" THEN {"system", "fork", "other"} ELSE {"fork"} :
          store = [text |-> Typed(lines, ended), how |-> how, input |-> <<>>,
                   at |-> IF how = "other" THEN "over" ELSE "prompt", exit_code |-> IF how = "other" THEN 1 ELSE 0]

\* fork, or system, is given the words; the shell goes on in the same way when
\* it fails.  A line of blanks runs nothing: execvp of NULL fails in the child,
\* and sh has nothing to do.
Runs(words) == log' = IF words = <<>> THEN log
                      ELSE [log EXCEPT !.ran = Append(@, <<store'.how, words>>)]

-----------------------------------------------------------------------------
\* The prompt: `input[strlen(input) - 1] = 0` takes the newline off, or the
\* last character of a line that has none.
Prompt2 ==
    /\ kind = "shell2" /\ store.at = "prompt"
    /\ LET line == Fgets(store.text)
           input == IF line.newline THEN line.words ELSE Front(line.words) \o Docked[Last(line.words)]
       IN  IF store.text = <<>> \/ input = <<"exit">>
           THEN store' = [store EXCEPT !.at = "over"]
           ELSE store' = [store EXCEPT !.at = "ask", !.input = input, !.text = line.rest]
    /\ UNCHANGED log

\* Mutated form: nothing takes the newline that follows the answer.
AnswerKeepsNewline(text) ==
    LET blanks == {n \in 0 .. Len(text) : \A i \in 1..n : text[i] = NL}
        s == SubSeq(text, Max(blanks) + 1, Len(text))
    IN  IF s # <<>> /\ Head(s) \in Numbers THEN [how |-> {Head(s)}, rest |-> Tail(s)]
        ELSE [how |-> {}, rest |-> s]

\* scanf skips blanks and newlines and leaves what is no number; getchar takes
\* one character, whatever it is.
Answer(text) ==
    LET blanks == {n \in 0 .. Len(text) : \A i \in 1..n : text[i] = NL}
        s == SubSeq(text, Max(blanks) + 1, Len(text))
    IN  CASE s = <<>> -> [how |-> {}, rest |-> <<>>]
          [] s # <<>> /\ Head(s) \in Numbers ->
                [how |-> {Head(s)},
                 rest |-> IF Len(s) > 1 /\ s[2] = NL THEN SubSeq(s, 3, Len(s)) ELSE Tail(s)]
          [] s # <<>> /\ Head(s) \notin Numbers ->
                [how |-> {}, rest |-> <<Headless[Head(s)]>> \o Tail(s)]

\* use_fork keeps its value when there is no answer.  strtok has cut the line
\* behind its first word, which is all that system() sees.  A line of
\* MAX_ARG_COUNT words is written past args: anything may happen.
Ask ==
    /\ kind = "shell2" /\ store.at = "ask"
    /\ LET answer == Answer(store.text)
           how == CASE answer.how = {} -> store.how
                    [] answer.how = {"0"} -> "system"
                    [] answer.how \notin {{}, {"0"}} -> "fork"
       IN  IF Len(store.input) >= MAX_ARG_COUNT
           THEN store' = [store EXCEPT !.at = "overrun"] /\ UNCHANGED log
           ELSE /\ store' = [store EXCEPT !.at = "prompt", !.how = how, !.text = answer.rest]
                /\ Runs(IF how = "fork" \/ store.input = <<>> THEN store.input ELSE <<Head(store.input)>>)

\* simple_shell3.c: strcspn finds the newline if there is one, exe_func runs
\* the whole line in a shell; the end of the input is an error.
Prompt3 ==
    /\ kind = "shell3" /\ store.at = "prompt"
    /\ LET line == Fgets(store.text) IN
       \/ /\ store.text = <<>> \/ line.words = <<"exit">>
          /\ store' = [store EXCEPT !.at = "over", !.exit_code = IF store.text = <<>> THEN 1 ELSE 0]
          /\ UNCHANGED log
       \/ /\ store.text # <<>> /\ line.words # <<"exit">>
          /\ store' = [store EXCEPT !.text = line.rest]
          /\ Runs(line.words)

ShNext == Prompt2 \/ Ask \/ Prompt3

-----------------------------------------------------------------------------
\* The lines of l that are commands, every step-th one, until exit.
CommandLines(l, step) ==
    LET is == {i \in DOMAIN l : i % step = 1 % step}
        exits == {i \in is : l[i] = <<"exit">>}
    IN  {i \in is : \A e \in exits : i < e}

\* A shell tries to run every command that the user typed before exit, once, in
\* order, each as it was answered for: with fork all of its words, with system
\* in simple_shell2.c the first one only.  For simple_shell2.c this needs a 0 or
\* a 1 on a line of its own after each command.
ShellsRunTheCommands ==
    LET l == log.lines
        asked == CommandLines(l, IF kind = "shell2" THEN 2 ELSE 1)
        answered == /\ log.ended
                    /\ \A i \in asked : i + 1 \in DOMAIN l /\ l[i + 1] \in {<<n>> : n \in Numbers}
        how(i) == IF l[i + 1] = <<"0">> THEN "system" ELSE "fork"
        expected(i) == CASE kind = "shell3" -> <<store.how, l[i]>>
                         [] kind = "shell2" -> <<how(i), IF how(i) = "fork" THEN l[i] ELSE <<Head(l[i])>> >>
        commands == SetToSortSeq({i \in asked : l[i] # <<>>}, LAMBDA i, j : i < j)
    IN  /\ kind = "shell2" /\ answered =>
              /\ IsPrefix(log.ran, [k \in DOMAIN commands |-> expected(commands[k])])
              /\ store.at = "over" => Len(log.ran) = Len(commands)
        /\ kind = "shell3" /\ store.how # "other" =>
              /\ IsPrefix(log.ran, [k \in DOMAIN commands |-> expected(commands[k])])
              /\ store.at = "over" => /\ Len(log.ran) = Len(commands)
                                      /\ store.exit_code = IF \E i \in DOMAIN l : l[i] = <<"exit">> THEN 0 ELSE 1
=============================================================================
