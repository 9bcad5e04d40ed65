------------------------------- MODULE Getopt -------------------------------
(***************************************************************************)
(* getopt: getopt_r of src/unistd/getopt.cpp.  A word of argv and the      *)
(* option string are sequences of characters; indices count from 0.  The   *)
(* context holds optind, optpos, optarg and optopt; what report_error      *)
(* prints is left out.                                                     *)
(***************************************************************************)
EXTENDS Integers, Sequences, SequencesExt

\* The options of optstring from position i on: which characters, which of them
\* take an argument.
RECURSIVE OptionsFrom(_, _)
OptionsFrom(s, i) ==
  IF i > Len(s) THEN <<>>
  ELSE IF i < Len(s) /\ s[i + 1] = ":"
       THEN <<[c |-> s[i], arg |-> TRUE]>> \o OptionsFrom(s, i + 2)
       ELSE <<[c |-> s[i], arg |-> FALSE]>> \o OptionsFrom(s, i + 1)

OptstringParser(optstring) ==
  OptionsFrom(optstring, IF optstring[1] \in {"-", "+", ":"} THEN 2 ELSE 1)

find_match(optstring, c) ==
  LET options == OptstringParser(optstring)
      hits == {k \in 1 .. Len(options) : options[k].c = c}
  IN  IF hits = {} THEN <<>> ELSE <<options[CHOOSE k \in hits : \A j \in hits : k <= j]>>

Word(argv, k) == argv[k + 1]

\* <<the answer, the context after the call>>.
failure(ret, ctx) == <<ret, [ctx EXCEPT !.optpos = 0]>>

\* Mutant: the next word is taken as the argument although the word goes on.
TakeNextWord(argv, optstring, ctx, pos, c) ==
  LET next == ctx.optind + 1
  IN  IF next >= Len(argv) THEN failure(IF optstring[1] = ":" THEN ":" ELSE "?", ctx)
      ELSE <<c, [ctx EXCEPT !.optarg = Word(argv, next), !.optind = next + 1, !.optpos = 0]>>

\* The argument of option c: the rest of the word or the next word.
TakeArgument(argv, optstring, ctx, pos, c) ==
  LET rest == SubSeq(Word(argv, ctx.optind), pos + 1, Len(Word(argv, ctx.optind)))
      next == ctx.optind + 1
  IN  IF rest # <<>>
      THEN <<c, [ctx EXCEPT !.optarg = rest, !.optind = next, !.optpos = 0]>>
      ELSE IF next >= Len(argv) THEN failure(IF optstring[1] = ":" THEN ":" ELSE "?", ctx)
      ELSE <<c, [ctx EXCEPT !.optarg = Word(argv, next), !.optind = next + 1, !.optpos = 0]>>

\* An option without an argument: go on in the word, or to the next word.
TakeFlag(argv, ctx, pos, c) ==
  IF pos = Len(Word(argv, ctx.optind))
  THEN <<c, [ctx EXCEPT !.optind = @ + 1, !.optpos = 0]>>
  ELSE <<c, [ctx EXCEPT !.optpos = pos]>>

getopt_r(argv, optstring, ctx) ==
  LET word == Word(argv, ctx.optind)
      pos == IF ctx.optpos = 0 THEN 1 ELSE ctx.optpos
      c == word[pos + 1]
      match == find_match(optstring, c)
  IN  IF ctx.optind >= Len(argv) THEN failure("-1", ctx)
      ELSE IF ctx.optpos = 0 /\ (word = <<>> \/ word[1] # "-") THEN failure("-1", ctx)
      ELSE IF ctx.optpos = 0 /\ word = <<"-", "-">>
           THEN failure("-1", [ctx EXCEPT !.optind = @ + 1])
      ELSE IF ctx.optpos = 0 /\ word = <<"-">> THEN failure("-1", ctx)
      ELSE IF match = <<>> THEN failure("?", [ctx EXCEPT !.optopt = c])
      ELSE IF match[1].arg THEN TakeArgument(argv, optstring, ctx, pos + 1, c)
      ELSE TakeFlag(argv, ctx, pos + 1, c)

\* The loop of a client: the options and arguments that getopt reports until it
\* answers -1 or an error, that answer, and the context it leaves.
RECURSIVE ParseAll(_, _, _, _)
ParseAll(argv, optstring, ctx, seen) ==
  LET r == getopt_r(argv, optstring, [ctx EXCEPT !.optarg = <<>>])
  IN  IF r[1] \in {"?", ":", "-1"} THEN [seen |-> seen, answer |-> r[1], ctx |-> r[2]]
      ELSE ParseAll(argv, optstring, r[2], Append(seen, [c |-> r[1], arg |-> r[2].optarg]))

Start == [optind |-> 1, optpos |-> 0, optarg |-> <<>>, optopt |-> ""]

(***************************************************************************)
(* The command lines a list of options can be written as: an option may    *)
(* join the word before it if that word can go on, and an argument may be  *)
(* attached to its option or follow it.                                    *)
(***************************************************************************)
WriteOption(line, item) ==
  LET letter == IF item.attach THEN <<item.c>> \o item.arg ELSE <<item.c>>
      words == IF item.join /\ line.open
               THEN Append(Front(line.words), Last(line.words) \o letter)
               ELSE Append(line.words, <<"-">> \o letter)
  IN  [words |-> IF item.arg # <<>> /\ ~item.attach THEN Append(words, item.arg) ELSE words,
       open |-> item.arg = <<>>]

WriteLine(items) ==
  FoldLeft(WriteOption, [words |-> << <<"p">> >>, open |-> FALSE], items).words

\* However a list of options is written on the command line (letters joined in a
\* word or not, arguments attached or in the next word, an argument that looks like
\* an option), getopt reports exactly these options in order and stops, with optind
\* at the first operand; at an unknown option, or one whose argument is missing, it
\* stops with optind at that word.
ParsesLine(items, ending, optstring) ==
  LET line == WriteLine(items)
      r == ParseAll(line \o ending, optstring, Start, <<>>)
  IN  /\ r.seen = [k \in 1 .. Len(items) |-> [c |-> items[k].c, arg |-> items[k].arg]]
      /\ r.ctx.optpos = 0
      /\ r.answer = CASE ending # <<>> /\ ending[1] = <<"-", "z">> -> "?"
                      [] ending = << <<"-", "c">> >> -> IF optstring[1] = ":" THEN ":" ELSE "?"
                      [] OTHER -> "-1"
      /\ r.ctx.optind = Len(line) + (IF ending # <<>> /\ ending[1] = <<"-", "-">> THEN 1 ELSE 0)
=============================================================================
