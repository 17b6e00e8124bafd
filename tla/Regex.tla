-------------------------------- MODULE Regex --------------------------------
(***************************************************************************)
(* Regular expressions: src/core/regex.c and src/core/nfa.c, with which    *)
(* nbuild finds the files that a package leaves out ("ignore" of           *)
(* workflow.json) and the jobs of the option -j.                           *)
(*                                                                         *)
(* A pattern is split into tokens, the operators it leaves out are put in, *)
(* the tokens are brought into postfix order, and each of them makes or    *)
(* joins automata.  A text is followed through the states of the last one. *)
(* Characters are their code points.                                       *)
(***************************************************************************)
EXTENDS Integers, Sequences
LOCAL INSTANCE SequencesExt

CONSTANTS
    Char,           \* the characters of texts
    Exprs,          \* the expressions that are compiled, see Pattern
    MaxText         \* bound on the length of a text

LeftPar == 40      RightPar == 41     Star == 42      Minus == 45
Dot == 46       LeftSet == 91   Backslash == 92 RightSet == 93
Signs == {LeftPar, RightPar, Star, Minus, Dot, LeftSet, Backslash, RightSet}

EndOfText == 0
MinUnicode == 5
MaxUnicode == 1114112
None == 2000000000      \* UINT32_MAX, above all characters and states

-----------------------------------------------------------------------------
(* Tokens.                                                                 *)

Letter(from, to) == [sym |-> "char", from |-> from, to |-> to]
Sign(s, from)    == [sym |-> s, from |-> from, to |-> 0]
Operator(s)      == Sign(s, 0)

\* i_tokens_unix_regex: the tokens of a pattern, none if it is badly composed.
RECURSIVE Tokens(_, _, _)

\* A character, or a range of them that must not be empty.
Chars(p, tokens, opens) ==
    LET to == IF Len(p) >= 3 THEN p[3] ELSE EndOfText
    IN  IF Len(p) >= 2 /\ p[2] = Minus
        THEN IF to <= p[1] THEN <<>>
             ELSE Tokens(SubSeq(p, 4, Len(p)), Append(tokens, Letter(p[1], to)), opens)
        ELSE Tokens(Tail(p), Append(tokens, Letter(p[1], p[1])), opens)

Tokens(p, tokens, opens) ==
    LET Closes(open) ==
            IF opens # <<>> /\ Last(opens) = open
            THEN Tokens(Tail(p), Append(tokens, Sign("right", Head(p))), Front(opens))
            ELSE <<>>
        Opens == Tokens(Tail(p), Append(tokens, Sign("left", Head(p))), Append(opens, Head(p)))
    IN  IF p = <<>> THEN IF opens = <<>> THEN tokens ELSE <<>>
        ELSE CASE Head(p) = Backslash ->
                      IF Tail(p) = <<>> THEN Tokens(<<>>, tokens, opens) ELSE Chars(Tail(p), tokens, opens)
               [] Head(p) \in {LeftPar, LeftSet} -> Opens
               [] Head(p) = RightPar    -> Closes(LeftPar)
               [] Head(p) = RightSet -> Closes(LeftSet)
               [] Head(p) = Star -> Tokens(Tail(p), Append(tokens, Operator("closure")), opens)
               [] Head(p) = Dot  -> Tokens(Tail(p), Append(tokens, Letter(MinUnicode, MaxUnicode)), opens)
               [] OTHER -> Chars(p, tokens, opens)

\* i_implicits_unix_regex: between two operands comes the operator of the innermost
\* open parenthesis.
RECURSIVE Implicits(_, _, _)
Implicits(tokens, prev, kinds) ==
    LET t     == Head(tokens)
        begin == t.sym \in {"char", "left"}
        added == IF begin /\ prev \in {"char", "right", "closure"} THEN <<Operator(Last(kinds))>> ELSE <<>>
        inner == CASE t.sym = "left"  -> Append(kinds, IF t.from = LeftPar THEN "concat" ELSE "or")
                   [] t.sym = "right" -> Front(kinds)
                   [] OTHER           -> kinds
    IN  IF tokens = <<>> THEN <<>>
        ELSE added \o <<t>> \o Implicits(Tail(tokens), t.sym, inner)

-----------------------------------------------------------------------------
(* i_regex_to_infix: postfix order, by a stack of operators.               *)

Rank == [or |-> 1, concat |-> 2, closure |-> 3]

\* Mutant of Precedes: all operators have one rank.
PrecedesAll(top, t) == top.sym # "left"

\* The operator on the stack comes before the one that is read.
Precedes(top, t) == top.sym # "left" /\ Rank[top.sym] >= Rank[t.sym]

RECURSIVE Popped(_, _, _), Postfix(_, _, _)
Popped(t, out, stack) ==
    IF stack # <<>> /\ Precedes(Last(stack), t)
    THEN IF Last(stack).sym = t.sym THEN <<Append(out, Last(stack)), Front(stack)>>
         ELSE Popped(t, Append(out, Last(stack)), Front(stack))
    ELSE <<out, stack>>

Postfix(tokens, out, stack) ==
    LET t    == Head(tokens)
        p    == Popped(t, out, stack)
        left == CHOOSE n \in DOMAIN stack :
                    stack[n].sym = "left" /\ \A m \in (n + 1)..Len(stack) : stack[m].sym # "left"
    IN  IF tokens = <<>> THEN out \o Reverse(stack)
        ELSE CASE t.sym = "char"  -> Postfix(Tail(tokens), Append(out, t), stack)
               [] t.sym = "left"  -> Postfix(Tail(tokens), out, Append(stack, t))
               [] t.sym = "right" ->
                     Postfix(Tail(tokens), out \o Reverse(SubSeq(stack, left + 1, Len(stack))),
                             SubSeq(stack, 1, left - 1))
               [] OTHER -> Postfix(Tail(tokens), p[1], Append(p[2], t))

-----------------------------------------------------------------------------
(* Automata: sequences of transitions, one for each state from 0 on.  The  *)
(* first is the start, the last accepts.                                   *)

Trans(state, symbol, extra) == [state |-> state, symbol |-> symbol, extra |-> extra]
Epsilon(state, extra) == Trans(state, None, extra)
Accept == Trans(None, 0, 0)

\* i_offset.
Offset(nfa, k) ==
    LET Moved(s) == IF s = None THEN None ELSE s + k
    IN  [n \in DOMAIN nfa |->
            [nfa[n] EXCEPT !.state = Moved(@), !.extra = IF nfa[n].symbol = None THEN Moved(@) ELSE @]]

WithLast(nfa, t) == Append(Front(nfa), t)

\* The last state goes on to state s; that of a closure also goes back.
Continued(nfa, s) ==
    WithLast(nfa, IF Last(nfa).state = None THEN Epsilon(s, None) ELSE Epsilon(Last(nfa).state, s))

\* i_nfa_base, i_nfa_union, i_nfa_concat and i_nfa_closure.
Base(from, to) == <<Trans(1, from, to), Accept>>

Union(a, b) ==
    LET last == Epsilon(Len(a) + Len(b) + 1, None)
    IN  <<Epsilon(1, Len(a) + 1)>> \o WithLast(Offset(a, 1), last)
            \o WithLast(Offset(b, Len(a) + 1), last) \o <<Accept>>

Concat(a, b) == Continued(a, Len(a)) \o Offset(b, Len(a))

Closure(a) ==
    <<Epsilon(1, Len(a) + 1)>> \o Continued(Offset(a, 1), Len(a) + 1) \o <<Epsilon(1, None)>>

\* i_infix_to_NFA: operands are automata on a stack.
RECURSIVE Build(_, _)
Build(tokens, stack) ==
    LET t    == Head(tokens)
        rest == Front(stack)
        two  == Front(rest)
    IN  IF tokens = <<>> THEN Last(stack)
        ELSE Build(Tail(tokens),
                CASE t.sym = "char"    -> Append(stack, Base(t.from, t.to))
                  [] t.sym = "or"      -> Append(two, Union(Last(rest), Last(stack)))
                  [] t.sym = "concat"  -> Append(two, Concat(Last(rest), Last(stack)))
                  [] t.sym = "closure" -> Append(rest, Closure(Last(stack))))

\* _nfa_regex.
Compiled(pattern) ==
    Build(Postfix(Implicits(Tokens(pattern, <<>>, <<>>), "none", <<"concat">>), <<>>, <<>>), <<>>)

-----------------------------------------------------------------------------
(* Expressions, as a reader of a pattern understands it: a range of        *)
(* characters, any character, a sequence, alternatives, repetition.        *)

CharRange(from, to) == [e |-> "range", from |-> from, to |-> to]
AnyChar              == [e |-> "any"]
Then(items)      == [e |-> "then", items |-> items]
OneOf(items)     == [e |-> "one of", items |-> items]
Repeat(body)     == [e |-> "repeat", body |-> body]

\* The pattern for an expression.
RECURSIVE Pattern(_), Operand(_)
Operand(x) == IF x.e = "then" THEN <<LeftPar>> \o Pattern(x) \o <<RightPar>> ELSE Pattern(x)
Pattern(x) ==
    CASE x.e = "range"  -> (IF x.from \in Signs THEN <<Backslash, x.from>> ELSE <<x.from>>)
                           \o (IF x.to = x.from THEN <<>> ELSE <<Minus, x.to>>)
      [] x.e = "any"    -> <<Dot>>
      [] x.e = "then"   -> FlattenSeq([n \in DOMAIN x.items |-> Operand(x.items[n])])
      [] x.e = "one of" -> <<LeftSet>> \o FlattenSeq([n \in DOMAIN x.items |-> Operand(x.items[n])])
                           \o <<RightSet>>
      [] x.e = "repeat" -> Operand(x.body) \o <<Star>>

\* The texts of an expression.
RECURSIVE Denotes(_, _)
Denotes(x, w) ==
    CASE x.e = "range"  -> Len(w) = 1 /\ w[1] \in x.from..x.to
      [] x.e = "any"    -> Len(w) = 1
      [] x.e = "then"   ->
            IF x.items = <<>> THEN w = <<>>
            ELSE \E k \in 0..Len(w) : /\ Denotes(Head(x.items), SubSeq(w, 1, k))
                                      /\ Denotes(Then(Tail(x.items)), SubSeq(w, k + 1, Len(w)))
      [] x.e = "one of" -> \E n \in DOMAIN x.items : Denotes(x.items[n], w)
      [] x.e = "repeat" ->
            \/ w = <<>>
            \/ \E k \in 1..Len(w) : /\ Denotes(x.body, SubSeq(w, 1, k))
                                    /\ Denotes(x, SubSeq(w, k + 1, Len(w)))

RECURSIVE EndsInRepeat(_), Plain(_)
EndsInRepeat(x) == x.e = "repeat" \/ (x.e = "then" /\ EndsInRepeat(Last(x.items)))

\* No alternative and no repeated body ends in a repetition.
Plain(x) ==
    CASE x.e = "one of" -> \A n \in DOMAIN x.items : Plain(x.items[n]) /\ ~EndsInRepeat(x.items[n])
      [] x.e = "then"   -> \A n \in DOMAIN x.items : Plain(x.items[n])
      [] x.e = "repeat" -> Plain(x.body) /\ ~EndsInRepeat(x.body)
      [] OTHER          -> TRUE

-----------------------------------------------------------------------------
(* Matching.                                                               *)

VARIABLES
    expr,       \* what the pattern stands for
    nfa,        \* the automaton of the pattern
    current,    \* the states the text can have led to
    text        \* history: the characters matched so far

regex_vars == <<expr, nfa, current, text>>

\* i_add_closure: states that read a character, and the last one.
RECURSIVE Reached(_, _)
Reached(a, s) ==
    LET t == a[s + 1]
    IN  IF t.symbol # None THEN {s}
        ELSE (IF s = Len(a) - 1 THEN {s} ELSE {})
             \cup Reached(a, t.state)
             \cup (IF t.extra = None THEN {} ELSE Reached(a, t.extra))

\* regex_create, and _nfa_start for a first text.
RegexInit ==
    /\ expr \in Exprs
    /\ nfa = Compiled(Pattern(expr))
    /\ current = Reached(nfa, 0)
    /\ text = <<>>

\* _nfa_start for another text.
StartMatch ==
    /\ text # <<>>
    /\ current' = Reached(nfa, 0)
    /\ text' = <<>>
    /\ UNCHANGED <<expr, nfa>>

\* _nfa_next; when no state is left the answer is FALSE whatever follows.
MatchNext(c) ==
    /\ Len(text) < MaxText
    /\ current' = UNION {Reached(nfa, nfa[s + 1].state) :
                            s \in {r \in current : nfa[r + 1].symbol <= c /\ c <= nfa[r + 1].extra}}
    /\ text' = Append(text, c)
    /\ UNCHANGED <<expr, nfa>>

RegexNext == StartMatch \/ \E c \in Char : MatchNext(c)
RegexSpec == RegexInit /\ [][RegexNext]_regex_vars

\* _nfa_accept.
Accepted == Len(nfa) - 1 \in current

\* Whatever was matched before, and with operators left out and bound by parentheses, a
\* text matches exactly when the expression denotes it; in every nesting but that of a
\* repetition at the end of a repeated body or of an alternative, for which
\* i_nfa_union and i_nfa_closure make no right automaton.
MatchIsLanguage == Plain(expr) => (Accepted <=> Denotes(expr, text))
==============================================================================
