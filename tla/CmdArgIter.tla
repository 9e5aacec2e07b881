----------------------------- MODULE CmdArgIter -----------------------------
(***************************************************************************)
(* cmdline.h: an iterator over the arguments of a program, which reads     *)
(* groups of letters after '-', long options after '--' and plain text.    *)
(* The caller reads it the way its queries tell.                           *)
(***************************************************************************)
EXTENDS Naturals, Sequences

CONSTANTS
  Words,     \* what an argument may be: a sequence of characters
  MaxArgs    \* bound: the arguments

VARIABLES
  argv,      \* the arguments
  arglist,   \* index of the current one; that of the end is one more than the last
  curarg,    \* position in it
  end, opt, noopts,
  taken,     \* ghost: what was returned: <<argument, first position, last position>>
  value      \* may the caller take what follows as the value of an option?

vars == <<argv, arglist, curarg, end, opt, noopts, taken, value>>

Nul == "NUL"
\* *(curarg + n) in the iterator it; behind the terminator there is no telling.
At(it, n) ==
  LET word == argv[it.arglist] IN IF it.curarg + n <= Len(word) THEN word[it.curarg + n] ELSE Nul
isalnum(c) == c \in {"a", "b"}

It == [arglist |-> arglist, curarg |-> curarg, end |-> end, opt |-> opt, noopts |-> noopts]
Set(it) ==
  /\ arglist' = it.arglist /\ curarg' = it.curarg /\ end' = it.end
  /\ opt' = it.opt /\ noopts' = it.noopts

TextAt(it) == ~it.end /\ ~it.opt /\ (it.noopts \/ At(it, 0) # "-")
LongOptAt(it) == ~it.end /\ ~TextAt(it) /\ At(it, 1) = "-"
isText == TextAt(It)
isLongOpt == LongOptAt(It)
isOpt == opt \/ (~end /\ ~isText /\ At(It, 1) # "-")

\* The next argument that is neither empty nor the first "--", which ends the options.
After(i) == CHOOSE n \in (i + 1)..(Len(argv) + 1) :
  (n <= Len(argv) => argv[n] # <<>>) /\ \A j \in (i + 1)..(n - 1) : argv[j] = <<>>
Reach(it) ==
  [it EXCEPT !.arglist = After(@), !.curarg = 1, !.end = After(it.arglist) > Len(argv)]
EndsOptions(it) == LongOptAt(it) /\ At(it, 2) = Nul
NextArg(it) ==
  IF it.end THEN it
  ELSE LET next == Reach(it) IN IF EndsOptions(next) THEN Reach([next EXCEPT !.noopts = TRUE]) ELSE next

\* Fault: the end of a group passes over the next argument.
initNextArgTwice(it) ==
  IF ~it.opt THEN NextArg(it)
  ELSE IF At(it, 1) # Nul THEN [it EXCEPT !.curarg = @ + 1]
  ELSE NextArg(NextArg([it EXCEPT !.opt = FALSE]))

initNextArg(it) ==
  IF ~it.opt THEN NextArg(it)
  ELSE IF At(it, 1) # Nul THEN [it EXCEPT !.curarg = @ + 1]
  ELSE NextArg([it EXCEPT !.opt = FALSE])

BoundedSeqs(S, n) == UNION {[1..m -> S] : m \in 0..n}
Init ==
  /\ argv \in BoundedSeqs(Words, MaxArgs)
  /\ LET first == NextArg([arglist |-> 0, curarg |-> 1, end |-> FALSE, opt |-> FALSE, noopts |-> FALSE])
     IN /\ arglist = first.arglist /\ curarg = first.curarg /\ end = first.end
        /\ opt = FALSE /\ noopts = first.noopts
  /\ taken = <<>> /\ value = FALSE

Take(first, last) == taken' = Append(taken, <<arglist, first, last>>)

\* Text, the value of an option, and what getOpt() left as no letter.
Unreadable == opt /\ ~isalnum(At(It, 0))
getNext ==
  /\ ~end /\ (isText \/ value \/ Unreadable)
  /\ Take(curarg, Len(argv[arglist]))
  /\ Set(initNextArg([It EXCEPT !.opt = FALSE])) /\ value' = FALSE
  /\ UNCHANGED argv

\* A letter; 0 if there is none, and then the group goes no further.
getOpt ==
  /\ isOpt /\ ~Unreadable
  /\ LET it == IF opt THEN It ELSE [It EXCEPT !.opt = TRUE, !.curarg = @ + 1]
     IN IF isalnum(At(it, 0))
        THEN Take(it.curarg, it.curarg) /\ Set(initNextArg(it)) /\ value' = TRUE
        ELSE Set(it) /\ UNCHANGED taken /\ value' = FALSE
  /\ UNCHANGED argv

getLongOpt ==
  /\ isLongOpt /\ ~Unreadable
  /\ Take(curarg + 2, Len(argv[arglist])) /\ Set(initNextArg(It)) /\ value' = TRUE
  /\ UNCHANGED argv

Next == getNext \/ getOpt \/ getLongOpt

Spec == Init /\ [][Next]_vars

-----------------------------------------------------------------------------
Positions(i) == {<<i, j>> : j \in DOMAIN argv[i]}
Covered(t) == {<<t[1], j>> : j \in t[2]..t[3]}
\* The argument that ends the options, if the iterator met it.
Separator(i) == argv[i] = <<"-", "-">> /\ \A j \in 1..(i - 1) : argv[j] # <<"-", "-">>
\* The dashes of an option that was read as one.
Dashes(i) ==
  IF \E n \in DOMAIN taken : taken[n][1] = i /\ taken[n][2] = 1 THEN {}
  ELSE {<<i, j>> : j \in {k \in DOMAIN argv[i] : k <= 2 /\ \A l \in 1..k : argv[i][l] = "-"}}

\* Every character of the arguments is returned once, by one of the calls, and in
\* order: as a letter of a group, in a long option, in a value or as text.  Only
\* the dashes of options and the first "--" are not.  A '-' inside a group breaks
\* this: isLongOpt() looks at the character after the current one.
EachArgumentOnce ==
  /\ \A m, n \in DOMAIN taken : m < n => Covered(taken[m]) \cap Covered(taken[n]) = {}
  /\ \A n \in DOMAIN taken \ {1} :
       LET t == taken[n - 1] u == taken[n] IN t[1] < u[1] \/ (t[1] = u[1] /\ t[3] < u[2])
  /\ end => UNION {Covered(taken[n]) : n \in DOMAIN taken}
            = UNION {Positions(i) \ Dashes(i) : i \in {j \in DOMAIN argv : ~Separator(j)}}
=============================================================================
