-------------------------------- MODULE Args --------------------------------
(***************************************************************************)
(* get_args (sync/api/linux_syscall_api/src/api.rs), the splitter that     *)
(* run_testcase applies to a testcase's command line before Task::init.    *)
(* The loop is modelled one iteration per step. Bytes are abstracted to    *)
(* the two the code tests, the double quote and the space, and a small set *)
(* of other letters.                                                       *)
(***************************************************************************)
EXTENDS Integers, Sequences, FiniteSets, SequencesExt

CONSTANTS
    Quote,      \* b'"'
    Space,      \* b' '
    Letters,    \* every other byte
    MaxLen      \* longest command line checked

Bytes == {Quote, Space} \cup Letters

VARIABLES
    line,       \* command_line
    pos,        \* the loop index, 1-based (the code's pos + 1)
    inQuote,    \* in_quote
    argStart,   \* arg_start, 1-based
    args,       \* the Vec<String> being built
    done        \* get_args has returned

vars == <<line, pos, inQuote, argStart, args, done>>

\* let mut args = Vec::new(); in_quote = false; arg_start = 0
Init ==
    /\ line \in BoundedSeq(Bytes, MaxLen)
    /\ pos = 1
    /\ inQuote = FALSE
    /\ argStart = 1
    /\ args = <<>>
    /\ done = FALSE

\* Mutant: the `arg_start != pos` test dropped, so empty arguments are pushed.
ScanPushEmpty ==
    /\ ~done
    /\ pos <= Len(line)
    /\ LET q == IF line[pos] = Quote THEN ~inQuote ELSE inQuote
           split == line[pos] = Space /\ ~q
       IN /\ inQuote' = q
          /\ args' = IF split THEN Append(args, SubSeq(line, argStart, pos - 1))
                               ELSE args
          /\ argStart' = IF split THEN pos + 1 ELSE argStart
    /\ pos' = pos + 1
    /\ UNCHANGED <<line, done>>

\* Mutant: the next argument started one byte too late.
ScanStartLate ==
    /\ ~done
    /\ pos <= Len(line)
    /\ LET q == IF line[pos] = Quote THEN ~inQuote ELSE inQuote
           split == line[pos] = Space /\ ~q
       IN /\ inQuote' = q
          /\ args' = IF split /\ argStart # pos
                     THEN Append(args, SubSeq(line, argStart, pos - 1))
                     ELSE args
          /\ argStart' = IF split THEN pos + 2 ELSE argStart
    /\ pos' = pos + 1
    /\ UNCHANGED <<line, done>>

\* One pass of `for pos in 0..command_line.len()`: a quote flips in_quote,
\* then a space outside quotes ends the current argument, pushed only when
\* it is not empty, and the next one starts after the space.
Scan ==
    /\ ~done
    /\ pos <= Len(line)
    /\ LET q == IF line[pos] = Quote THEN ~inQuote ELSE inQuote
           split == line[pos] = Space /\ ~q
       IN /\ inQuote' = q
          /\ args' = IF split /\ argStart # pos
                     THEN Append(args, SubSeq(line, argStart, pos - 1))
                     ELSE args
          /\ argStart' = IF split THEN pos + 1 ELSE argStart
    /\ pos' = pos + 1
    /\ UNCHANGED <<line, done>>

\* After the loop: the last argument, if arg_start is not at the end.
Finish ==
    /\ ~done
    /\ pos = Len(line) + 1
    /\ args' = IF argStart # pos
               THEN Append(args, SubSeq(line, argStart, Len(line)))
               ELSE args
    /\ done' = TRUE
    /\ UNCHANGED <<line, pos, inQuote, argStart>>

Next == Scan \/ Finish

Spec == Init /\ [][Next]_vars

-----------------------------------------------------------------------------
(* Reference, from the comment at api.rs:71-72: quotes are not added to  *)
(* an argument, and a space inside quotes does not split. The arguments   *)
(* are the maximal runs of bytes that are not separators, a separator     *)
(* being a space preceded by an even number of quotes, each run with its  *)
(* quotes removed.                                                        *)

QuotesBefore(s, i) == Cardinality({j \in 1..(i - 1) : s[j] = Quote})

IsSep(s, i) == s[i] = Space /\ QuotesBefore(s, i) % 2 = 0

RunStarts(s) ==
    {i \in 1..Len(s) : ~IsSep(s, i) /\ (i = 1 \/ IsSep(s, i - 1))}

RunEnd(s, a) ==
    CHOOSE b \in a..Len(s) :
        /\ \A j \in a..b : ~IsSep(s, j)
        /\ (b = Len(s) \/ IsSep(s, b + 1))

StripQuotes(arg) == SelectSeq(arg, LAMBDA c : c # Quote)

CommentArgs(s) ==
    LET starts == SetToSortSeq(RunStarts(s), <)
    IN [k \in 1..Len(starts) |->
          StripQuotes(SubSeq(s, starts[k], RunEnd(s, starts[k])))]

-----------------------------------------------------------------------------
TypeOK ==
    /\ line \in BoundedSeq(Bytes, MaxLen)
    /\ pos \in 1..(Len(line) + 1)
    /\ inQuote \in BOOLEAN
    /\ argStart \in 1..(Len(line) + 1)
    /\ args \in Seq(Seq(Bytes))
    /\ done \in BOOLEAN

\* When get_args returns it has split where the comment says: with the
\* quote bytes set aside, its arguments are the comment's arguments, so
\* none is lost, merged, cut short or empty, with quotes left open,
\* leading, trailing or doubled spaces. (Whether the quote bytes stay in is
\* NoQuoteInArgs.)
SplitAtUnquotedSpaces ==
    done => /\ Len(args) = Len(CommentArgs(line))
            /\ \A k \in 1..Len(args) : StripQuotes(args[k]) = CommentArgs(line)[k]

\* The comment at api.rs:71: "if there are quotes, the quotes must not be
\* added": no argument get_args returns holds a quote byte.
NoQuoteInArgs ==
    done => \A k \in 1..Len(args) : Quote \notin ToSet(args[k])

=============================================================================
